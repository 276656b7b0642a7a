CONSTANTS
  Sessions = {"c1", "c2"}
  NoSession = "none"
  BufCells = 8
  NumRequests = 3
  Data <- MCData
  Announced <- MCAnnounced
  Pid <- MCPid
  Exact <- MCExact
  Window = 1
  Patient = TRUE
  MayReset = FALSE
SPECIFICATION MCSpec
PROPERTIES PatientAnswered
INVARIANTS BufferBounded PatientOwned PatientServed
CHECK_DEADLOCK FALSE
