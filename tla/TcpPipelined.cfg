CONSTANTS
  Sessions = {c1, c2}
  NoSession = NoSession
  BufCells = 8
  NumRequests = 2
  Data <- MCTwoData
  Announced <- MCTwoAnnounced
  Pid <- MCTwoPid
  Exact <- MCTwoExact
  Window = 2
  Patient = TRUE
  MayReset = FALSE
SPECIFICATION Spec
INVARIANTS HeaderIsTheRequests
CHECK_DEADLOCK FALSE
