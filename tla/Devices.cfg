CONSTANTS
  Users = {a, b}
  Channels = {2, 4}
  Modes = {"normal", "low"}
  Rates = {0, 1}
  NoOne = "nobody"
  None = 0
  Cpus = {c1, c2}
  Sectors = 2
  SectorValues = {1, 2}
  Shapes <- MCShapes
  Words = {1, 2}
  ConfigRegs = {"r1", "r2"}
  MaxSamples = 2
  SensorErrors = 1
  Callers = {p1, p2}
  Scale = 2
  Periods = {1}
  ClockErrors = 1
  MaxRequests = 3
  Bytes = {0, 1, 2, 48, 49, 50, 255}
SPECIFICATION MCSpec
INVARIANTS ReadsOwnChannel RegistersMatch UnitAtomic ReadIsFresh PwmObeys LineIsLast
CHECK_DEADLOCK FALSE
SYMMETRY MCSymmetry
CONSTRAINT StillPromised
