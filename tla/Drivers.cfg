CONSTANTS
  MaxEdges = 5
  Times <- MCTimes
  BusErrors = 2
SPECIFICATION MCSpec
INVARIANTS KeyFollowsLine UsedWhileHeld ResourcesKept ReadsBack
PROPERTIES KeyReported AlarmObeys TouchSettles
CHECK_DEADLOCK FALSE
