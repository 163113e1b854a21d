SPECIFICATION Spec
CONSTANTS
  Tasks = {t1, t2}
  LateHandlers = TRUE
  MaxEvents = 1
  MaxFailures = 1
  MaxBoots = 1
SYMMETRY TaskSymmetry
INVARIANTS
  VisibleTaskIsStored
  AcceptedStopWins
  DurableStatus
PROPERTIES
  FinishedIsFinal
CHECK_DEADLOCK FALSE
