SPECIFICATION Spec
CONSTANTS
  Tasks = {t1, t2}
  LateHandlers = FALSE
  MaxEvents = 0
  MaxFailures = 0
  MaxBoots = 2
INVARIANT ActiveTaskHasRuntime
PROPERTIES
  RestartKeepsEndedRows
  AcceptedStopEnds
  ShutdownEnds
CHECK_DEADLOCK FALSE
