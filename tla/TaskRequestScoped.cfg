SPECIFICATION Spec
CONSTANTS
  Tasks = {t1}
  LateHandlers = FALSE
  MaxEvents = 0
  MaxFailures = 0
  MaxBoots = 1
INVARIANT StoppedOnRequest
CHECK_DEADLOCK FALSE
