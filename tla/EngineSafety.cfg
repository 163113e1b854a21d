SPECIFICATION Spec
CONSTANTS
  OptionTarget = 3
  PlanTarget = 4
  OptionThreads = 0
  PlanThreads = 2
  MaxRetries = 1
  FailStop = TRUE
  FailStopThreshold = 1
  UseRandomIP = TRUE
  Causes = {"plain"}
  Endings = {"canceled"}
  MaxPauses = 1
INVARIANTS
  NoJobLost
  NilErrorMeansComplete
  LateSubmitBound
  LeaseExactlyWhileUsed
  StatsFollowSuccess
  FailStopBound
PROPERTIES
  Terminates
  ImplementsSubmissionRun
CHECK_DEADLOCK FALSE
