SPECIFICATION Spec
CONSTANTS
  Jobs = {j1, j2}
  MaxAttempts = 2
  MaxRetried = 1
  MaxFaults = 1
INVARIANTS
  SuccessRecorded
PROPERTIES
  RetriedOnlyUnproven
  Settles

CHECK_DEADLOCK FALSE
