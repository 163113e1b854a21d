SPECIFICATION Spec
CONSTANTS
  Calls = {c1, c2}
  MaxRequests = 3
  MaxFailures = 1
  MaxClears = 1
  MaxBoots = 2
  Reports = {{"remaining", "total", "used"}, {"used"}}
  TrialQuota = 1
INVARIANTS
  MemoryIsRow
  NeverOverstated
  AccountHasDevice
PROPERTIES
  DeviceSurvives
  UserKept
CHECK_DEADLOCK FALSE
