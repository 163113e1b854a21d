SPECIFICATION Spec
CONSTANTS
  Requests <- MCRequests
  Workers <- MCWorkers
  MaxFaults = 2
INVARIANTS
  
  QuotasRealised
  StatsAreRecorded
CHECK_DEADLOCK FALSE
