SPECIFICATION Spec
CONSTANTS
  a1 = a1
  a2 = a2
  Owners = {o1, o2}
  Addresses = {a1, a2}
  NoAddress = NoAddress
  RequiredTTL = 1
  CooldownFor = 1
  Fetches <- MCFetches
  MaxNow = 3
  MaxCalls = 3
INVARIANTS
  LeaseExclusive
  SuccessNotReused
  FreeLeasesClean
PROPERTY AcquireAnswers
CHECK_DEADLOCK FALSE
