SPECIFICATION MCSpec
CONSTANTS
  MaxQuota = 4
  MaxDraws = 4
  Options = 4
  Cases <- MCCases
  Savers = {s1, s2}
  Documents <- MCDocuments
  Before <- MCBefore
INVARIANTS
  Balanced
  AppliedOnce
  CorrectionSound
  BodyFaithful
  SaveAtomic
CHECK_DEADLOCK FALSE
