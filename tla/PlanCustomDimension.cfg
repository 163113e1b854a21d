SPECIFICATION Spec
CONSTANT Surveys <- MCCustomDimension
INVARIANT TendencyKept
CHECK_DEADLOCK FALSE
