SPECIFICATION Spec
CONSTANT Surveys <- MCSurveys
INVARIANTS
  JourneyJustified
  LimitsKept
  RuleObeyed
  PendingMatches
CHECK_DEADLOCK FALSE
