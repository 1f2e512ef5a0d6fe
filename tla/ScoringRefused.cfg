SPECIFICATION ScoringSpec
CONSTANTS
  Parts = {"markers"}
  Asks <- Plain
  Stages = {"before_generate", "after_tool_call"}
  Lists <- Many
  MarkerCost = 2
  FixedCost = 1
  Limits <- Budgets
  Outputs <- Answered
  RetryRefusals = 0
INVARIANTS
  RefusesOnlyUnfit
CHECK_DEADLOCK FALSE
