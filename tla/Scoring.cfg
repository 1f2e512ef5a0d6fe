SPECIFICATION ScoringSpec
CONSTANTS
  Parts = {"fit", "markers", "asked", "answers", "at_once", "in_turn", "of_input"}
  Asks <- Plain
  Stages = {"before_generate", "after_tool_call"}
  Lists <- Many
  MarkerCost = 2
  FixedCost = 1
  Limits <- Budgets
  Outputs <- Answered
  RetryRefusals = 0
INVARIANTS
  SentFits
  SmallestCutIsSent
  ScoresAreOfWhatWasSent
  NothingGoesUnseen
CHECK_DEADLOCK FALSE
