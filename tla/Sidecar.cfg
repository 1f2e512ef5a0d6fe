SPECIFICATION Spec
CONSTANTS
  StreamCalls = {a, b}
  Exchanges = {x1, x2}
  NoValue = NoValue
  Parts = {"expiring", "registering", "retried", "compacted", "made", "exact", "in_order", "reading", "anthropic", "fragments", "chunks", "responses", "well_formed", "amend_anthropic", "amend_chat", "amend_responses"}
SYMMETRY Symmetry
INVARIANTS
  ClientRunsWhatWasJudged
  TheModelSeesItsOwnTurn
PROPERTIES
  RunsAreKept
  ResultsAreShown
  HistoryHasEachMessageOnce
CHECK_DEADLOCK FALSE
