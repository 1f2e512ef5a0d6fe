SPECIFICATION ProxiesSpec
CONSTANTS
  Parts = {"envoy"}
  LetThroughs = {FALSE}
  MaxChunks = 1
  MaxReply = 1
  Room = 1
  MaxKeepalives = 0
INVARIANT LastAnswerIsGiven
CHECK_DEADLOCK FALSE
