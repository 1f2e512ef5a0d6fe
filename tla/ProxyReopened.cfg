SPECIFICATION ProxiesSpec
CONSTANTS
  Parts = {"reopened"}
  LetThroughs = {FALSE}
  MaxChunks = 1
  MaxReply = 1
  Room = 1
  MaxKeepalives = 0
INVARIANT LiveStreamIsKnown
CHECK_DEADLOCK FALSE
