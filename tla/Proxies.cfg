SPECIFICATION ProxiesSpec
CONSTANTS
  Parts = {"relay", "feeding", "polling", "reopened", "envoy", "fields", "open", "closed", "answering", "stopping"}
  LetThroughs = {TRUE, FALSE}
  MaxChunks = 3
  MaxReply = 2
  Room = 1
  MaxKeepalives = 1
INVARIANTS
  SidecarJudgesTheWholeReply
  StatusErrorComesFirst
  RelayIsWholeOrRefused
  RepliesAreSettledOnce
  HookAndStreamAgree
  ProviderIsSentWhatWasJudged
  RepliesMeetTheirRequests
CHECK_DEADLOCK FALSE
