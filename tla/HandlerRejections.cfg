SPECIFICATION Spec
CONSTANTS
  Exchanges <- OpeningExchanges
  MarkIds = {"m0", "m1", "m2", "n0", "n1"}
  Digests = {"d1"}
  Attempts = {"t1"}
  Conversations = {"c1"}
  Named = FALSE
  Marks <- OpeningMarks
  Results <- OpeningResults
  Calls <- OpeningCalls
  AttemptOf <- OpeningAttempt
  ConversationOf <- OpeningConversation
  Holds <- OpeningHolds
  Watched = {"BeforeToolCall", "BeforeGenerate"}
  MaxRejections = 3
  Nobody = "nobody"
INVARIANTS
  ThreeRejectedTurnsEndRun
CHECK_DEADLOCK FALSE
