SPECIFICATION ExchangeSpec
CONSTANTS
  Exchanges <- OpeningExchanges
  MarkIds = {"m0", "m1", "m2", "n0", "n1"}
  Digests = {"d1"}
  Attempts = {"t1"}
  Conversations = {"c1"}
  Named = FALSE
  Marks <- OpeningMarks
  Results <- OpeningResults
  Calls <- OpeningCalls
  AttemptOf <- OpeningAttempt
  ConversationOf <- OpeningConversation
  Holds <- OpeningHolds
  Watched = {"BeforeToolCall", "BeforeGenerate"}
  MaxRejections = 3
  Nobody = "nobody"
  Modes <- AnyMode
  MaxChunks = 4
  MaxHeld = 3
  MaxPending = 1
  MaxKeepalives = 1
INVARIANTS
  FreshConversationGoesOn
  EditedTurnIsMatched
  ThirdRejectionEndsRun
  ClientHasWhatWasJudged
PROPERTIES
  RejectedTurnIsTold
  KeepsItsPromise
  EveryReplyEnds
CHECK_DEADLOCK FALSE
