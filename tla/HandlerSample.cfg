SPECIFICATION FairSpec
CONSTANTS
  Exchanges <- SampleExchanges
  MarkIds = {"m0", "m1"}
  Digests = {"d1"}
  Attempts = {"t1", "t2"}
  Conversations = {"c1", "c2"}
  Named = TRUE
  Marks <- SampleMarks
  Results <- SampleResults
  Calls <- SampleCalls
  AttemptOf <- SampleAttempt
  ConversationOf <- SampleConversation
  Holds <- SampleHolds
  Watched = {"AfterToolCall", "BeforeGenerate", "AfterGenerate", "BeforeToolCall"}
  MaxRejections = 3
  Nobody = "nobody"
INVARIANTS
  TypeOK
  NoUnjudgedResultGoesOn
  ResultShownOnce
PROPERTIES
  RejectedTurnIsTold
  EndedRunGoesNoFurther
  EveryExchangeIsAnswered
CHECK_DEADLOCK FALSE
