SPECIFICATION SentinelSpec
CONSTANTS
  Parts = {"runner", "chain", "threshold"}
  Functions <- TreeFunctions
  Instances <- TreeInstances
  Monitors <- TreeMonitors
  Members <- TreeMembers
  Batches <- TreeBatches
  Caller <- TreeCaller
  Above <- TreeAbove
  InstanceOf <- TreeInstanceOf
  Kinds <- AllKinds
  MaxLinks = 4
  MaxVotes = 3
  Offered <- AllOffers
  MonitorNames <- TwoMonitors
  Keys <- FourKeys
  Dims <- ThreeDims
  MaxKeys = 2
  MaxLimit = 2
  MaxScores = 2
INVARIANTS
  TypeOK
  FinalSettledOnce
  CancellationHasCause
  NothingOutlivesTheStep
  EscalationIsAnswered
  NoObjectionIsOutvoted
  NoDeadThreshold
  ThresholdIsFloor
CHECK_DEADLOCK FALSE
