SPECIFICATION Spec
CONSTANTS
  Configurations <- AllChains
  BufferSize = 2
  Parallelism = 2
  OtherRequests = 2
INVARIANTS
  AnsweredOnceInOrder
  RefusedStayAbove
  FlushLeavesNothing
  NoLostWakeUp
  TeePairsMatch
