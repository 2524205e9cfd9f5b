SPECIFICATION FairSpec
CONSTANTS
  N = 3
  Accessors = {a1, a2}
  MaxSends <- BatchFromFirst
  FaultyContexts = {2}
INVARIANTS
  TypeOK
  BlockAliveWhileUsed
  PanicBlocksShutdown
  DisconnectedOnlyAfterEarlyDrop
  CountExact
  ExactlyOneCopy
  OnlyEarlySendsAreLost
  StopOnlyWhenQuiescent
  StopReachesWaitingThreads
PROPERTIES
  RemoteOrder
  ImplementsQuiescence
  QuiescenceIsDetected
  AccessorMessagesAreHandled
  ShutdownCompletes
\* The system stops: threads exit, hang or panic.
CHECK_DEADLOCK FALSE
