SPECIFICATION FairSpec
CONSTANTS
  Events <- MCEvents
  Home <- MCHome
  Capacity = 2
INVARIANTS
  TypeOK
  PipelineIsExact
  CleanUnlessInterrupted
PROPERTIES
  ImplementsMerge
  ReplayCompletes
  TokioThreadEnds
\* The threads end.
CHECK_DEADLOCK FALSE
