SPECIFICATION FairSpec
CONSTANTS
  A = A
  B = B
  I = I
  J = J
  Unknown = Unknown
  None = None
  Types = {A, B}
  Interfaces = {I, J}
  Implementors <- Listed
  N = 3
  Configs <- MCConfigs
  MaxCasts = 2
  MaxKeys = 2
INVARIANTS
  TypeOK
  HandlersMeetTheirActor
  EachTargetOnce
  LocalKeysAreSound
  DropsAreSound
PROPERTIES
  SetupEnds
\* The process ends.
CHECK_DEADLOCK FALSE
