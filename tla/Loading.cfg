SPECIFICATION FairSpec
CONSTANTS
  n1 = n1
  n2 = n2
  n3 = n3
  n4 = n4
  t1 = t1
  Null = Null
  Nodes = {n1, n2, n3, n4}
  Decl <- Libraries
  Getters = {g1, g2}
  Traits = {t1}
INVARIANTS
  ListHoldsPushed
  NamesResolve
  TraitsListImplementors
PROPERTIES
  PushSucceeds
  ImplementsOnceRead
\* Every library is loaded and every call has returned.
CHECK_DEADLOCK FALSE
