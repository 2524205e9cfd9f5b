SPECIFICATION Spec
CONSTANTS
  N = 3
  Accessors = {a1}
  MaxSends <- OneEach
  FaultyContexts = {}
INVARIANTS
  DeliveredToAddressee
\* The system stops: threads exit, hang or panic.
CHECK_DEADLOCK FALSE
