SPECIFICATION Spec
CONSTANTS
  N = 2
  Accessors = {a1}
  MaxSends <- OneEach
  FaultyContexts = {}
INVARIANTS
  EarlySendsArePassedOn
\* The system stops: threads exit, hang or panic.
CHECK_DEADLOCK FALSE
