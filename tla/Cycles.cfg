SPECIFICATION Spec
CONSTANTS
  Actors = {a1, a2, a3, a4}
SYMMETRY ActorSymmetry
INVARIANTS
  VerdictIsRight
  OneCallPerActor
\* has_cycles returns.
CHECK_DEADLOCK FALSE
