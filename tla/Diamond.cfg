SPECIFICATION Spec
CONSTANTS
  Actors = {a1, a2, a3, a4}
  Copies = 1
  MaxKeys = 4
  Nobody = Nobody
SYMMETRY ActorSymmetry
INVARIANTS
  NoAliasing
