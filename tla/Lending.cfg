SPECIFICATION Spec
CONSTANTS
  Actors = {a1, a2, a3, a4}
  Copies = 2
  MaxKeys = 4
  Nobody = Nobody
SYMMETRY ActorSymmetry
INVARIANTS
  NeverReachesItself
  OnlyDiamondsAlias
