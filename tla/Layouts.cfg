SPECIFICATION Spec
CONSTANTS
  Layouts <- SmallLayouts
  MaxActors = 3
  Addresses <- EveryAddress
INVARIANTS
  ObjectsFit
  ObjectsDisjoint
  SpaceIsExact
\* create_context returns or panics.
CHECK_DEADLOCK FALSE
