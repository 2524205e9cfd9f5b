SPECIFICATION Spec
CONSTANTS
  Layouts <- SizedLayouts
  MaxActors = 2
  Addresses <- AlignedAddress
INVARIANTS
  ConstructionSucceeds
\* create_context returns or panics.
CHECK_DEADLOCK FALSE
