SPECIFICATION SpecExchange
CONSTANTS
  Leaf <- SixLeaves
  Roots <- ThreeRoots
  Shapes <- ThreeVersions
INVARIANTS TypeOK DiffsAgree CompleteUpdates ParcelsVerifyWithAChild
PROPERTIES Atomic
