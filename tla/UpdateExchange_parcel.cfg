SPECIFICATION SpecExchange
CONSTANTS
  Leaf <- SixLeaves
  Roots <- ThreeRoots
  Shapes <- ThreeVersions
INVARIANTS ParcelsVerify
