SPECIFICATION FairSpec
CONSTANTS
  Leaf <- ThreeLeaves
  Root <- SecondRoot
  Shapes <- SmallShapes
  Senders = {"full", "partial", "pruned"}
  Memory = {TRUE, FALSE}
  Separate = {TRUE, FALSE}
  BatchModes = {TRUE, FALSE}
  Damage = {"leaf", "proof"}
INVARIANTS TypeOK StreamingAgrees ContentAvailable LabelsSound IndexAgrees
PROPERTIES KeepsLeaves Arrives
