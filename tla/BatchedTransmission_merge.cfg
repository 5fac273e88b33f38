SPECIFICATION Spec
CONSTANTS
  Leaf <- FiveLeaves
  Root <- FourRoot
  Shapes <- FiveShapes
  Senders = {"full", "partial", "pruned"}
  Holdings = {"partial", "pruned"}
  BatchModes = {TRUE}
  Ordered = TRUE
  Redelivery = TRUE
  Damages = {{}}
INVARIANTS VerifiesThroughout
PROPERTIES NothingLost
