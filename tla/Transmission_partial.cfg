SPECIFICATION Spec
CONSTANTS
  Leaf <- FiveLeaves
  Root <- FourRoot
  Shapes <- FiveShapes
  Senders = {"partial", "pruned"}
  Ordered = FALSE
  Redelivery = TRUE
  Damages = {{}}
INVARIANTS HonestAccepted VerifiesThroughout
PROPERTIES NothingLost
