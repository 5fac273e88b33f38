SPECIFICATION Spec
CONSTANTS
  Leaf <- FourLeaves
  Root <- FourRoot
  Shapes <- AllShapes
  Senders = {"full", "partial", "pruned"}
  Holdings = {"nothing"}
  BatchModes = {TRUE, FALSE}
  Ordered = FALSE
  Redelivery = TRUE
  Damages = {{}}
INVARIANTS HonestAccepted
