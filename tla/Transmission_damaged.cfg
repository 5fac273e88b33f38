SPECIFICATION Spec
CONSTANTS
  Leaf <- FourLeaves
  Root <- FourRoot
  Shapes <- AllShapes
  Senders = {"pruned"}
  Ordered = TRUE
  Redelivery = TRUE
  Damages = {{"leaf", "proof"}}
INVARIANTS ProofsGenuine
