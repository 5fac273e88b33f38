SPECIFICATION FairSpec
CONSTANTS
  Leaf <- FourLeaves
  Root <- FourRoot
  Shapes <- SharedShapes
  Senders = {"full"}
  Ordered = FALSE
  Redelivery = TRUE
  Damages = {{"leaf", "proof"}, {"proof", "unhashed"}}
INVARIANTS TypeOK ProofsGenuine CompleteVerifies
PROPERTIES Arrives
