SPECIFICATION FairSpec
CONSTANTS
  Leaf <- FourLeaves
  Root <- FourRoot
  Shapes <- SharedShapes
  Senders = {"full"}
  Holdings = {"nothing"}
  BatchModes = {TRUE, FALSE}
  Ordered = FALSE
  Redelivery = TRUE
  Damages = {{"leaf", "proof"}, {"unhashed"}}
INVARIANTS CompleteVerifies
PROPERTIES Connected Arrives
