SPECIFICATION Spec
CONSTANTS
  Contents <- MCContents
  MinSize = 1
  TargetSize = 3
  MaxSize = 5
  Gear <- MCGear
  Modulus = 16
  StrictLimit = 4
  LooseLimit = 8
  FixedSizes <- MCFixedSizes
INVARIANTS StreamingAgrees ChunkSizes Reassembles
PROPERTIES Returns
CHECK_DEADLOCK FALSE
