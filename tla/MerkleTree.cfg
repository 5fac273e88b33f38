SPECIFICATION Spec
CONSTANTS
  Blocks <- MCBlocks
  Modes = {"ModeProofGen", "ModeTreeBuild", "ModeProofGenAndTreeBuild"}
  Routines = {0, 1, 2, 3}
INVARIANTS ProofsClimb RootCommits ProofsExact NoRace
