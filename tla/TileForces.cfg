SPECIFICATION Spec
CONSTANTS
  N = 7
  BlockDim = 4
  BlockIdx = 1
  LocalFlags = {0, 1, 2, 3, 4, 5, 6}
INVARIANTS
  TypeOK
  ForcesOfLoaded
  TileInPlace
