SPECIFICATION Spec
CONSTANTS
  N = 5
  BlockDim = 3
  BlockIdx = 1
  LocalFlags = {0, 1, 2, 3, 4}
INVARIANTS
  ForcesComplete
