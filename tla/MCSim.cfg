CONSTANTS
  GRID_X = 1
  GRID_Y = 2
  COLUMNS = 1
  num_kernels = 2
  GLOBAL_BARRIER = 1
  EXPLORE_FRONTIER_ID = 2
  RootTiles = {0}
  Fanout <- OneTile
  MaxPushes = 1
  IQCap = 2
  MaxDelay = 2
  MaxSkew = 1
  MaxLag = 3
SPECIFICATION FairSpec
INVARIANTS WorkCompleted EpochEndsInOrder LagBounded
PROPERTIES Termination
