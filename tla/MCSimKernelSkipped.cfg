SPECIFICATION Spec
CONSTANTS
  GRID_X = 2
  GRID_Y = 1
  COLUMNS = 2
  num_kernels = 2
  GLOBAL_BARRIER = 0
  EXPLORE_FRONTIER_ID = 1
  RootTiles = {1}
  Fanout <- OneTile
  MaxPushes = 0
  IQCap = 2
  MaxDelay = 2
  MaxSkew = 2
  MaxLag = 2
INVARIANTS KernelStarted
