CONSTANTS
  APP = "SSSP"
  GLOBAL_BARRIER = 0
  GRID_SIZE = 2
  nodePerTile = 2
  edgePerTile = 3
  node_array <- PathNodes
  edge_array <- PathEdges
  edge_values <- PathValues
  INF = 20
  BLOCK = 1
  LOOP_CHUNK = 64
  oq_sizes <- Out
  iq_sizes <- In
  EXPLORE = 1
SPECIFICATION FairSpecAny
INVARIANTS QueuesFit PiecesLocal ListAgrees NoneLost RightResults
PROPERTIES AllTerminate
