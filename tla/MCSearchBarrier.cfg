CONSTANTS
  APP = "SSSP"
  GLOBAL_BARRIER = 1
  GRID_SIZE = 2
  nodePerTile = 2
  edgePerTile = 2
  node_array <- LineNodes
  edge_array <- LineEdges
  edge_values <- LineValues
  INF = 9
  BLOCK = 2
  LOOP_CHUNK = 64
  oq_sizes <- Out
  iq_sizes <- In
  EXPLORE = 1
SPECIFICATION BarrierSpec
PROPERTIES NextEpochOnly
