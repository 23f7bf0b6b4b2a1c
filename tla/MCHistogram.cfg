CONSTANTS
  APP = "HISTO"
  GRID_SIZE = 4
  nodePerTile = 2
  edgePerTile = 1
  node_array <- MCNodes
  edge_array <- MCEdges
  edge_values <- MCValues
  LOOP_CHUNK = 2
  oq_sizes <- MCOut
  iq_sizes <- MCIn
  B_numcols = 1
  dense_value = 5
SPECIFICATION SumsSpec
INVARIANTS RightSums
CHECK_DEADLOCK FALSE
