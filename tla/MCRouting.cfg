SPECIFICATION FairSpecAny
CONSTANTS
  GRID_X = 8
  BOARD_W = 8
  TORUS = 1
  PROXY_W = 4
  PROXY_ROUTING = 4
  STEAL_W = 2
  RUCHE_X = 0
  DIE_W = 8
INVARIANTS RightTiles OneProducers
PROPERTIES DimensionOrders AlwaysNearer Arrives
