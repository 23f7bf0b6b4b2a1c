CONSTANTS
  GRID_X = 2
  BOARD_W = 2
  TORUS = 1
  PROXY_W = 1
  PROXY_ROUTING = 4
  STEAL_W = 1
  RUCHE_X = 0
  DIE_W = 2
  Traffic <- Corner
  rq_size = 5
  iq_size = 4
  oq_size = 5
  wide_noc = {1, 2}
SPECIFICATION GoSpec
INVARIANTS FlitsConserved RoutesOpen RightTask
PROPERTIES Arrives
