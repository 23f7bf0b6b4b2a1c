CONSTANTS
  APP = "HISTO"
  PROXYS = 3
  Elements = {0, 1, 2}
  Values = {1}
  MaxSends = 3
  proxys_cached = TRUE
  pcache_size = 2
  WRITE_THROUGH = 0
  PROXY_ROUTING = 4
  GLOBAL_BARRIER = 0
  proxy_default = 0
  iq_size = 4
  oq_size = 3
CHECK_DEADLOCK FALSE
SPECIFICATION FairSpecAny
INVARIANTS QueuesFit LinesAgree NoneLost
PROPERTIES AllDrain
