CONSTANTS
  w1 = w1
  w2 = w2
  Threads = {w1}
  Tiles = {0, 1}
  ThreadOf <- OneThread
  ChannelOf <- OwnChannels
  BY_ADDRESS = TRUE
  LINE_WORDS = 2
  SETS = 2
  NODES = 3
  RET_LEN = 3
  RET_PER_TILE = 2
  ARRAYS <- GraphArrays
  FRONTIER_BASE = 9
  bitmap_len = 1
  fr_head_offset = 2
  FOOTPRINT = 21
  MAX_TASKS = 3
SPECIFICATION Spec
PROPERTIES WrittenBack
CHECK_DEADLOCK FALSE
