CONSTANTS
  w1 = w1
  w2 = w2
  Threads = {w1}
  Tiles = {0, 1}
  ThreadOf <- OneThread
  ChannelOf <- OwnChannels
  BY_ADDRESS = TRUE
  LINE_WORDS = 2
  SETS = 1
  NODES = 2
  RET_LEN = 4
  RET_PER_TILE = 2
  ARRAYS <- ColumnArrays
  FRONTIER_BASE = 1000000
  bitmap_len = 0
  fr_head_offset = 0
  FOOTPRINT = 7
  MAX_TASKS = 3
SPECIFICATION Spec
PROPERTIES WrittenBack
CHECK_DEADLOCK FALSE
