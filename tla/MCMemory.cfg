CONSTANTS
  U32 = 67108864
  CACHE_WAYS = 1
  CACHE_FREQ_BITS = 0
  dcache_words_in_line_log2 = 4
  Builds <- AllBuilds
  Graphs <- SomeGraphs
  GRID_X = 16
  B_numcols = 64
  LOOP_CHUNK = 64
  code_size_in_words = 150
  GRID_SIZE = 4
  Files <- SomeFiles
  Junk = 77
  w1 = w1
  w2 = w2
  Threads = {w1}
  Tiles = {0, 1}
  ThreadOf <- MCThreadOf
  ChannelOf <- MCChannelOf
  BY_ADDRESS = TRUE
  LINE_WORDS = 2
  SETS = 2
  NODES = 6
  RET_LEN = 6
  RET_PER_TILE = 3
  FRONTIER_BASE = 15
  bitmap_len = 1
  fr_head_offset = 2
  FOOTPRINT = 27
  ARRAYS <- MCArrays
  MAX_TASKS = 4
SPECIFICATION SpecAny
INVARIANTS SizesSuffice MemoryFits GraphKept OneHolder ResultsKept Accounted
CHECK_DEADLOCK FALSE
