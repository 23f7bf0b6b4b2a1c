CONSTANTS
  GRID_X = 2
  LINES = {0, 1}
  LAST_ROUND = 3
  SEND_DATA = FALSE
  oq_size = 16
  P = 17
  root <- Roots17
  Lines <- SomeLines
SPECIFICATION FairSpecAny
INVARIANTS RoundsAgree UnreadStands LinesAreDFT
PROPERTIES RightTransposes AllTransform
