SPECIFICATION Spec
CONSTANTS
  Threads = {t1, t2}
  Svgs = {svg}
  Sizes = {small, large}
  NaNSizes = {}
  SceneBytes = {1, 3}
  RasterBytes = {2}
  OtherBytes = {2}
  Limit = 5
  MaxRasterSizes = 1
  MaxCalls = 2
  None = None
PROPERTIES AskedOnce
CHECK_DEADLOCK FALSE
