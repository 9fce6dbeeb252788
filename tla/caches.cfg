SPECIFICATION FairSpec
CONSTANTS
  Threads = {t1, t2, t3}
  Svgs = {svg}
  Sizes = {small, large, nan}
  NaNSizes = {nan}
  SceneBytes = {3}
  RasterBytes = {2}
  OtherBytes = {2}
  Limit = 5
  MaxRasterSizes = 1
  MaxCalls = 3
  None = None
INVARIANTS OneBuilderPerSize ChargedExactly
PROPERTIES EveryCallReturns
CHECK_DEADLOCK FALSE
