\* Two renders, a set they share and one of their own, one decode permit.
SPECIFICATION PFairSpec
CONSTANTS
  Threads = {t1, t2}
  Sets = {s1, s2}
  Urls = {svg, png}
  SvgUrls = {svg}
  DataUrls = {png}
  Sizes = {small, large}
  ImageBytes = {1}
  SceneBytes = {1}
  SourceBytes = 2
  SetLimit = 3
  ProcessLimit = 4
  MaxPermits = 1
  MaxRasterSizes = 2
  MaxAttempts = 2
  Panicking = {t2}
  MaxCalls <- OneAndTwo
  None = None
  t1 = t1
  t2 = t2
  s1 = s1
  s2 = s2
  Asked <- SharedAndOwn
  Pictures = {pic}
  KeyBytes = 1
  PictureBytes = {1}
INVARIANTS OneFlight PermitsCounted SkippedIsExplained AccountsAgree PictureChargedOnce
PROPERTIES EveryCallReturns
CHECK_DEADLOCK FALSE
