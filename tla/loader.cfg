SPECIFICATION FairSpec
CONSTANTS
  Threads = {t1, t2, t3}
  t1 = t1
  t2 = t2
  t3 = t3
  Asked <- SharedAliased
  img = img
  imgFrag = imgFrag
  dataUrl = dataUrl
  imgKey = imgKey
  dataKey = dataKey
  Urls = {img, imgFrag, dataUrl}
  Keys = {imgKey, dataKey}
  PendingKey <- MCPendingKey
  Shareable <- MCShareable
  UrlBytes <- MCUrlBytes
  KeyBytes <- MCKeyBytes
  Encoded = {2}
  Decoded = {1, 4}
  Limit = 5
  MaxEntries = 2
  MaxInFlight = 2
  MaxCalls = 3
  None = None
  Failed = Failed
  Pending = Pending
INVARIANTS SingleFlight WithinLimits BudgetExact NoLostWakeup
PROPERTIES FailsClosed FillsOnce EveryCallReturns
CHECK_DEADLOCK FALSE
