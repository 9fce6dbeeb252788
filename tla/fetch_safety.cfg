SPECIFICATION ImportSpec
CONSTANTS
  Threads = {t1, t2}
  Urls <- MCUrls
  Asked <- MCAsked
  Policies <- MCPolicies
  MaxAutoHops = 2
  Sizes = {1, 2, 3}
  ByteLimit = 2
  Limit = 3
  MaxCalls = 3
  Parser = t1
  Contents <- MCContents
  ImportDepth <- MCImportDepth
  MaxFetches = 2
  ResponseLimit = 2
  ExpansionLimit = 7
  None = None
  Failed = Failed
INVARIANTS PolicyObeyed StaysWithOrigin BudgetCharged FontFetchedOnce ImportsCharged NoSheetInsideItself
CHECK_DEADLOCK FALSE
