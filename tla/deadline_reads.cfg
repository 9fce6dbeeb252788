\* Connects and reads against trickling and silent servers.
CONSTANTS
  FetchTicks = 4
  ConnectTicks = 2
  Addresses = 2
  MaxClock = 10
SPECIFICATION TransportSpec
INVARIANTS ReadsKeepDeadline
PROPERTIES TimesOutWhenDue
