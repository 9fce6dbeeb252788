\* A peer that accepts a large write a few bytes at a time.
CONSTANTS
  FetchTicks = 4
  ConnectTicks = 2
  Addresses = 2
  MaxClock = 10
SPECIFICATION TransportSpec
INVARIANTS WritesKeepDeadline
