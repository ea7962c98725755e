CONSTANTS
  tab1 = tab1
  tab2 = tab2
  alice = alice
  bob = bob
  system = system
  Clients = {tab1, tab2}
  UserOf <- MCUserOf
  Owners = {alice, system}
  Shared = system
  QueueLen = 1
  RingLen = 2
  MaxEvents = 5
  MaxBreaks = 1
  MaxRestarts = 1
  g1 = g1
  s1 = s1
  Searches = {s1}
  Indexers = {1, 2}
  PriorityOf <- MCPriorityOf
  Guids = {g1}
  Concurrency = 1
  OutLen = 1
  MaxSearches = 2
  FailureThreshold = 1
  BaseCooldown = 1
  MaxCooldown = 1
  JitterPercent = 0
  Saturation = 1
  here = here
  r1 = r1
  Rows = {1, 2}
  Hosts = {here}
  Requests = {r1}
  PageSize = 1
  ExtraPasses = 1
  MaxKeys = 3
  MaxEdits = 2
  MaxCrashes = 1
SPECIFICATION MCSpec
INVARIANTS
  ClosingTruth
  RowsOpenable
PROPERTIES
  ImplementsFeed
  EventuallyCaughtUp
  SearchEnds
  RotationFinishes
CHECK_DEADLOCK FALSE
