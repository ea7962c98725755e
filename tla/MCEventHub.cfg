CONSTANTS
  tab1 = tab1
  tab2 = tab2
  alice = alice
  bob = bob
  system = system
  Clients = {tab1, tab2}
  UserOf <- MCUserOf
  Owners = {alice, system}
  Shared = system
  QueueLen = 1
  RingLen = 2
  MaxEvents = 5
  MaxBreaks = 1
  MaxRestarts = 1
SPECIFICATION HubSpec
PROPERTIES
  NoSilentGap
CHECK_DEADLOCK FALSE
