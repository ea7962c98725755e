CONSTANTS
  b1 = b1
  b2 = b2
  b3 = b3
  b4 = b4
  lA = lA
  lB = lB
  none = none
  Books = {b1, b2, b3, b4}
  Libs = {lA, lB}
  LibOf <- MCLibOf
  Id <- MCId
  Unreadable = {b3}
  Optional = {lB}
  NoLib = none
  PageSize = 2
  Lookbehind = 2
  MaxClock = 3
SPECIFICATION ArrivalsSpec
INVARIANTS
  InReach
PROPERTIES
  WalkEnds
CHECK_DEADLOCK FALSE
