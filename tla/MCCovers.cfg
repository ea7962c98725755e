CONSTANTS
  kavita = kavita
  bookorbit = bookorbit
  k1 = k1
  k2 = k2
  o1 = o1
  fk = fk
  fo = fo
  open = open
  closed = closed
  name = name
  Instances = {kavita, bookorbit}
  Walk <- MCWalk
  Works = {1, 2, 3}
  NoWork = 0
  NoItem = noItem
  Permits = 1
  Widths <- MCWidths
  MaxFaults = 1
  Kavita = {kavita}
  Comics = {1}
  Files = {fk, fo}
  Keeper <- MCKeeper
  Nowhere = nowhere
  Gone = gone
  Cards <- MCCards
  Metadata = {open, closed}
  TotalOf <- MCTotalOf
  NamesOf <- MCNamesOf
  FirstShelf <- MCFirstShelf
  FirstOwner <- MCFirstOwner
  MaxChanges = 1
  FileBatch = 2
  RollupBatch = 1
SPECIFICATION Spec
PROPERTIES
  ShortfallRecorded
