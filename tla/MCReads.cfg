SPECIFICATION MCSpec
CONSTANTS
  Works = {1, 2, 3, 4}
  BrowseLimit = 2
  RetrievalLimit = 3
  Window = 2
  Unfiled = 0
  Stamps = {0, 1}
  SearchLimits = {2, 4}
  MaxWrites = 2
  NoNote = NoNote
  KindOf <- MCKindOf
  Legs <- MCLegs
  Resemblance <- MCResemblance
  Libraries <- MCLibraries
  Sources <- MCSources
  Queries <- MCQueries
  NoteShapes <- MCNotes
  InitialRows <- MCInitialRows
  h1 = h1
  h2 = h2
  c1 = c1
  Grabs = {h1, h2}
  CandidateRows = {c1}
  ReleaseOf <- MCReleaseOf
  MaxGrabs = 2
  MaxForgets = 2
INVARIANTS
  WalkExact
  FacetsExact
  ListingExact
  SearchExact
  GrabTruthful
