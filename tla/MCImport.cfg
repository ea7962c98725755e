CONSTANTS
  kavita = kavita
  audiobookshelf = audiobookshelf
  bookorbit = bookorbit
  b1 = b1
  b2 = b2
  b3 = b3
  s1 = s1
  noRef = noRef
  cA = cA
  cB = cB
  x = x
  y = y
  weak = weak
  Instances = {kavita, audiobookshelf, bookorbit}
  Refs = {b1, b2, b3, s1}
  NoRef = noRef
  Containers = {cA, cB}
  Idents = {x, y, weak}
  StrongIdents = {x, y}
  Kinds = {"book", "comic_issue", "comic"}
  ParentKind = "comic"
  Items <- MCItems
  MaxWorks = 4
  Inst = bookorbit
  Books = {b1, b2, b3}
  Id <- MCId
  Dates = {1, 2}
  Card <- MCCard
  Listing <- MCListing
  Nowhere = nowhere
  PageSize = 2
  BatchRows = 2
  MaxDisturbances = 2
SPECIFICATION MCSpec
INVARIANTS
  TypeOK
  WorkVisibility
  IdentityAccounted
  NoRowSkipped
PROPERTIES
  RebindOnRecord
  SweepSound
  EventuallyMirrored
