----------------------------- MODULE FullImport ------------------------------
(***************************************************************************)
(* One full import after another of a BookOrbit instance into the           *)
(* catalogue, while BookOrbit goes on changing: the offset-paged walk of    *)
(* internal/bookorbit, the adapter and the importer of internal/libsync,    *)
(* and the deletion sweep at the end of a read that finished.               *)
(*                                                                          *)
(* A library's rows are the books the credential sees in it, oldest first   *)
(* (the walk sorts by addedAt), and page n holds the rows at positions      *)
(* n*PageSize + 1 .. (n+1)*PageSize of the moment the page is asked for.    *)
(***************************************************************************)
EXTENDS Catalogue, FiniteSets

CONSTANTS
  Inst,           \* the instance imported
  Books,          \* the refs of BookOrbit books
  Id,             \* books.id, the last tier of every BookOrbit ordering
  Dates,          \* the values of addedAt
  Card,           \* per book: kind, ids and parent as the adapter maps its card
  Listing,        \* BookOrbit's libraries, in the order the walk takes them
  Nowhere,        \* the place of a book BookOrbit does not hold
  PageSize,       \* BookPageSize
  BatchRows,      \* DefaultBatchRows
  MaxDisturbances \* bound on the upstream's changes and the imports' failures

ASSUME FullImportAssumption ==
  /\ Inst \in Instances
  /\ Books \subseteq Refs /\ IsFiniteSet(Books)
  /\ Id \in [Books -> Nat]
  /\ \A b, c \in Books : Id[b] = Id[c] => b = c
  /\ Dates \subseteq Nat /\ Dates # {}
  /\ Listing \in Seq(Containers)
  /\ Containers = Range(Listing)
  /\ \A m, n \in DOMAIN Listing : Listing[m] = Listing[n] => m = n
  /\ Nowhere \notin Containers
  /\ PageSize \in Nat \ {0} /\ BatchRows \in Nat \ {0} /\ MaxDisturbances \in Nat

VARIABLES
  place,        \* upstream: the library holding each book, or Nowhere
  added,        \* upstream: the addedAt of each book
  hidden,       \* upstream: books a content filter keeps from the credential
  dark,         \* upstream: libraries listed as empty, a share being unmounted
  unknown,      \* upstream: books whose media kind BookOrbit calls unknown
  running,      \* importer: an import is in progress
  at,           \* walk: index in Listing of the library being read
  page,         \* walk: the page to ask for next
  batch,        \* importer: the items read and not committed, as delivered
  seen,         \* importer: the refs observed by the read
  vouched,      \* importer: the containers items were observed in
  short,        \* adapter: the libraries measured short at the start
  left,         \* history: books out of sight of the credential, where they
                \*   stood, at some moment since the import began
  shrunk,       \* history: libraries whose rows closed up since the import began
  lit,          \* history: libraries that showed a row since the import began
  disturbances

upstream == <<place, added, hidden, dark, unknown>>
walk == <<running, at, page, batch, seen, vouched, short>>
history == <<left, shrunk, lit>>
importVars == <<db, upstream, walk, history, disturbances>>
------------------------------------------------------------------------------
(* BookOrbit, as its answers show it.                                       *)

Rows(c) == {b \in Books : place[b] = c /\ b \notin hidden /\ c \notin dark}

Visible(b) == \E c \in Containers : b \in Rows(c)

Earlier(r, b) == added[r] < added[b] \/ (added[r] = added[b] /\ Id[r] < Id[b])

\* Where a book stands among the rows of its library.
Position(c, b) == Cardinality({r \in Rows(c) : r = b \/ Earlier(r, b)})

PageRows(c, n) ==
  {b \in Rows(c) : n * PageSize < Position(c, b) /\ Position(c, b) =< (n + 1) * PageSize}

\* FAULT: pages counted from one.
ShortPage_CountedFromOne(c, n) == Cardinality(Rows(c)) < (n + 2) * PageSize

\* A page shorter than asked for, the only condition that ends the walk.
ShortPage(c, n) == Cardinality(Rows(c)) < (n + 1) * PageSize

\* LibraryStats counts the books the credential does not see.
HoldsBack(c) == c \notin dark /\ \E b \in hidden : place[b] = c

\* A change of BookOrbit's; a running import's history notes the books that are no
\* longer where they stood and the libraries whose rows closed up.
Changes(moved, closed) ==
  /\ disturbances < MaxDisturbances
  /\ disturbances' = disturbances + 1
  /\ IF running
     THEN /\ left' = left \cup moved
          /\ shrunk' = shrunk \cup closed
          /\ lit' = lit \cup {c \in Containers : Rows(c)' # {}}
     ELSE UNCHANGED history
  /\ UNCHANGED <<db, walk>>

RowsChange ==
  Changes({b \in Books : \E c \in Containers : b \in Rows(c) /\ b \notin Rows(c)'},
          {c \in Containers : ~ (Rows(c) \subseteq Rows(c)')})

\* A book is added, deleted, or moved between libraries.
Shelve(b, c) ==
  /\ place[b] # c
  /\ place' = [place EXCEPT ![b] = c]
  /\ UNCHANGED <<added, hidden, dark, unknown>>
  /\ RowsChange

\* PATCH /books/:id/added-at: a person or a bulk importer redates a book.
Redate(b, date) ==
  /\ added[b] # date
  /\ added' = [added EXCEPT ![b] = date]
  /\ UNCHANGED <<place, hidden, dark, unknown>>
  /\ Changes({b}, IF date > added[b] THEN {place[b]} \ {Nowhere} ELSE {})

\* A content filter of the credential's account starts or stops covering a book.
Filter(b) ==
  /\ hidden' = IF b \in hidden THEN hidden \ {b} ELSE hidden \cup {b}
  /\ UNCHANGED <<place, added, dark, unknown>>
  /\ RowsChange

\* A library's share goes away or comes back.
Mount(c) ==
  /\ dark' = IF c \in dark THEN dark \ {c} ELSE dark \cup {c}
  /\ UNCHANGED <<place, added, hidden, unknown>>
  /\ RowsChange

\* A book's files stop or start having a format BookOrbit knows.
Reclassify(b) ==
  /\ unknown' = IF b \in unknown THEN unknown \ {b} ELSE unknown \cup {b}
  /\ UNCHANGED <<place, added, hidden, dark>>
  /\ RowsChange
------------------------------------------------------------------------------
(* The import.                                                              *)

\* mapBook and mapComic.
ItemOf(b, c) ==
  [ref |-> b, kind |-> Card[b].kind, ids |-> Card[b].ids, container |-> c, parent |-> Card[b].parent]

\* What the adapter makes of any book in any library is an item of the catalogue's.
ASSUME CardAssumption == \A b \in Books, c \in Containers : ItemOf(b, c) \in Items

AtRest ==
  /\ at' = 1 /\ page' = 0
  /\ batch' = <<>> /\ seen' = {} /\ vouched' = {}

Stop ==
  /\ running' = FALSE /\ short' = {}
  /\ left' = {} /\ shrunk' = {} /\ lit' = {}
  /\ AtRest

\* bindPhase: the libraries are listed and each measured; a measurement that fails
\* leaves its library unverified, which is not short.
Start ==
  /\ ~ running
  /\ running' = TRUE
  /\ \E unverified \in SUBSET Containers :
       short' = {c \in Containers : HoldsBack(c)} \ unverified
  /\ left' = {b \in Books : ~ Visible(b)}
  /\ shrunk' = {}
  /\ lit' = {c \in Containers : Rows(c) # {}}
  /\ AtRest
  /\ UNCHANGED <<db, upstream, disturbances>>

\* The rows of a page in the order they are delivered, oldest first.
Deliveries(rows) ==
  {s \in [1 .. Cardinality(rows) -> rows] : \A m, n \in DOMAIN s : m < n => Earlier(s[m], s[n])}

\* FAULT: a page of unknown media is dropped instead of observed.
SeenUnmapped_Dropped(rows) == {}

\* observeUnmapped: a book of unknown media is seen, and nothing else is known of it.
SeenUnmapped(rows) == rows \cap unknown

\* One page of StreamBooks: a known book joins the batch, one of unknown media is
\* only observed; after a short page the walk goes to the next library.
ReadPage ==
  /\ running
  /\ at \in DOMAIN Listing
  /\ Len(batch) < BatchRows
  /\ LET c == Listing[at]
         rows == PageRows(c, page)
     IN  /\ \E s \in Deliveries(rows \ unknown) :
              batch' = batch \o [n \in DOMAIN s |-> ItemOf(s[n], c)]
         /\ seen' = seen \cup SeenUnmapped(rows)
         /\ vouched' = IF SeenUnmapped(rows) = {} THEN vouched ELSE vouched \cup {c}
         /\ IF ShortPage(c, page)
            THEN at' = at + 1 /\ page' = 0
            ELSE page' = page + 1 /\ UNCHANGED at
  /\ UNCHANGED <<db, upstream, running, short, history, disturbances>>

\* The links applyOneItem writes for the item.
ObservedRefs(it) == {it.ref} \cup (IF it.parent = NoRef THEN {} ELSE {it.parent})

CommitHead == ApplyCatalogueBatch(Inst, Head(batch))

\* flush: the batch's first item is committed and then observed.  A batch runs out
\* of its window as readily as out of rows, so one item is as many as may be certain.
Flush ==
  /\ running
  /\ batch # <<>>
  /\ CommitHead
  /\ seen' = seen \cup ObservedRefs(Head(batch))
  /\ vouched' = vouched \cup {Head(batch).container}
  /\ batch' = Tail(batch)
  /\ UNCHANGED <<upstream, running, at, page, short, history, disturbances>>

\* Any error before the sweep, or the end of the process: what was committed stays,
\* the rest of the batch and everything observed is gone.
Fail ==
  /\ running
  /\ disturbances < MaxDisturbances
  /\ disturbances' = disturbances + 1
  /\ Stop
  /\ UNCHANGED <<db, upstream>>

\* FAULT: the short libraries are kept instead of dropped.
Observed_ShortKept == vouched \cap short

\* sweepScope: what the sweep may treat as read in full.
Observed == vouched \ short

\* The sweep of a read that reached the end of every library, or its refusal.
Finish ==
  /\ running
  /\ at = Len(Listing) + 1
  /\ batch = <<>>
  /\ \/ SweepDeletions(Inst, seen, Observed)
     \/ Refused(db, Inst, seen) /\ UNCHANGED db
  /\ Stop
  /\ UNCHANGED <<upstream, disturbances>>
------------------------------------------------------------------------------
ImportInit ==
  /\ Init
  /\ place \in [Books -> Containers \cup {Nowhere}]
  /\ added = [b \in Books |-> Min(Dates)]
  /\ hidden = {} /\ dark = {} /\ unknown = {}
  /\ running = FALSE /\ at = 1 /\ page = 0
  /\ batch = <<>> /\ seen = {} /\ vouched = {} /\ short = {}
  /\ left = {} /\ shrunk = {} /\ lit = {}
  /\ disturbances = 0

Import == Start \/ ReadPage \/ Flush \/ Finish

ImportNext ==
  \/ \E b \in Books, c \in Containers \cup {Nowhere} : Shelve(b, c)
  \/ \E b \in Books, date \in Dates : Redate(b, date)
  \/ \E b \in Books : Filter(b) \/ Reclassify(b)
  \/ \E c \in Containers : Mount(c)
  \/ Start
  \/ ReadPage
  \/ Flush
  \/ Fail
  \/ Finish

\* Imports recur (the reconciler's tick and the button) and an import that is not
\* interrupted goes on to its end.
ImportSpec == ImportInit /\ [][ImportNext]_importVars /\ WF_importVars(Import)
------------------------------------------------------------------------------
ImportTypeOK ==
  /\ place \in [Books -> Containers \cup {Nowhere}]
  /\ hidden \subseteq Books /\ unknown \subseteq Books /\ left \subseteq Books
  /\ dark \subseteq Containers /\ vouched \subseteq Containers
  /\ short \subseteq Containers /\ shrunk \subseteq Containers /\ lit \subseteq Containers
  /\ running \in BOOLEAN
  /\ at \in 1 .. Len(Listing) + 1 /\ page \in Nat
  /\ added \in [Books -> Dates]
  /\ batch \in Seq(Items) /\ seen \subseteq Refs
  /\ disturbances \in 0 .. MaxDisturbances

Undisturbed(b) == b \notin left /\ place[b] \notin shrunk

Taken(b) == b \in seen \/ \E n \in DOMAIN batch : batch[n].ref = b

\* StreamBooks' "a short page is the only stop condition that is correct while the
\* table is moving underneath": however rows arrive, a book that stood still in a
\* library no row left is read before the walk goes past it.
NoRowSkipped ==
  running =>
    \A n \in DOMAIN Listing : \A b \in Books :
      place[b] = Listing[n] /\ Undisturbed(b) =>
        \/ Taken(b)
        \/ n > at
        \/ n = at /\ Position(Listing[n], b) > page * PageSize

SweptBy(b) ==
  LET k == <<Inst, b>>
  IN  k \in DOMAIN db.links /\ db.links[k].live /\ ~ db'.links[k].live

\* A book loses its link only to a sweep whose read it was really absent from: it
\* left, or a row left the library it is in; never when its library showed the
\* credential nothing from the start of the read to its end, so that an unmounted share
\* or a revoked grant does not become a deleted library; and never when the library was
\* measured to hold more than it shows: "sweeping on a read known to be short deletes
\* the difference" (importer.go:601).
SweepSound ==
  [][\A b \in Books : SweptBy(b) =>
       ~ Undisturbed(b) /\ db.links[<<Inst, b>>].container \in lit \ short]_importVars

\* A library the next import can say nothing about.
Unreadable(c) == Rows(c) = {} \/ HoldsBack(c)

Mirrored ==
  \A b \in Books :
    LET k == <<Inst, b>>
        linked == k \in DOMAIN db.links /\ db.links[k].live
    IN  /\ Visible(b) /\ b \notin unknown => linked /\ db.links[k].container = place[b]
        /\ linked => Visible(b) \/ Unreadable(db.links[k].container)

\* Once BookOrbit is still and imports stop failing, the replica mirrors it: what is
\* there is live where it is, what is gone is tombstoned unless its library tells
\* nothing, and a book tombstoned by mistake is back.
EventuallyMirrored == <>[]Mirrored
==============================================================================
