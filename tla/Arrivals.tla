------------------------------- MODULE Arrivals -------------------------------
(***************************************************************************)
(* The delta channel of a BookOrbit instance: what a full import leaves for  *)
(* it (the arrivals watermark), the keyset walk of what arrived since, and   *)
(* when the watermark moves. All instants are BookOrbit's own.               *)
(*                                                                          *)
(* A delta asks each library for the books above the watermark less a        *)
(* lookbehind, oldest first, PageSize at a time; after a full page the       *)
(* cursor moves to the largest instant on the page below the page's largest. *)
(*                                                                          *)
(* Nothing bounds how long after its stamp a book is seen, nor how long a    *)
(* run lasts: the histories lag and longest say how long they were.          *)
(***************************************************************************)
EXTENDS Integers, FiniteSets

CONSTANTS
  Books,
  Libs,
  LibOf,       \* the library of each book
  Id,          \* books.id, the last tier of the ordering
  Unreadable,  \* books whose stamp the client cannot parse
  Optional,    \* libraries the credential may be given, and lose
  NoLib,
  PageSize,    \* BookPageSize
  Lookbehind,  \* arrivalsLookbehind
  MaxClock     \* bound on BookOrbit's clock

ASSUME ArrivalsAssumption ==
  /\ LibOf \in [Books -> Libs] /\ Id \in [Books -> Nat] /\ Unreadable \subseteq Books
  /\ Optional \subseteq Libs /\ NoLib \notin Libs
  /\ PageSize \in Nat \ {0} /\ MaxClock \in Nat /\ Lookbehind \in Nat

VARIABLES
  clock,      \* upstream
  stamp,      \* upstream: addedAt, 0 before a book exists
  visible,    \* upstream: books committed and no longer being processed
  granted,    \* upstream: libraries the credential sees
  bound,      \* library_source: libraries bound to the instance
  fullDone,   \* last_full_sync_at is set
  watermark,  \* arrivals_watermark, 0 for NULL
  mirrored,   \* books in the catalogue
  at,         \* the run under way
  listed,     \* the libraries it was given
  todo,       \* those it has yet to walk
  lib,        \* the one a delta is in
  cursor,     \* its next filter value
  read,       \* the books it was handed
  began,      \* history: the clock when it was given its libraries, 0 between runs
  walked,     \* history: libraries a full import has read since they were granted
  lag,        \* history: how long after its stamp a book yet to be mirrored was seen
  longest     \* history: how long the longest run took that moved the watermark

upstream == <<clock, stamp, visible, granted>>
durable == <<bound, fullDone, watermark, mirrored>>
underWay == <<at, listed, todo, lib, cursor, read, began>>
histories == <<walked, lag, longest>>
vars == <<upstream, durable, underWay, histories>>

\* No filter: every stamp is above it.
NoCursor == -Lookbehind

Stamps(books) == {stamp[b] : b \in books \ Unreadable}
IsTop(t, values) == t \in values /\ \A v \in values : v <= t

\* The largest value below the largest, when there is one.
IsBelowTop(c, values) ==
  /\ c \in values /\ ~IsTop(c, values)
  /\ \A v \in values : v <= c \/ IsTop(v, values)

\* The cursor moved to the largest value itself.
MovesToTop(c, page) == IsTop(c, Stamps(page)) /\ c > cursor

\* A cursor the lookbehind is taken off again on every page.
LookedBack(c) == c - Lookbehind

\* The filter of the next page: the value itself.
Resumes(c) == c

\* Where a full page moves the cursor; nowhere when its stamps are one instant.
Moves(c, page) == IsBelowTop(c, Stamps(page)) /\ c > cursor

\* arrivalsFold.watermark: no maximum over stamps that could not all be read.
Observed(w) == read \cap Unreadable = {} /\ IsTop(w, Stamps(read))

\* Books are committed to the catalogue; how late they were no longer matters.
Mirrors(books) ==
  /\ mirrored' = mirrored \cup books
  /\ lag' = [b \in Books |-> IF b \in books THEN 0 ELSE lag[b]]

\* The watermark moves to the maximum observed, or stays as it is.
Advance ==
  IF \E w \in Stamps(read) : Observed(w)
  THEN /\ \E w \in Stamps(read) : Observed(w) /\ watermark' = w
       /\ longest' = IF clock - began > longest THEN clock - began ELSE longest
  ELSE UNCHANGED <<watermark, longest>>
------------------------------------------------------------------------------
\* A book is stamped when its transaction begins, and seen once it has committed and
\* is no longer being processed. Ids are given in order.
Arrive(b) ==
  /\ stamp[b] = 0 /\ \A c \in Books : Id[c] < Id[b] => stamp[c] # 0
  /\ stamp' = [stamp EXCEPT ![b] = clock]
  /\ UNCHANGED <<clock, visible, granted, durable, underWay, histories>>

Show(b) ==
  /\ stamp[b] # 0 /\ b \notin visible /\ visible' = visible \cup {b}
  /\ lag' = [lag EXCEPT ![b] = clock - stamp[b]]
  /\ UNCHANGED <<clock, stamp, granted, durable, underWay, walked, longest>>

\* Time passes, whatever is going on.
ClockTicks ==
  /\ clock < MaxClock /\ clock' = clock + 1
  /\ UNCHANGED <<stamp, visible, granted, durable, underWay, histories>>

Grant(l) ==
  /\ l \notin granted /\ granted' = granted \cup {l}
  /\ UNCHANGED <<clock, stamp, visible, durable, underWay, histories>>

Revoke(l) ==
  /\ l \in granted /\ granted' = granted \ {l}
  /\ walked' = walked \ {l}
  /\ UNCHANGED <<clock, stamp, visible, durable, underWay, lag, longest>>
------------------------------------------------------------------------------
Begins(kind) ==
  /\ at' = kind /\ began' = clock
  /\ listed' = granted /\ todo' = granted /\ read' = {} /\ lib' = NoLib /\ cursor' = NoCursor

\* The run's state goes with it.
Ends(kind) ==
  /\ at' = kind /\ began' = 0
  /\ listed' = {} /\ todo' = {} /\ read' = {} /\ lib' = NoLib /\ cursor' = NoCursor

\* FullImport up to the walk: the libraries are bound, in a transaction of their own.
StartFull ==
  /\ at \in {"idle", "escalated"}
  /\ bound' = bound \cup granted
  /\ Begins("full")
  /\ UNCHANGED <<upstream, fullDone, watermark, mirrored, histories>>

ReadLibrary(l) ==
  /\ at = "full" /\ l \in todo \cap granted
  /\ read' = read \cup {b \in visible : LibOf[b] = l}
  /\ todo' = todo \ {l}
  /\ UNCHANGED <<upstream, durable, at, listed, lib, cursor, began, histories>>

\* The freshness stamp, and the watermark in a write of its own.
CompleteFull ==
  /\ at = "full" /\ todo = {}
  /\ Mirrors(read)
  /\ fullDone' = TRUE
  /\ walked' = listed \cap granted
  /\ at' = "mint"
  /\ UNCHANGED <<upstream, bound, watermark, listed, todo, lib, cursor, read, began, longest>>

Mint ==
  /\ at = "mint" /\ Ends("idle")
  /\ Advance
  /\ UNCHANGED <<upstream, bound, fullDone, mirrored, walked, lag>>
------------------------------------------------------------------------------
\* No full import yet, a library bound for the first time, or no watermark over a
\* catalogue that was not measured empty.
NeedsFullRead(measured) ==
  \/ ~fullDone
  \/ ~ granted \subseteq bound
  \/ watermark = 0 /\ ~(measured /\ granted # {} /\ \A b \in visible : LibOf[b] \notin granted)

\* DeltaSync up to the walk. A delta that has never been preceded by a full import
\* escalates before it binds anything.
StartDelta(measured) ==
  /\ at = "idle"
  /\ bound' = IF fullDone THEN bound \cup granted ELSE bound
  /\ IF NeedsFullRead(measured) THEN Ends("escalated") ELSE Begins("delta")
  /\ UNCHANGED <<upstream, fullDone, watermark, mirrored, histories>>

\* The seed: the lookbehind is taken off once, at the start of each library.
NextLibrary(l) ==
  /\ at = "delta" /\ lib = NoLib /\ l \in todo
  /\ lib' = l
  /\ cursor' = IF watermark = 0 THEN NoCursor ELSE watermark - Lookbehind
  /\ UNCHANGED <<upstream, durable, at, listed, todo, read, began, histories>>

Before(b, c) == stamp[b] < stamp[c] \/ (stamp[b] = stamp[c] /\ Id[b] < Id[c])

Rows == {b \in visible : LibOf[b] = lib /\ stamp[b] > cursor}

IsPage(page) ==
  IF Cardinality(Rows) < PageSize THEN page = Rows
  ELSE Cardinality(page) = PageSize /\ \A b \in page, c \in Rows \ page : Before(b, c)

\* The batches committed before a failure stay.
WalkFails(handed) ==
  /\ Ends("idle")
  /\ \E kept \in SUBSET handed : Mirrors(kept)
  /\ UNCHANGED <<upstream, bound, fullDone, watermark, walked, longest>>

\* A page: the last one of the library, one that moves the cursor, or one that
\* wedges the walk.
ReadPage(page) ==
  /\ at = "delta" /\ lib \in granted /\ IsPage(page)
  /\ IF Cardinality(page) < PageSize
     THEN /\ read' = read \cup page
          /\ lib' = NoLib /\ todo' = todo \ {lib} /\ cursor' = NoCursor
          /\ UNCHANGED <<upstream, durable, at, listed, began, histories>>
     ELSE IF \E c \in Stamps(page) : Moves(c, page)
     THEN /\ read' = read \cup page
          /\ \E c \in Stamps(page) : Moves(c, page) /\ cursor' = Resumes(c)
          /\ UNCHANGED <<upstream, durable, at, listed, todo, lib, began, histories>>
     ELSE WalkFails(read \cup page)

\* declineReasonFor, and the stamp.
CompleteDelta ==
  /\ at = "delta" /\ todo = {} /\ Ends("idle")
  /\ Mirrors(read)
  /\ Advance
  /\ UNCHANGED <<upstream, bound, fullDone, walked>>

\* A library the credential lost answers 403.
Forbidden ==
  /\ \/ at = "full" /\ ~ todo \subseteq granted
     \/ at = "delta" /\ lib # NoLib /\ lib \notin granted
  /\ WalkFails(read)

\* BookOrbit or the process stops answering.
Break == at # "idle" /\ WalkFails(read)
------------------------------------------------------------------------------
Init ==
  /\ clock = 1 /\ stamp = [b \in Books |-> 0] /\ visible = {} /\ granted = Libs \ Optional
  /\ bound = {} /\ fullDone = FALSE /\ watermark = 0 /\ mirrored = {}
  /\ at = "idle" /\ listed = {} /\ todo = {} /\ lib = NoLib /\ cursor = NoCursor /\ read = {}
  /\ began = 0 /\ walked = {} /\ lag = [b \in Books |-> 0] /\ longest = 0

RunStep ==
  \/ at = "escalated" /\ StartFull
  \/ \E l \in Libs : ReadLibrary(l) \/ NextLibrary(l)
  \/ CompleteFull \/ Mint \/ CompleteDelta \/ Forbidden
  \/ \E page \in SUBSET Rows : ReadPage(page)

Next ==
  \/ \E b \in Books : Arrive(b) \/ Show(b)
  \/ ClockTicks
  \/ \E l \in Optional : Grant(l) \/ Revoke(l)
  \/ at = "idle" /\ StartFull
  \/ \E measured \in BOOLEAN : StartDelta(measured)
  \/ RunStep
  \/ Break

\* A run goes on until it ends.
ArrivalsSpec == Init /\ [][Next]_vars /\ WF_vars(RunStep)
------------------------------------------------------------------------------

\* The next delta asks for the book, or has no watermark to ask by.
Reach(b) == watermark = 0 \/ stamp[b] > watermark - Lookbehind

\* A book that was seen soon enough: had every run that moved the watermark, and the
\* book's own lag, together fitted into the lookbehind.
Absorbed(b) == lag[b] + longest < Lookbehind

\* What the lookbehind buys. A book that a full import could have read and that the
\* catalogue lacks is within reach of the next delta, as long as its lag and the longest
\* run so far stay below the lookbehind together: whatever a run saw and in which order of
\* libraries, wherever a tie was cut by a page, and though the book became visible behind
\* a stamp that the run had seen (delta.go:626, arrivals.go:392, bookorbitarrivals.go:12).
InReach ==
  \A b \in visible \ mirrored : LibOf[b] \in walked /\ Absorbed(b) => Reach(b)

\* "The exposure is a transaction's own duration" (bookorbitarrivals.go:39): a book whose
\* lag the lookbehind covers stays within reach. Lag and run together outlast it: a run
\* mints the largest stamp of its last library over a book that came to the first one
\* behind its back, and a full import may last longer than the lookbehind by itself.
LagCovered ==
  \A b \in visible \ mirrored : LibOf[b] \in walked /\ lag[b] < Lookbehind => Reach(b)

\* A delta comes to an end: the cursor moves on after every full page, or the walk
\* stops and says why (arrivals.go:332).
WalkEnds == at = "delta" ~> at # "delta"
==============================================================================
