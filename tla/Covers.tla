-------------------------------- MODULE Covers --------------------------------
(***************************************************************************)
(* The cover pass at the end of an import and the pipeline it drives        *)
(* (internal/libsync/covers.go, internal/imagepipeline, internal/imagecache *)
(* and the writers of internal/store): a pool of workers fed one item at a  *)
(* time, a gate of permits the whole process shares, a cover that is cached *)
(* before its row is written, and a tally of what became of every item.     *)
(***************************************************************************)
EXTENDS Integers, Sequences, FiniteSets, Functions

CONSTANTS
  Instances,
  Walk,         \* per instance: its items, in the order its adapter delivers them
  Works,        \* the ids of works
  NoWork,       \* no work
  NoItem,       \* no item
  Permits,      \* CoverPermits: the capacity of coverGate
  Widths,       \* imagecache.Widths, in order
  MaxFaults     \* bound on the changes and the failures around the passes

ItemsOf(n) == Range(Walk[n])
Items == UNION {ItemsOf(n) : n \in Instances}

ASSUME CoversAssumption ==
  /\ \A n \in Instances : Walk[n] \in Seq(Range(Walk[n])) /\ IsInjective(Walk[n])
  /\ \A m, n \in Instances : m # n => ItemsOf(m) \cap ItemsOf(n) = {}
  /\ Works \subseteq Nat /\ NoWork \notin Works
  /\ NoItem \notin Items
  /\ Permits \in Nat \ {0} /\ MaxFaults \in Nat
  /\ Widths \in Seq(Range(Widths)) /\ Widths # <<>>

VARIABLES
  links,        \* service_item_link: the work each live link leads to
  poster,       \* work.poster_asset_id: the item whose cover it shows
  cached,       \* imagecache: the files on disk
  cover,        \* what has become of each item in its instance's pass
  written,      \* of an item being stored: how many of its widths are written
  stopped,      \* per instance: the pass's stop channel is closed
  cancelled,    \* the instances whose import's context has ended in its pass
  elsewhere,    \* permits held by the passes of instances not in Instances
  shortfall,    \* sync_report: instances whose last pass is on record as incomplete
  faults

posters == <<poster, cached>>
covering == <<cover, written, stopped, elsewhere, shortfall>>
coverPass == <<covering, cancelled>>

\* "none" before the pass, "pending" in its queue, "asking" for a permit, "fetching" and
\* "storing" under one, then an outcome.
Outcomes == {"held", "fetched", "absent", "forbidden", "failed"}
Held == {"fetching", "storing"}
Stages == {"none", "pending", "asking"} \cup Held \cup Outcomes

In(n, stages) == {i \in ItemsOf(n) : cover[i] \in stages}

Postered(i) == links[i] # NoWork /\ poster[links[i]] # NoItem

Fault == faults < MaxFaults /\ faults' = faults + 1
------------------------------------------------------------------------------
InUse == elsewhere + Cardinality({i \in Items : cover[i] \in Held})

GateFree == InUse < Permits

\* The passes of other instances take permits and give them back.
TakeElsewhere ==
  /\ GateFree
  /\ Fault
  /\ elsewhere' = elsewhere + 1
  /\ UNCHANGED <<links, posters, cover, written, stopped, cancelled, shortfall>>

GiveBackElsewhere ==
  /\ elsewhere > 0
  /\ elsewhere' = elsewhere - 1
  /\ UNCHANGED <<links, posters, cover, written, stopped, cancelled, shortfall, faults>>

\* len(pending) at the start: what is not held is asked for.
Asked(n) == In(n, Stages \ {"none", "held"})

\* FAULT: an item whose link is live counts as held.
Queued_Linked(i) == IF links[i] # NoWork THEN "held" ELSE "pending"

\* PosteredItems: an item is held when its work has a poster, whichever item's.
Queued(i) == IF Postered(i) THEN "held" ELSE "pending"

\* recordCoverShortfall: a row when the pass came up short. A write that fails, as it
\* does under a context that has ended, is logged and dropped.
RecordShortfall(n, short) ==
  \/ short /\ n \notin cancelled /\ shortfall' = shortfall \cup {n} /\ UNCHANGED faults
  \/ short /\ shortfall' = shortfall \ {n} /\ IF n \in cancelled THEN UNCHANGED faults ELSE Fault
  \/ ~ short /\ shortfall' = shortfall \ {n} /\ UNCHANGED faults

\* fetchCovers up to its pool of workers.
BeginCovers(n, items) ==
  /\ stopped' = [stopped EXCEPT ![n] = FALSE]
  /\ cover' = [i \in Items |-> IF i \in items THEN Queued(i) ELSE cover[i]]
  /\ UNCHANGED <<links, posters, written, cancelled, elsewhere, shortfall, faults>>

\* When the read of what is held fails, the whole pass is deferred and recorded so, unless
\* that fails too: the context has ended, or the store does not answer.
SkipCovers(n) ==
  /\ Fault
  /\ \/ shortfall' = shortfall \cup {n} /\ UNCHANGED cancelled
     \/ shortfall' = shortfall \ {n} /\ cancelled' \in {cancelled, cancelled \cup {n}}
  /\ UNCHANGED <<links, posters, written, cover, stopped, elsewhere>>

\* The import's context ends under its pass.
CancelCovers(n) ==
  /\ n \notin cancelled
  /\ Fault
  /\ cancelled' = cancelled \cup {n}
  /\ UNCHANGED <<links, posters, cover, written, stopped, elsewhere, shortfall>>

CoverWorkers(n) == IF Cardinality(Asked(n)) < Permits THEN Cardinality(Asked(n)) ELSE Permits

\* A worker is free to receive; after stop it would only drop the item.
FreeWorker(n) == ~ stopped[n] /\ Cardinality(In(n, {"asking"} \cup Held)) < CoverWorkers(n)

\* It receives the next item from the producer.
TakeCover(n) ==
  /\ FreeWorker(n)
  /\ n \notin cancelled
  /\ \E k \in DOMAIN Walk[n] :
       /\ cover[Walk[n][k]] = "pending"
       /\ \A j \in 1 .. k - 1 : cover[Walk[n][j]] # "pending"
       /\ cover' = [cover EXCEPT ![Walk[n][k]] = "asking"]
  /\ UNCHANGED <<links, posters, written, stopped, cancelled, elsewhere, shortfall, faults>>

\* It finds that the context has ended, and stops the pass.
HaltCovers(n) ==
  /\ FreeWorker(n)
  /\ n \in cancelled
  /\ In(n, {"pending"}) # {}
  /\ stopped' = [stopped EXCEPT ![n] = TRUE]
  /\ UNCHANGED <<links, posters, cover, written, cancelled, elsewhere, shortfall, faults>>

\* acquireCover: a permit at once or within coverMaxWait, whether or not the pass has
\* been stopped meanwhile.
AcquireCover(n, i) ==
  /\ cover[i] = "asking"
  /\ GateFree
  /\ cover' = [cover EXCEPT ![i] = "fetching"]
  /\ UNCHANGED <<links, posters, written, stopped, cancelled, elsewhere, shortfall, faults>>

\* ErrCoverFetchBusy, or the end of the context: no permit came free in time; the item is
\* nobody's again, and halt stops the pass.
CoverBusy(n, i) ==
  /\ cover[i] = "asking"
  /\ n \in cancelled \/ ~ GateFree
  /\ cover' = [cover EXCEPT ![i] = "pending"]
  /\ stopped' = [stopped EXCEPT ![n] = TRUE]
  /\ UNCHANGED <<links, posters, written, cancelled, elsewhere, shortfall, faults>>

\* The file of an item's cover at one width: the key is a digest of its source URL.
FileAt(i, width) == <<i, width>>

\* renderAll: the cover in every width, never enlarged.
Renditions(i) == [k \in DOMAIN Widths |-> FileAt(i, Widths[k])]

\* Poster: the cover is there, decoded and rendered.
FetchCover(n, i) ==
  /\ cover[i] = "fetching"
  /\ cover' = [cover EXCEPT ![i] = "storing"]
  /\ UNCHANGED <<links, posters, written, stopped, cancelled, elsewhere, shortfall, faults>>

\* Put: one width is written to a file of its own, then renamed into its place.
PutCover(n, i) ==
  /\ cover[i] = "storing"
  /\ written[i] < Len(Widths)
  /\ cached' = cached \cup {Renditions(i)[written[i] + 1]}
  /\ written' = [written EXCEPT ![i] = @ + 1]
  /\ UNCHANGED <<links, poster, cover, stopped, cancelled, elsewhere, shortfall, faults>>

\* classify, and the failures of a fetch, its decoding, or a write.
Verdicts(stage) == IF stage = "fetching" THEN {"absent", "forbidden", "failed"} ELSE {"failed"}

Concluded(i, outcome) ==
  /\ cover' = [cover EXCEPT ![i] = outcome]
  /\ written' = [written EXCEPT ![i] = 0]

\* Poster returns an error; what it has written stays on disk.
RefuseCover(n, i) ==
  /\ cover[i] \in Held
  /\ IF n \in cancelled THEN UNCHANGED faults ELSE Fault
  /\ \E outcome \in Verdicts(cover[i]) : Concluded(i, outcome)
  /\ UNCHANGED <<links, posters, stopped, cancelled, elsewhere, shortfall>>

\* FAULT: the row is written when the first width is there.
RecordPoster_First(n, i) ==
  /\ cover[i] = "storing"
  /\ written[i] > 0
  /\ links[i] # NoWork
  /\ Concluded(i, "fetched")
  /\ poster' = [poster EXCEPT ![links[i]] = i]
  /\ UNCHANGED <<links, cached, stopped, cancelled, elsewhere, shortfall, faults>>

\* PutPosterAsset, after the last width, which takes the context; and the permit is
\* released.
RecordPoster(n, i) ==
  /\ cover[i] = "storing"
  /\ n \notin cancelled
  /\ written[i] = Len(Widths)
  /\ IF links[i] = NoWork
     THEN Concluded(i, "failed") /\ UNCHANGED poster
     ELSE Concluded(i, "fetched") /\ poster' = [poster EXCEPT ![links[i]] = i]
  /\ UNCHANGED <<links, cached, stopped, cancelled, elsewhere, shortfall, faults>>

\* imagecache.Open, and handleImage for the poster of a work.
Open(i, width) == FileAt(i, width) \in cached

Served(w, width) == poster[w] # NoItem /\ Open(poster[w], width)

CoversDone(n) ==
  /\ stopped[n] \/ In(n, {"pending"}) = {}
  /\ In(n, {"asking"} \cup Held) = {}

\* res.Deferred, by subtraction.
Deferred(n) ==
  Cardinality(Asked(n))
    - Cardinality(In(n, {"fetched"})) - Cardinality(In(n, {"absent"}))
    - Cardinality(In(n, {"forbidden"})) - Cardinality(In(n, {"failed"}))

\* FAULT: deferred items are left out of the condition.
Incomplete_DeferredOut(n) == In(n, {"failed", "forbidden"}) # {}

\* The condition of recordCoverShortfall.
Incomplete(n) == In(n, {"failed", "forbidden"}) # {} \/ Deferred(n) > 0

\* The end of fetchCovers: the results are counted and the shortfall is recorded.
EndCovers(n) ==
  /\ CoversDone(n)
  /\ RecordShortfall(n, Incomplete(n))
  /\ stopped' = [stopped EXCEPT ![n] = FALSE]
  /\ cover' = [i \in Items |-> IF i \in ItemsOf(n) THEN "none" ELSE cover[i]]
  /\ UNCHANGED <<links, posters, written, cancelled, elsewhere>>

CoverStep(n) ==
  \/ TakeCover(n) \/ HaltCovers(n)
  \/ \E i \in ItemsOf(n) :
       \/ AcquireCover(n, i)
       \/ CoverBusy(n, i)
       \/ FetchCover(n, i)
       \/ PutCover(n, i)
       \/ RecordPoster(n, i)
==============================================================================
