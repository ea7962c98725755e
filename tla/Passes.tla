-------------------------------- MODULE Passes --------------------------------
(***************************************************************************)
(* What an import does with the items it wrote (internal/libsync/importer.go*)
(* streamAndApplyCredits, streamAndApplyFiles, FlushRollups, fetchCovers,   *)
(* and their writers in internal/store): credits, files, the rollup of file *)
(* rows into each work's count, covers, and the sweep; imports of several   *)
(* instances side by side, over one store and upstreams that change.        *)
(*                                                                          *)
(* The items here are the ones the passes see: those without a parent.      *)
(***************************************************************************)
EXTENDS Covers, Selecting

CONSTANTS
  Kavita,        \* instances read item by item, without covers; BookOrbit's others
                 \*   answer from the cards of their walk
  Comics,        \* the works with a work_comic row
  Files,         \* the upstreams' files
  Keeper,        \* per file: the instance that serves it
  Nowhere,       \* the owner of a file that is gone
  Gone,          \* the shelf of an item that is gone
  Cards,         \* per item: what its service may say of it, a metadata and the work
                 \*   its identity resolves to
  Metadata,      \* what an item's metadata may say
  TotalOf,       \* per metadata: the total it declares under a status that allows
                 \*   one, or 0
  NamesOf,       \* per metadata: the names it credits
  FirstShelf, FirstOwner, \* the upstreams at the start
  MaxChanges,    \* bound on the upstreams' changes
  FileBatch,     \* the importer's BatchRows
  RollupBatch    \* DefaultRollupBatch

FilesOf(n) == {f \in Files : Keeper[f] = n}

ASSUME PassesAssumption ==
  /\ Kavita \subseteq Instances /\ Comics \subseteq Works
  /\ IsFiniteSet(Works) /\ IsFiniteSet(Files)
  /\ Keeper \in [Files -> Instances]
  /\ Nowhere \notin Items /\ \A i \in Items : Cards[i] \subseteq [work : Works, meta : Metadata] \ {Gone}
  /\ TotalOf \in [Metadata -> Nat]
  /\ DOMAIN FirstShelf = Items
  /\ \A i \in Items : FirstShelf[i] \in Cards[i] \cup {Gone}
  /\ DOMAIN FirstOwner = Files
  /\ \A f \in Files : FirstOwner[f] \in ItemsOf(Keeper[f]) \cup {Nowhere}
  /\ MaxChanges \in Nat /\ FileBatch \in Nat \ {0} /\ RollupBatch \in Nat \ {0}

VARIABLES
  shelf,        \* upstream: each item's metadata and the work its identity resolves to
  owner,        \* upstream: the item each file belongs to
  rows,         \* media_file: the work of each file's row
  dirty,        \* work.rollup_dirty
  count,        \* work.have_count and work.availability; have is 0 for no blob
  stated,       \* work.status with work_comic.total_issues_declared: the total it allows
  credited,     \* work_credit: the names credited on each work
  indexed,      \* search_doc: the names in each work's document
  phase,        \* importer: where each instance's import stands
  full,         \* importer: it is a full import, not a delta
  todo,         \* importer: the items the phase has still to read
  imported,     \* importer: the items this import wrote
  card,         \* bookOrbitSource: what the walk kept of each item
  batch,        \* importer: the file sets read and not applied
  failed,       \* importer: items whose file walk failed
  residue,      \* history: works whose inputs changed with no dirty mark
  changes,
  calm          \* history: instances that stood still since their import began

upstream == <<shelf, owner>>
replica == <<links, rows, dirty, count, stated, credited, indexed>>
importer == <<phase, full, todo, imported, card, batch, failed>>
history == <<residue, calm, changes>>
passVars == <<upstream, replica, posters, importer, coverPass, history, faults>>

FilesHeld(i) == {f \in Files : owner[f] = i}
RowsOn(w) == {f \in Files : rows[f] = w}
NoCard == [meta |-> Gone, files |-> {}]
------------------------------------------------------------------------------
(* The upstreams.                                                           *)

UpstreamChange(n) ==
  /\ changes < MaxChanges
  /\ changes' = changes + 1
  /\ calm' = calm \ {n}
  /\ UNCHANGED <<replica, posters, importer, coverPass, residue, faults>>

\* An item is edited, identified anew, removed or restored.
Edit(n, i, c) ==
  /\ shelf[i] # c
  /\ shelf' = [shelf EXCEPT ![i] = c]
  /\ UNCHANGED owner
  /\ UpstreamChange(n)

\* A file is added, removed, or moved to another item of its service.
MoveFile(n, f, i) ==
  /\ owner[f] # i
  /\ owner' = [owner EXCEPT ![f] = i]
  /\ UNCHANGED shelf
  /\ UpstreamChange(n)
------------------------------------------------------------------------------
(* The importer.                                                            *)

Enter(n, p, items) ==
  /\ phase' = [phase EXCEPT ![n] = p]
  /\ todo' = [todo EXCEPT ![n] = items]

Reading(n, p) == phase[n] = p /\ todo[n] # <<>>

NextItem(n) == Head(todo[n])

\* The requests of a pass: the items imported, in the order they were read.
Requests(n, items) == Selected(Walk[n], items)

\* On to the next item of the phase, or to the next phase.
Proceed(n, next, items) ==
  IF Len(todo[n]) = 1
  THEN Enter(n, next, items)
  ELSE todo' = [todo EXCEPT ![n] = Tail(@)] /\ UNCHANGED phase

Start(n, whole) ==
  /\ phase[n] = "idle"
  /\ whole \/ n \notin Kavita
  /\ Enter(n, "items", Walk[n])
  /\ full' = [full EXCEPT ![n] = whole]
  /\ calm' = calm \cup {n}
  /\ UNCHANGED <<upstream, replica, posters, imported, card, batch, failed, coverPass, residue,
                 changes, faults>>

\* What ends an import leaves of it in memory.
Forget(ns) ==
  /\ phase' = [n \in Instances |-> IF n \in ns THEN "idle" ELSE phase[n]]
  /\ todo' = [n \in Instances |-> IF n \in ns THEN <<>> ELSE todo[n]]
  /\ full' = [n \in Instances |-> full[n] /\ n \notin ns]
  /\ imported' = [n \in Instances |-> IF n \in ns THEN {} ELSE imported[n]]
  /\ batch' = [n \in Instances |-> IF n \in ns THEN <<>> ELSE batch[n]]
  /\ failed' = [n \in Instances |-> IF n \in ns THEN {} ELSE failed[n]]
  /\ card' = [i \in Items |-> IF \E n \in ns : i \in ItemsOf(n) THEN NoCard ELSE card[i]]
  /\ cancelled' = cancelled \ ns

\* The items phase, one item at a time: it is written and its link leads where its
\* identity does; an item that is gone, or older than a delta's mark, is passed over.
ImportItem(n) ==
  /\ Reading(n, "items")
  /\ LET i == NextItem(n)
     IN  \/ /\ shelf[i] # Gone
            /\ links' = [links EXCEPT ![i] = shelf[i].work]
            /\ imported' = [imported EXCEPT ![n] = @ \cup {i}]
            /\ card' = [card EXCEPT ![i] = [meta |-> shelf[i].meta, files |-> FilesHeld(i)]]
         \/ /\ shelf[i] = Gone \/ ~ full[n]
            /\ UNCHANGED <<links, imported, card>>
  /\ IF imported'[n] = {}
     THEN Proceed(n, "rollups", <<>>)
     ELSE Proceed(n, "credits", Requests(n, imported'[n]))
  /\ UNCHANGED <<upstream, rows, dirty, count, stated, credited, indexed, posters, full, batch,
                 failed, coverPass, history, faults>>

\* The document is rebuilt when the credited names differ from before the rewrite.
Reindexed(w, names) == names # credited[w]

\* Only a comic has a total to declare.
Declared(w, set) == IF w \in Comics THEN set.total ELSE 0

\* applyOneCreditSet of the live link's work: status and total, credits, document.  None
\* of it marks the work dirty.
ApplyCredits(i, set) ==
  IF links[i] = NoWork
  THEN UNCHANGED <<stated, credited, indexed, residue>>
  ELSE LET w == links[i]
       IN  /\ stated' = [stated EXCEPT ![w] = Declared(w, set)]
           /\ credited' = [credited EXCEPT ![w] = set.names]
           /\ indexed' = IF Reindexed(w, set.names) THEN [indexed EXCEPT ![w] = set.names]
                         ELSE indexed
           /\ residue' = IF stated' = stated THEN residue ELSE residue \cup {w}

\* What a Kavita says of an item when it is asked, and what a card of the walk says;
\* BookOrbit publishes neither a status nor a total.
creditsFromMetadata(i) == [names |-> NamesOf[shelf[i].meta], total |-> TotalOf[shelf[i].meta]]

creditsFromCard(i) == [names |-> NamesOf[card[i].meta], total |-> 0]

\* StreamCredits reads one item's metadata and its set is applied.
CreditItem(n) ==
  /\ Reading(n, "credits")
  /\ LET i == NextItem(n)
     IN  IF n \in Kavita
         THEN shelf[i] # Gone /\ ApplyCredits(i, creditsFromMetadata(i))
         ELSE ApplyCredits(i, creditsFromCard(i))
  /\ Proceed(n, "files", Requests(n, imported[n]))
  /\ UNCHANGED <<upstream, links, rows, dirty, count, posters, full, imported, card, batch,
                 failed, coverPass, calm, changes, faults>>

\* A metadata read that fails is dropped, the item's credits staying as they were.
DropCredit(n) ==
  /\ Reading(n, "credits")
  /\ n \in Kavita
  /\ IF shelf[NextItem(n)] = Gone THEN UNCHANGED faults ELSE Fault
  /\ Proceed(n, "files", Requests(n, imported[n]))
  /\ UNCHANGED <<upstream, replica, posters, full, imported, card, batch, failed, coverPass,
                 history>>
------------------------------------------------------------------------------
(* Files.                                                                   *)

\* A Kavita is asked for an item's volumes; a BookOrbit's card has them.
fileSetFromVolumes(i) == FilesHeld(i)
fileSetFromCard(i) == card[i].files

\* StreamFiles delivers one item's files.
WalkFiles(n) ==
  /\ Reading(n, "files")
  /\ Len(batch[n]) < FileBatch
  /\ LET i == NextItem(n)
         files == IF n \in Kavita THEN fileSetFromVolumes(i) ELSE fileSetFromCard(i)
     IN  /\ n \in Kavita => shelf[i] # Gone
         /\ batch' = [batch EXCEPT ![n] = Append(@, [item |-> i, files |-> files])]
  /\ todo' = [todo EXCEPT ![n] = Tail(@)]
  /\ UNCHANGED <<upstream, replica, posters, phase, full, imported, card, failed, coverPass, history,
                 faults>>

\* A walk that fails is recorded and dropped.
DropWalk(n) ==
  /\ Reading(n, "files")
  /\ n \in Kavita
  /\ IF shelf[NextItem(n)] = Gone THEN UNCHANGED faults ELSE Fault
  /\ failed' = [failed EXCEPT ![n] = @ \cup {NextItem(n)}]
  /\ IF batch[n] = <<>>
     THEN Proceed(n, "rollups", <<>>)
     ELSE todo' = [todo EXCEPT ![n] = Tail(@)] /\ UNCHANGED phase
  /\ UNCHANGED <<upstream, replica, posters, full, imported, card, batch, coverPass, history>>

\* The sets whose item has a live link, and the works they touch.
Resolved(sets) == {k \in DOMAIN sets : links[sets[k].item] # NoWork}
Touched(sets) == {links[sets[k].item] : k \in Resolved(sets)}

\* applyOneFileSet: the work of the last set of the batch that holds a file, if any does.
Claimants(sets, f) ==
  LET held == {k \in Resolved(sets) : f \in sets[k].files}
  IN  {links[sets[k].item] : k \in {m \in held : \A j \in held : j =< m}}

\* The paths kept for a work: those of every set of this call that led to it.
Kept(sets, w) == UNION {sets[k].files : k \in {j \in Resolved(sets) : links[sets[j].item] = w}}

\* FAULT: a work keeps only what its last set holds.
RowsAfter_PerSet(n, sets, f) ==
  LET last == sets[Len(sets)]
  IN  IF f \in last.files THEN links[last.item]
      ELSE IF rows[f] \in Touched(sets) /\ Keeper[f] = n THEN NoWork
      ELSE rows[f]

\* The row of a file after ApplyFiles: upserted to its work, and removed from a touched
\* work that this instance's call did not see it under.
RowsAfter(n, sets, f) ==
  LET w == IF Claimants(sets, f) # {} THEN CHOOSE u \in Claimants(sets, f) : TRUE ELSE rows[f]
  IN  IF w \in Touched(sets) /\ Keeper[f] = n /\ f \notin Kept(sets, w) THEN NoWork ELSE w

\* FAULT: only a work whose rows changed in number is marked.
Marked_WhenFewer(sets) ==
  {w \in Touched(sets) : Cardinality({f \in Files : rows'[f] = w}) < Cardinality(RowsOn(w))}

\* Every work the call touched, changed or not.
Marked(sets) == Touched(sets)

\* flush: one call of ApplyFiles, when the batch is full or its window is over.
ApplyFiles(n) ==
  /\ phase[n] = "files"
  /\ batch[n] # <<>>
  /\ rows' = [f \in Files |-> RowsAfter(n, batch[n], f)]
  /\ dirty' = dirty \cup Marked(batch[n])
  /\ residue' = residue \cup {w \in Works \ Touched(batch[n]) : \E f \in RowsOn(w) : rows'[f] # w}
  /\ batch' = [batch EXCEPT ![n] = <<>>]
  /\ phase' = IF todo[n] = <<>> THEN [phase EXCEPT ![n] = "rollups"] ELSE phase
  /\ UNCHANGED <<upstream, links, count, stated, credited, indexed, posters, full, todo,
                 imported, card, failed, coverPass, calm, changes, faults>>
------------------------------------------------------------------------------
(* Rollups, covers and the sweep.                                           *)

\* dirtyWorksSQL: the first dirty works by id, whichever instance's import marked them.
Due == {w \in dirty : Cardinality({v \in dirty : v < w}) < RollupBatch}

\* flushOneWork: nothing is aggregated over no rows.
Rollup(w) ==
  IF RowsOn(w) = {} THEN [have |-> 0, total |-> 0]
  ELSE [have |-> Cardinality(RowsOn(w)), total |-> stated[w]]

FlushRollups(n) ==
  /\ phase[n] = "rollups"
  /\ dirty # {}
  /\ count' = [w \in Works |-> IF w \in Due THEN Rollup(w) ELSE count[w]]
  /\ dirty' = dirty \ Due
  /\ residue' = residue \ Due
  /\ UNCHANGED <<upstream, links, rows, stated, credited, indexed, posters, importer, coverPass,
                 calm, changes, faults>>

\* Only a BookOrbit's import has a cover pass.
coverPipeline(n) == n \notin Kavita

EndRollups(n) ==
  /\ phase[n] = "rollups"
  /\ dirty = {}
  /\ \/ /\ coverPipeline(n) /\ imported[n] # {}
        /\ \/ Enter(n, "covers", <<>>) /\ BeginCovers(n, imported[n])
           \/ Enter(n, "sweep", <<>>) /\ SkipCovers(n)
     \/ /\ ~ coverPipeline(n) \/ imported[n] = {}
        /\ Enter(n, "sweep", <<>>)
        /\ UNCHANGED <<links, posters, coverPass, faults>>
  /\ UNCHANGED <<upstream, rows, dirty, count, stated, credited, indexed, full, imported, card,
                 batch, failed, history>>

Covering(n) ==
  /\ phase[n] = "covers"
  /\ CoverStep(n) \/ \E i \in ItemsOf(n) : RefuseCover(n, i)
  /\ UNCHANGED <<upstream, rows, dirty, count, stated, credited, indexed, importer, history>>

FinishCovers(n) ==
  /\ phase[n] = "covers"
  /\ EndCovers(n)
  /\ Enter(n, "sweep", <<>>)
  /\ UNCHANGED <<upstream, rows, dirty, count, stated, credited, indexed, full, imported, card,
                 batch, failed, history>>

\* SweepDeletions takes the links of what a full read did not see, or refuses; a delta
\* has no sweep.
Finish(n) ==
  /\ phase[n] = "sweep"
  /\ n \notin cancelled
  /\ \/ /\ full[n]
        /\ links' = [i \in Items |->
             IF i \in ItemsOf(n) /\ i \notin imported[n] THEN NoWork ELSE links[i]]
     \/ UNCHANGED links
  /\ Forget({n})
  /\ UNCHANGED <<upstream, rows, dirty, count, stated, credited, indexed, posters, covering,
                 history, faults>>

\* An error, an open breaker or a cancelled context ends one import where it stands; the
\* cover pass lets no error through.
Fail(n) ==
  /\ phase[n] \notin {"idle", "covers"}
  /\ Fault
  /\ Forget({n})
  /\ UNCHANGED <<upstream, replica, posters, covering, history>>

\* A context that ends under the cover pass ends the import behind it.
Cancel(n) ==
  /\ phase[n] = "covers"
  /\ CancelCovers(n)
  /\ UNCHANGED <<upstream, rows, dirty, count, stated, credited, indexed, importer, history>>

GiveUp(n) ==
  /\ phase[n] = "sweep"
  /\ n \in cancelled
  /\ Forget({n})
  /\ UNCHANGED <<upstream, replica, posters, covering, history, faults>>

\* The process ends in the middle of its imports.
Crash ==
  /\ \E n \in Instances : phase[n] # "idle"
  /\ Fault
  /\ Forget(Instances)
  /\ cover' = [i \in Items |-> "none"] /\ written' = [i \in Items |-> 0]
  /\ stopped' = [n \in Instances |-> FALSE]
  /\ elsewhere' = 0
  /\ UNCHANGED <<upstream, replica, posters, shortfall, history>>

Gate ==
  /\ TakeElsewhere \/ GiveBackElsewhere
  /\ UNCHANGED <<upstream, rows, dirty, count, stated, credited, indexed, importer, history>>
------------------------------------------------------------------------------
Init ==
  /\ shelf = FirstShelf /\ owner = FirstOwner
  /\ links = [i \in Items |-> NoWork]
  /\ rows = [f \in Files |-> NoWork]
  /\ dirty = {}
  /\ count = [w \in Works |-> [have |-> 0, total |-> 0]]
  /\ stated = [w \in Works |-> 0]
  /\ credited = [w \in Works |-> {}] /\ indexed = [w \in Works |-> {}]
  /\ poster = [w \in Works |-> NoItem] /\ cached = {}
  /\ phase = [n \in Instances |-> "idle"]
  /\ full = [n \in Instances |-> FALSE]
  /\ todo = [n \in Instances |-> <<>>]
  /\ imported = [n \in Instances |-> {}]
  /\ card = [i \in Items |-> NoCard]
  /\ batch = [n \in Instances |-> <<>>]
  /\ failed = [n \in Instances |-> {}]
  /\ cover = [i \in Items |-> "none"] /\ written = [i \in Items |-> 0]
  /\ stopped = [n \in Instances |-> FALSE]
  /\ elsewhere = 0 /\ shortfall = {} /\ cancelled = {}
  /\ residue = {} /\ calm = {}
  /\ changes = 0 /\ faults = 0

Step(n) ==
  \/ ImportItem(n)
  \/ CreditItem(n) \/ DropCredit(n)
  \/ WalkFiles(n) \/ DropWalk(n) \/ ApplyFiles(n)
  \/ FlushRollups(n) \/ EndRollups(n)
  \/ Covering(n) \/ FinishCovers(n)
  \/ Finish(n) \/ GiveUp(n)

Next ==
  \/ \E n \in Instances :
       \/ \E whole \in BOOLEAN : Start(n, whole)
       \/ Step(n)
       \/ Fail(n) \/ Cancel(n)
       \/ \E i \in ItemsOf(n) : \E c \in Cards[i] \cup {Gone} : Edit(n, i, c)
       \/ \E f \in FilesOf(n), i \in ItemsOf(n) \cup {Nowhere} : MoveFile(n, f, i)
  \/ Gate
  \/ Crash

\* Full imports recur; an import goes on to its end, a fetch ends within the client's
\* timeout, and a permit held elsewhere comes back.
Spec ==
  /\ Init /\ [][Next]_passVars
  /\ \A n \in Instances : WF_passVars(Step(n)) /\ SF_passVars(Start(n, TRUE))
  /\ WF_passVars(Gate /\ GiveBackElsewhere)
------------------------------------------------------------------------------
(* What the store may be relied on for.                                     *)

\* "A missed dirty mark is a count that stays wrong": what a work shows agrees with the
\* rows it was derived from, unless it is marked, or is one the code knowingly leaves:
\* a work another took a file from, or whose status a credits pass restated.  Its
\* document always carries the names credited on it.
DerivedTrue ==
  \A w \in Works :
    /\ w \notin dirty \cup residue => count[w] = Rollup(w)
    /\ indexed[w] = credited[w]

Alone(n, i) == \A j \in ItemsOf(n) \ {i} : links[j] # links[i]

\* Once the files of an instance that stood still are read, each of its items whose work
\* no other of its items shares, and whose walk did not fail, has exactly its own files
\* under it, whatever the batches were and whatever imports ran beside.
FilesMirrored ==
  \A n \in calm : \A i \in imported[n] \ failed[n] :
    phase[n] \in {"rollups", "covers", "sweep"} /\ Alone(n, i) =>
      {f \in FilesOf(n) : rows[f] = links[i]} = FilesHeld(i)

\* A poster a work points at is on disk at every width, so that a crash between the two
\* writes leaves bytes without a row and never a row without bytes.
PosterServable ==
  \A w \in Works : poster[w] # NoItem => \A width \in Range(Widths) : Served(w, width)

\* The pass over n's covers ends in this step, or is skipped.
EndsCovers(n) == phase[n] \in {"rollups", "covers"} /\ phase'[n] = "sweep"

\* Nothing stood in the way of the record: no context that had ended, and no write that
\* failed.
Recordable(n) == n \notin cancelled /\ faults' = faults

Unserved(n) == {i \in imported[n] : ~ Postered(i) /\ cover[i] # "absent"}

\* "These items have no poster yet and no verdict was recorded against them": a pass of a
\* BookOrbit that leaves an item without a poster, other than one with no cover to give,
\* is on record, however the pass came to its end, if the record could be written
\* (covers.go:534-572).
ShortfallTold ==
  [][\A n \in Instances \ Kavita :
       EndsCovers(n) /\ Recordable(n) /\ Unserved(n) # {} => n \in shortfall']_passVars

\* "Every failure below is counted, logged and - when the pass came up short - recorded in
\* sync_report" (covers.go:338-340). A pass that is cut short by the end of its import's
\* context writes its row under that context, and the row is lost.
ShortfallRecorded ==
  [][\A n \in Instances \ Kavita :
       FinishCovers(n) /\ Unserved(n) # {} => n \in shortfall']_passVars

AllIdle == \A n \in Instances : phase[n] = "idle"

\* Once the upstreams are still and nothing fails any more, whenever no import runs: no
\* work is left dirty, every item there leads where its identity does, the work shows
\* what its rows and its status say, and each item of a BookOrbit has a poster.
Settled ==
  AllIdle =>
    /\ dirty = {}
    /\ \A n \in Instances : \A i \in ItemsOf(n) :
         shelf[i] # Gone =>
           /\ links[i] = shelf[i].work
           /\ count[links[i]] = Rollup(links[i])
           /\ Alone(n, i) => {f \in FilesOf(n) : rows[f] = links[i]} = FilesHeld(i)
           /\ n \notin Kavita => Postered(i)

EventuallySettles == <>[]Settled
==============================================================================
