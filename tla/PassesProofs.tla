----------------------------- MODULE PassesProofs -----------------------------
(***************************************************************************)
(* The passes after an import's items, for any instances, walks, upstreams, *)
(* batches, widths and faults.  Four parts, each with an invariant of its   *)
(* own: a poster a work points at is on disk at every width (PosterInv);    *)
(* what is derived from file rows and credits is true or marked             *)
(* (DerivedInv); the files of an instance that stood still are mirrored     *)
(* under the works its items lead to (FilesInv); and a cover pass that      *)
(* leaves an item without a poster says so (CoversInv).                     *)
(***************************************************************************)
EXTENDS Passes, SelectingProofs, FiniteSetTheorems

\* A width that has been counted as written is on disk, whatever the cover's pass is at.
WrittenIsCached ==
  \A i \in Items : \A k \in 1 .. written[i] : FileAt(i, Widths[k]) \in cached

PosterInv ==
  /\ written \in [Items -> Nat]
  /\ poster \in [Works -> Items \cup {NoItem}]
  /\ WrittenIsCached
  /\ PosterServable

\* Nothing leaves the cache, and a step that only resets counters keeps what is counted.
LEMMA CountersOnlyReset ==
  ASSUME PosterInv, posters' = posters,
         written' \in [Items -> Nat],
         \A i \in Items : written'[i] = written[i] \/ written'[i] = 0
  PROVE  PosterInv'
<1>1. \A i \in Items : \A k \in 1 .. written'[i] : k \in 1 .. written[i]
  BY DEF PosterInv
<1>2. WrittenIsCached'
  BY <1>1 DEF PosterInv, WrittenIsCached, FileAt, posters
<1>3. PosterServable'
  BY DEF PosterInv, PosterServable, Served, Open, FileAt, posters
<1> QED
  BY <1>2, <1>3 DEF PosterInv, posters

\* One more width is counted when it is on disk.
LEMMA PutCoverKeeps ==
  ASSUME PosterInv, NEW n \in Instances, NEW i \in ItemsOf(n), PutCover(n, i)
  PROVE  PosterInv'
<1>1. i \in Items
  BY DEF Items
<1>2. written' = [written EXCEPT ![i] = written[i] + 1] /\ poster' = poster
  BY DEF PutCover
<1>3. cached' = cached \cup {FileAt(i, Widths[written[i] + 1])}
  <2>1. written[i] + 1 \in DOMAIN Widths
    BY <1>1, CoversAssumption DEF PosterInv, PutCover
  <2> QED
    BY <2>1 DEF PutCover, Renditions
<1>4. written' \in [Items -> Nat]
  BY <1>1, <1>2 DEF PosterInv
<1>5. WrittenIsCached'
  <2> SUFFICES ASSUME NEW j \in Items, NEW k \in 1 .. written'[j]
               PROVE  FileAt(j, Widths[k]) \in cached'
    BY DEF WrittenIsCached, FileAt
  <2>1. CASE j = i /\ k = written[i] + 1
    BY <2>1, <1>3
  <2>2. CASE ~ (j = i /\ k = written[i] + 1)
    <3>1. k \in 1 .. written[j]
      BY <2>2, <1>1, <1>2 DEF PosterInv
    <3> QED
      BY <3>1, <1>3 DEF PosterInv, WrittenIsCached
  <2> QED
    BY <2>1, <2>2
<1>6. PosterServable'
  BY <1>2, <1>3 DEF PosterInv, PosterServable, Served, Open, FileAt
<1> QED
  BY <1>2, <1>4, <1>5, <1>6 DEF PosterInv

\* The row is written when every width is counted.
LEMMA RecordPosterKeeps ==
  ASSUME PosterInv, NEW n \in Instances, NEW i \in ItemsOf(n), RecordPoster(n, i)
  PROVE  PosterInv'
<1>1. i \in Items
  BY DEF Items
<1>2. written' = [written EXCEPT ![i] = 0] /\ cached' = cached
  BY DEF RecordPoster, Concluded
<1>3. written' \in [Items -> Nat] /\ WrittenIsCached'
  BY <1>1, <1>2 DEF PosterInv, WrittenIsCached, FileAt
<1>4. \A width \in Range(Widths) : FileAt(i, width) \in cached
  <2> SUFFICES ASSUME NEW k \in DOMAIN Widths
               PROVE  FileAt(i, Widths[k]) \in cached
    BY DEF Range
  <2>1. k \in 1 .. written[i]
    BY CoversAssumption DEF RecordPoster
  <2> QED
    BY <1>1, <2>1 DEF PosterInv, WrittenIsCached
<1>5. poster' = poster \/ poster' = [poster EXCEPT ![links[i]] = i]
  BY DEF RecordPoster
<1>6. /\ poster' \in [Works -> Items \cup {NoItem}]
      /\ \A w \in Works : poster'[w] = poster[w] \/ poster'[w] = i
  BY <1>1, <1>5 DEF PosterInv
<1>7. PosterServable'
  BY <1>2, <1>4, <1>6 DEF PosterInv, PosterServable, Served, Open, FileAt
<1> QED
  BY <1>3, <1>6, <1>7 DEF PosterInv

\* Every step keeps the posters servable.
LEMMA PosterStep ==
  ASSUME PosterInv, [Next]_passVars
  PROVE  PosterInv'
<1>1. CASE UNCHANGED <<posters, written>>
  BY <1>1, CountersOnlyReset DEF PosterInv
<1>2. CASE Crash
  BY <1>2, CountersOnlyReset DEF Crash, PosterInv
<1>3. ASSUME NEW n \in Instances, Covering(n)
      PROVE  PosterInv'
  <2>1. ASSUME NEW i \in ItemsOf(n), PutCover(n, i)
        PROVE  PosterInv'
    BY <2>1, PutCoverKeeps
  <2>2. ASSUME NEW i \in ItemsOf(n), RecordPoster(n, i)
        PROVE  PosterInv'
    BY <2>2, RecordPosterKeeps
  <2>3. ASSUME NEW i \in ItemsOf(n), RefuseCover(n, i)
        PROVE  PosterInv'
    <3>1. posters' = posters /\ written' = [written EXCEPT ![i] = 0]
      BY <2>3 DEF RefuseCover, Concluded
    <3> QED
      BY <3>1, CountersOnlyReset DEF PosterInv
  <2>4. ASSUME NEW i \in ItemsOf(n), AcquireCover(n, i) \/ CoverBusy(n, i) \/ FetchCover(n, i)
        PROVE  UNCHANGED <<posters, written>>
    BY <2>4 DEF AcquireCover, CoverBusy, FetchCover
  <2>5. CASE TakeCover(n) \/ HaltCovers(n)
    BY <2>5, <1>1 DEF TakeCover, HaltCovers
  <2> QED
    BY <1>1, <1>3, <2>1, <2>2, <2>3, <2>4, <2>5 DEF Covering, CoverStep
<1>4. ASSUME NEW n \in Instances, Step(n), ~ Covering(n)
      PROVE  UNCHANGED <<posters, written>>
  <2>1. CASE ImportItem(n)
    BY <2>1 DEF ImportItem, coverPass, covering
  <2>2. CASE CreditItem(n) \/ DropCredit(n)
    BY <2>2 DEF CreditItem, DropCredit, coverPass, covering
  <2>3. CASE WalkFiles(n) \/ DropWalk(n) \/ ApplyFiles(n)
    BY <2>3 DEF WalkFiles, DropWalk, ApplyFiles, coverPass, covering
  <2>4. CASE FlushRollups(n)
    BY <2>4 DEF FlushRollups, coverPass, covering
  <2>5. CASE EndRollups(n)
    BY <2>5 DEF EndRollups, BeginCovers, SkipCovers, coverPass, covering
  <2>6. CASE FinishCovers(n)
    BY <2>6 DEF FinishCovers, EndCovers
  <2>7. CASE Finish(n) \/ GiveUp(n)
    BY <2>7 DEF Finish, GiveUp, coverPass, covering
  <2> QED
    BY <1>4, <2>1, <2>2, <2>3, <2>4, <2>5, <2>6, <2>7 DEF Step
<1>5. ASSUME NEW n \in Instances, \/ \E whole \in BOOLEAN : Start(n, whole)
                                  \/ Fail(n) \/ Cancel(n)
      PROVE  UNCHANGED <<posters, written>>
  BY <1>5 DEF Start, Fail, Cancel, CancelCovers, coverPass, covering
<1>6. ASSUME NEW n \in Instances,
             \/ \E i \in ItemsOf(n) : \E c \in Cards[i] \cup {Gone} : Edit(n, i, c)
             \/ \E f \in FilesOf(n), i \in ItemsOf(n) \cup {Nowhere} : MoveFile(n, f, i)
      PROVE  UNCHANGED <<posters, written>>
  BY <1>6 DEF Edit, MoveFile, UpstreamChange, coverPass, covering
<1>7. CASE Gate
  BY <1>1, <1>7 DEF Gate, TakeElsewhere, GiveBackElsewhere
<1>8. CASE UNCHANGED passVars
  BY <1>1, <1>8 DEF passVars, coverPass, covering
<1> QED
  BY <1>1, <1>2, <1>3, <1>4, <1>5, <1>6, <1>7, <1>8 DEF Next

\* Nothing is on disk, and nothing points at it.
LEMMA PosterInit == Init => PosterInv
<1> SUFFICES ASSUME Init PROVE PosterInv
  OBVIOUS
<1>1. written \in [Items -> Nat] /\ \A i \in Items : written[i] = 0
  BY DEF Init
<1>2. WrittenIsCached
  BY <1>1 DEF WrittenIsCached
<1>3. PosterServable
  BY DEF Init, PosterServable
<1> QED
  BY <1>1, <1>2, <1>3 DEF PosterInv, Init

\* A work never points at a poster that the cache does not hold at every width: the row is
\* written last, and nothing the passes do takes a file away (pipeline.go:381).
THEOREM PosterCorrect == Spec => []PosterServable
<1>1. PosterInv /\ [Next]_passVars => PosterInv'
  BY PosterStep
<1>2. PosterInv => PosterServable
  BY DEF PosterInv
<1> QED
  BY <1>1, <1>2, PosterInit, PTL DEF Spec
------------------------------------------------------------------------------
(* Counts and documents.                                                    *)

OnWorks(f) == f = [w \in Works |-> f[w]]

DerivedInv ==
  /\ OnWorks(stated) /\ OnWorks(credited) /\ OnWorks(indexed)
  /\ DerivedTrue

\* What a work shows is derived from its rows and its status: without a change of either,
\* of the counts or of the marks, it stays true.
LEMMA DerivedUnchanged ==
  ASSUME DerivedInv, UNCHANGED <<rows, dirty, count, stated, credited, indexed, residue>>
  PROVE  DerivedInv'
BY DEF DerivedInv, DerivedTrue, OnWorks, Rollup, RowsOn

\* A credits pass restates a work and says so in the residue; its document follows its
\* credits, or had the same names before.
LEMMA CreditsKeepDerived ==
  ASSUME DerivedInv, NEW i, NEW set, ApplyCredits(i, set),
         UNCHANGED <<rows, dirty, count>>
  PROVE  DerivedInv'
<1>1. CASE links[i] = NoWork
  BY <1>1, DerivedUnchanged DEF ApplyCredits
<1>2. CASE links[i] # NoWork
  <2> DEFINE w == links[i]
  <2>1. /\ stated' = [stated EXCEPT ![w] = Declared(w, set)]
        /\ credited' = [credited EXCEPT ![w] = set.names]
        /\ indexed' = IF set.names # credited[w] THEN [indexed EXCEPT ![w] = set.names] ELSE indexed
        /\ residue' = IF stated' = stated THEN residue ELSE residue \cup {w}
    BY <1>2 DEF ApplyCredits, Reindexed
  <2>2. OnWorks(stated)' /\ OnWorks(credited)' /\ OnWorks(indexed)'
    <3>1. OnWorks(stated)'
      BY <2>1 DEF DerivedInv, OnWorks
    <3>2. OnWorks(credited)'
      BY <2>1 DEF DerivedInv, OnWorks
    <3>3. OnWorks(indexed)'
      BY <2>1 DEF DerivedInv, OnWorks
    <3> QED
      BY <3>1, <3>2, <3>3
  <2>3. ASSUME NEW v \in Works
        PROVE  /\ v \notin residue' => stated'[v] = stated[v] /\ v \notin residue
               /\ indexed'[v] = credited'[v]
    <3>1. v \notin residue' => stated'[v] = stated[v] /\ v \notin residue
      BY <2>1 DEF DerivedInv, OnWorks
    <3>2. CASE v = w
      BY <2>1, <3>2 DEF DerivedInv, DerivedTrue, OnWorks
    <3>3. CASE v # w
      BY <2>1, <3>3 DEF DerivedInv, DerivedTrue, OnWorks
    <3> QED
      BY <3>1, <3>2, <3>3
  <2>4. ASSUME NEW v \in Works, v \notin dirty' \cup residue'
        PROVE  count'[v] = Rollup(v)'
    <3>1. stated'[v] = stated[v] /\ count[v] = Rollup(v)
      BY <2>3, <2>4 DEF DerivedInv, DerivedTrue
    <3> QED
      BY <3>1 DEF Rollup, RowsOn
  <2> QED
    BY <2>2, <2>3, <2>4 DEF DerivedInv, DerivedTrue
<1> QED
  BY <1>1, <1>2

\* A file set changes the rows of the works it touches, which it marks, and takes rows
\* from others, which is the residue.
LEMMA FilesKeepDerived ==
  ASSUME DerivedInv, NEW n \in Instances, ApplyFiles(n)
  PROVE  DerivedInv'
<1> DEFINE sets == batch[n]
<1>1. /\ rows' = [f \in Files |-> RowsAfter(n, sets, f)]
      /\ dirty' = dirty \cup Touched(sets)
      /\ residue' = residue \cup {w \in Works \ Touched(sets) : \E f \in RowsOn(w) : rows'[f] # w}
      /\ UNCHANGED <<count, stated, credited, indexed>>
  BY DEF ApplyFiles, Marked
<1>2. \A f \in Files : Claimants(sets, f) \subseteq Touched(sets)
  BY DEF Claimants, Touched
<1>3. ASSUME NEW w \in Works, w \notin dirty' \cup residue'
      PROVE  count'[w] = Rollup(w)'
  <2>1. w \notin Touched(sets) /\ w # NoWork /\ count[w] = Rollup(w)
    BY <1>1, <1>3, CoversAssumption DEF DerivedInv, DerivedTrue
  <2>2. ASSUME NEW f \in Files, rows'[f] = w
        PROVE  rows[f] = w
    <3>1. RowsAfter(n, sets, f) = w
      BY <1>1, <2>2
    <3>2. CASE Claimants(sets, f) # {}
      <4>1. (CHOOSE u \in Claimants(sets, f) : TRUE) \in Claimants(sets, f)
        BY <3>2
      <4> QED
        BY <1>2, <2>1, <3>1, <3>2, <4>1 DEF RowsAfter
    <3>3. CASE Claimants(sets, f) = {}
      BY <2>1, <3>1, <3>3 DEF RowsAfter
    <3> QED
      BY <3>2, <3>3
  <2>3. \A f \in RowsOn(w) : rows'[f] = w
    BY <1>1, <1>3, <2>1
  <2>4. RowsOn(w)' = RowsOn(w)
    BY <2>2, <2>3 DEF RowsOn
  <2> QED
    BY <1>1, <2>1, <2>4 DEF Rollup
<1> QED
  BY <1>1, <1>3 DEF DerivedInv, DerivedTrue, OnWorks

\* A flush gives its works the counts of their rows.
LEMMA FlushKeepsDerived ==
  ASSUME DerivedInv, NEW n \in Instances, FlushRollups(n)
  PROVE  DerivedInv'
<1>1. /\ count' = [w \in Works |-> IF w \in Due THEN Rollup(w) ELSE count[w]]
      /\ dirty' = dirty \ Due /\ residue' = residue \ Due
      /\ UNCHANGED <<rows, stated, credited, indexed>>
  BY DEF FlushRollups
<1>2. ASSUME NEW w \in Works PROVE Rollup(w)' = Rollup(w)
  BY <1>1 DEF Rollup, RowsOn
<1>3. ASSUME NEW w \in Works, w \notin dirty' \cup residue'
      PROVE  count'[w] = Rollup(w)'
  BY <1>1, <1>2, <1>3 DEF DerivedInv, DerivedTrue
<1> QED
  BY <1>1, <1>3 DEF DerivedInv, DerivedTrue, OnWorks

\* Every step keeps what is derived true or marked.
LEMMA DerivedStep ==
  ASSUME DerivedInv, [Next]_passVars
  PROVE  DerivedInv'
<1> DEFINE still == UNCHANGED <<rows, dirty, count, stated, credited, indexed, residue>>
<1>1. CASE still
  BY <1>1, DerivedUnchanged
<1>2. ASSUME NEW n \in Instances, CreditItem(n)
      PROVE  DerivedInv'
  <2>1. /\ \E i, set : ApplyCredits(i, set)
        /\ UNCHANGED <<rows, dirty, count>>
    BY <1>2 DEF CreditItem
  <2> QED
    BY <2>1, CreditsKeepDerived
<1>3. ASSUME NEW n \in Instances, Step(n), ~ CreditItem(n), ~ ApplyFiles(n), ~ FlushRollups(n)
      PROVE  still
  <2>1. CASE ImportItem(n)
    BY <2>1 DEF ImportItem, history
  <2>2. CASE DropCredit(n) \/ WalkFiles(n) \/ DropWalk(n)
    BY <2>2 DEF DropCredit, WalkFiles, DropWalk, replica, history
  <2>3. CASE EndRollups(n) \/ FinishCovers(n)
    BY <2>3 DEF EndRollups, FinishCovers, history
  <2>4. CASE Covering(n)
    BY <2>4 DEF Covering, history
  <2>5. CASE Finish(n) \/ GiveUp(n)
    BY <2>5 DEF Finish, GiveUp, replica, history
  <2> QED
    BY <1>3, <2>1, <2>2, <2>3, <2>4, <2>5 DEF Step
<1>4. ASSUME NEW n \in Instances,
             (\E whole \in BOOLEAN : Start(n, whole)) \/ Fail(n) \/ Cancel(n)
      PROVE  still
  BY <1>4 DEF Start, Fail, Cancel, replica, history
<1>5. ASSUME NEW n \in Instances,
             \/ \E i \in ItemsOf(n) : \E c \in Cards[i] \cup {Gone} : Edit(n, i, c)
             \/ \E f \in FilesOf(n), i \in ItemsOf(n) \cup {Nowhere} : MoveFile(n, f, i)
      PROVE  still
  BY <1>5 DEF Edit, MoveFile, UpstreamChange, replica
<1>6. CASE Gate \/ Crash \/ UNCHANGED passVars
  BY <1>1, <1>6 DEF Gate, Crash, passVars, replica, history
<1> QED
  BY <1>1, <1>2, <1>3, <1>4, <1>5, <1>6, FilesKeepDerived, FlushKeepsDerived DEF Next

\* Nothing is counted, and nothing is there to count.
LEMMA DerivedInit == Init => DerivedInv
<1> SUFFICES ASSUME Init PROVE DerivedInv
  OBVIOUS
<1>1. OnWorks(stated) /\ OnWorks(credited) /\ OnWorks(indexed)
  BY DEF Init, OnWorks
<1>2. ASSUME NEW w \in Works PROVE RowsOn(w) = {}
  BY CoversAssumption DEF Init, RowsOn
<1>3. DerivedTrue
  BY <1>2 DEF DerivedTrue, Rollup, Init
<1> QED
  BY <1>1, <1>3 DEF DerivedInv

\* "A missed dirty mark is a count that stays wrong" (files.go:254): no interleaving of
\* passes, batches, flushes and faults leaves an unmarked count that its rows do not give,
\* but for the works the code is known not to mark; and a document always has the names
\* credited on its work.
THEOREM DerivedCorrect == Spec => []DerivedTrue
<1>1. DerivedInv /\ [Next]_passVars => DerivedInv'
  BY DerivedStep
<1>2. DerivedInv => DerivedTrue
  BY DEF DerivedInv
<1> QED
  BY <1>1, <1>2, DerivedInit, PTL DEF Spec
------------------------------------------------------------------------------
(* Files.                                                                    *)

Pending(n, i) == \E k \in DOMAIN todo[n] : todo[n][k] = i
InBatch(n, i) == \E k \in DOMAIN batch[n] : batch[n][k].item = i

\* The item's work has the item's files, as far as FilesMirrored promises it.
Mirrored(n, i) ==
  n \in calm /\ Alone(n, i) => {f \in FilesOf(n) : rows[f] = links[i]} = FilesHeld(i)

FileSets(n) == [item : ItemsOf(n), files : SUBSET FilesOf(n)]

FilesTyped ==
  /\ DOMAIN owner = Files /\ \A f \in Files : owner[f] \in ItemsOf(Keeper[f]) \cup {Nowhere}
  /\ DOMAIN shelf = Items /\ \A i \in Items : shelf[i] \in Cards[i] \cup {Gone}
  /\ links \in [Items -> Works \cup {NoWork}]
  /\ DOMAIN card = Items
  /\ DOMAIN phase = Instances /\ DOMAIN todo = Instances /\ DOMAIN imported = Instances
  /\ DOMAIN batch = Instances /\ DOMAIN failed = Instances
  /\ calm \subseteq Instances

\* What holds of one instance's import.
FilesOne(n) ==
  /\ imported[n] \subseteq ItemsOf(n)
  /\ \A i \in imported[n] : links[i] # NoWork /\ card[i].files \subseteq FilesOf(n)
  /\ todo[n] \in Seq(ItemsOf(n))
  /\ batch[n] \in Seq(FileSets(n))
  /\ phase[n] = "idle" => imported[n] = {}
  /\ phase[n] # "files" => batch[n] = <<>>
  /\ phase[n] = "files" =>
       /\ \A k \in DOMAIN todo[n] : todo[n][k] \in imported[n]
       /\ \A i \in imported[n] \ failed[n] : Pending(n, i) \/ InBatch(n, i) \/ Mirrored(n, i)
  /\ n \in calm =>
       /\ \A i \in imported[n] : card[i].files = FilesHeld(i)
       /\ \A k \in DOMAIN batch[n] : batch[n][k].files = FilesHeld(batch[n][k].item)
  /\ phase[n] \in {"rollups", "covers", "sweep"} =>
       \A i \in imported[n] \ failed[n] : Mirrored(n, i)

FilesInv == FilesTyped /\ \A n \in Instances : FilesOne(n)

\* An item is one instance's.
LEMMA OneKeeper ==
  ASSUME NEW m \in Instances, NEW n \in Instances, NEW i \in ItemsOf(m), i \in ItemsOf(n)
  PROVE  m = n
BY CoversAssumption

\* The files an instance's item holds are the instance's.
LEMMA HeldAreKept ==
  ASSUME FilesTyped, NEW n \in Instances, NEW i \in ItemsOf(n)
  PROVE  /\ FilesHeld(i) \subseteq FilesOf(n)
         /\ FilesHeld(i) = {f \in FilesOf(n) : owner[f] = i}
<1> SUFFICES ASSUME NEW f \in Files, owner[f] = i
             PROVE  Keeper[f] = n
  BY DEF FilesHeld, FilesOf
<1>1. i \in Items /\ i # Nowhere /\ Keeper[f] \in Instances
  BY PassesAssumption DEF Items
<1>2. i \in ItemsOf(Keeper[f])
  BY <1>1 DEF FilesTyped
<1> QED
  BY <1>1, <1>2, OneKeeper

\* Nothing of an instance's import, its links, its files or its rows changes in a step,
\* save that the instance may no longer be calm.
Untouched(n) ==
  /\ phase'[n] = phase[n] /\ imported'[n] = imported[n] /\ todo'[n] = todo[n]
  /\ batch'[n] = batch[n] /\ failed'[n] = failed[n]
  /\ \A i \in ItemsOf(n) : links'[i] = links[i] /\ card'[i] = card[i]
  /\ n \in calm' =>
       /\ n \in calm
       /\ \A f \in FilesOf(n) : owner'[f] = owner[f] /\ rows'[f] = rows[f]

\* What an item holds, and whether it is alone, is as before.
LEMMA SameHeld ==
  ASSUME FilesTyped, FilesTyped', NEW n \in Instances, NEW i \in ItemsOf(n),
         \A f \in FilesOf(n) : owner'[f] = owner[f]
  PROVE  FilesHeld(i)' = FilesHeld(i)
<1>1. FilesHeld(i) = {f \in FilesOf(n) : owner[f] = i}
  BY HeldAreKept
<1>2. FilesHeld(i)' = {f \in FilesOf(n) : owner'[f] = i}
  <2> SUFFICES ASSUME NEW f \in Files, owner'[f] = i
               PROVE  Keeper[f] = n
    BY DEF FilesHeld, FilesOf
  <2>1. i \in Items /\ i # Nowhere /\ Keeper[f] \in Instances
    BY PassesAssumption DEF Items
  <2>2. i \in ItemsOf(Keeper[f])
    BY <2>1 DEF FilesTyped
  <2> QED
    BY <2>1, <2>2, OneKeeper
<1> QED
  BY <1>1, <1>2

\* And whether its work is its own.
LEMMA SameAlone ==
  ASSUME NEW n \in Instances, NEW i \in ItemsOf(n), \A j \in ItemsOf(n) : links'[j] = links[j]
  PROVE  Alone(n, i)' <=> Alone(n, i)
BY DEF Alone

\* What was mirrored still is, when nothing it depends on changed.
LEMMA UntouchedMirrored ==
  ASSUME FilesTyped, FilesTyped', NEW n \in Instances, NEW i \in ItemsOf(n),
         \A j \in ItemsOf(n) : links'[j] = links[j],
         n \in calm' =>
           /\ n \in calm
           /\ \A f \in FilesOf(n) : owner'[f] = owner[f] /\ rows'[f] = rows[f],
         Mirrored(n, i)
  PROVE  Mirrored(n, i)'
<1> SUFFICES ASSUME n \in calm', Alone(n, i)'
             PROVE  {f \in FilesOf(n) : rows'[f] = links'[i]} = FilesHeld(i)'
  BY DEF Mirrored
<1>1. Alone(n, i)
  BY SameAlone
<1>2. FilesHeld(i)' = FilesHeld(i)
  BY SameHeld
<1>3. {f \in FilesOf(n) : rows'[f] = links'[i]} = {f \in FilesOf(n) : rows[f] = links[i]}
  OBVIOUS
<1> QED
  BY <1>1, <1>2, <1>3 DEF Mirrored

\* What a batch holds is an item of its instance and files of its instance.
LEMMA BatchEntries ==
  ASSUME NEW n \in Instances, FilesOne(n), NEW k \in DOMAIN batch[n]
  PROVE  /\ batch[n][k] \in FileSets(n)
         /\ batch[n][k].item \in ItemsOf(n) /\ batch[n][k].files \subseteq FilesOf(n)
<1>1. batch[n][k] \in FileSets(n)
  <2>1. \A T : \A s \in Seq(T) : \A j \in DOMAIN s : s[j] \in T
    OBVIOUS
  <2> QED
    BY <2>1 DEF FilesOne
<1> QED
  BY <1>1 DEF FileSets

\* An import no step touches keeps what holds of it.
LEMMA UntouchedKeeps ==
  ASSUME FilesInv, FilesTyped', NEW n \in Instances, Untouched(n)
  PROVE  FilesOne(n)'
<1>1. FilesTyped /\ FilesOne(n)
  BY DEF FilesInv
<1>2. \A i \in imported[n] : i \in ItemsOf(n)
  BY <1>1 DEF FilesOne
<1>3. \A i \in imported[n] : Mirrored(n, i) => Mirrored(n, i)'
  BY <1>1, <1>2, UntouchedMirrored DEF Untouched
<1>4. \A i : (Pending(n, i)' <=> Pending(n, i)) /\ (InBatch(n, i)' <=> InBatch(n, i))
  BY DEF Untouched, Pending, InBatch
<1>5. \A k \in DOMAIN batch[n] : batch[n][k].item \in ItemsOf(n)
  BY <1>1, BatchEntries
<1>6. n \in calm' => \A i \in ItemsOf(n) : {f \in Files : owner'[f] = i} = {f \in Files : owner[f] = i}
  BY <1>1, SameHeld DEF Untouched, FilesHeld
<1>7. /\ imported'[n] \subseteq ItemsOf(n)
      /\ \A i \in imported'[n] : links'[i] # NoWork /\ card'[i].files \subseteq FilesOf(n)
      /\ todo'[n] \in Seq(ItemsOf(n))
      /\ batch'[n] \in Seq(FileSets(n))
      /\ phase'[n] = "idle" => imported'[n] = {}
      /\ phase'[n] # "files" => batch'[n] = <<>>
  BY <1>1, <1>2 DEF FilesOne, Untouched
<1>8. phase'[n] = "files" =>
        /\ \A k \in DOMAIN todo'[n] : todo'[n][k] \in imported'[n]
        /\ \A i \in imported'[n] \ failed'[n] : Pending(n, i)' \/ InBatch(n, i)' \/ Mirrored(n, i)'
  BY <1>1, <1>3, <1>4 DEF FilesOne, Untouched
<1>9. n \in calm' =>
        /\ \A i \in imported'[n] : card'[i].files = FilesHeld(i)'
        /\ \A k \in DOMAIN batch'[n] :
             batch'[n][k].files = {f \in Files : owner'[f] = batch'[n][k].item}
  <2>1. ASSUME n \in calm', NEW i \in imported'[n]
        PROVE  card'[i].files = FilesHeld(i)'
    BY <1>1, <1>2, <1>6, <2>1 DEF FilesOne, Untouched, FilesHeld
  <2>2. ASSUME n \in calm', NEW k \in DOMAIN batch'[n]
        PROVE  batch'[n][k].files = {f \in Files : owner'[f] = batch'[n][k].item}
    <3>1. batch[n][k].files = FilesHeld(batch[n][k].item)
      BY <1>1, <2>2 DEF FilesOne, Untouched
    <3> QED
      BY <1>5, <1>6, <2>2, <3>1 DEF Untouched, FilesHeld
  <2> QED
    BY <2>1, <2>2
<1>10. phase'[n] \in {"rollups", "covers", "sweep"} =>
         \A i \in imported'[n] \ failed'[n] : Mirrored(n, i)'
  BY <1>1, <1>3 DEF FilesOne, Untouched
<1> QED
  BY <1>7, <1>8, <1>9, <1>10 DEF FilesOne, FileSets, FilesOf, ItemsOf, FilesHeld

\* Where an instance's import has not begun or has nothing any more, nothing is asked.
LEMMA ForgottenKeeps ==
  ASSUME NEW n \in Instances, phase'[n] = "idle", imported'[n] = {}, todo'[n] = <<>>,
         batch'[n] = <<>>
  PROVE  FilesOne(n)'
<1>1. todo'[n] \in Seq(ItemsOf(n)) /\ batch'[n] \in Seq(FileSets(n))
  OBVIOUS
<1>2. DOMAIN batch'[n] = {}
  OBVIOUS
<1> QED
  BY <1>1, <1>2 DEF FilesOne, FileSets, FilesOf, ItemsOf

\* The steps of the other instances, of the gate, of covers and of rollups are nothing to
\* an import's files.
LEMMA StartKeeps ==
  ASSUME FilesInv, NEW n \in Instances, NEW whole \in BOOLEAN, Start(n, whole)
  PROVE  FilesInv'
<1>0. FilesTyped /\ FilesOne(n)
  BY DEF FilesInv
<1>1. /\ phase[n] = "idle"
      /\ phase' = [phase EXCEPT ![n] = "items"] /\ todo' = [todo EXCEPT ![n] = Walk[n]]
      /\ calm' = calm \cup {n}
      /\ UNCHANGED <<shelf, owner, links, rows, imported, card, batch, failed>>
  BY DEF Start, Enter, upstream, replica
<1>2. FilesTyped'
  BY <1>0, <1>1 DEF FilesTyped
<1>3. ASSUME NEW m \in Instances, m # n
      PROVE  FilesOne(m)'
  <2>1. Untouched(m)
    BY <1>0, <1>1, <1>3 DEF Untouched, FilesTyped
  <2> QED
    BY <1>2, <2>1, UntouchedKeeps
<1>4. FilesOne(n)'
  <2>1. phase'[n] = "items" /\ todo'[n] = Walk[n]
    BY <1>0, <1>1 DEF FilesTyped
  <2>2. imported'[n] = {} /\ batch'[n] = <<>>
    BY <1>0, <1>1 DEF FilesOne
  <2>3. todo'[n] \in Seq(ItemsOf(n)) /\ batch'[n] \in Seq(FileSets(n)) /\ DOMAIN batch'[n] = {}
    BY <2>1, <2>2, CoversAssumption DEF ItemsOf
  <2> QED
    BY <2>1, <2>2, <2>3 DEF FilesOne, FileSets, FilesOf, ItemsOf
<1> QED
  BY <1>2, <1>3, <1>4 DEF FilesInv

\* Going on in a phase, or to the next.
LEMMA ProceedTo ==
  ASSUME FilesTyped, NEW n \in Instances, NEW next, NEW items, Proceed(n, next, items),
         todo[n] \in Seq(ItemsOf(n)), todo[n] # <<>>
  PROVE  /\ DOMAIN phase' = Instances /\ DOMAIN todo' = Instances
         /\ \A m \in Instances \ {n} : phase'[m] = phase[m] /\ todo'[m] = todo[m]
         /\ \/ Len(todo[n]) = 1 /\ phase'[n] = next /\ todo'[n] = items
            \/ Len(todo[n]) # 1 /\ phase'[n] = phase[n] /\ todo'[n] = Tail(todo[n])
<1>1. CASE Len(todo[n]) = 1
  <2>1. phase' = [phase EXCEPT ![n] = next] /\ todo' = [todo EXCEPT ![n] = items]
    BY <1>1 DEF Proceed, Enter
  <2> QED
    BY <1>1, <2>1 DEF FilesTyped
<1>2. CASE Len(todo[n]) # 1
  <2>1. phase' = phase /\ todo' = [todo EXCEPT ![n] = Tail(todo[n])]
    BY <1>2 DEF Proceed
  <2> QED
    BY <1>2, <2>1 DEF FilesTyped
<1> QED
  BY <1>1, <1>2

\* What is left of a sequence without its head.
LEMMA TailLeft ==
  ASSUME NEW T, NEW s \in Seq(T), s # <<>>
  PROVE  /\ Head(s) \in T /\ 1 \in DOMAIN s /\ Head(s) = s[1] /\ Tail(s) \in Seq(T)
         /\ \A x : (\E k \in DOMAIN s : s[k] = x)
                     <=> x = Head(s) \/ \E k \in DOMAIN Tail(s) : Tail(s)[k] = x
<1>1. /\ Head(s) = s[1] /\ Head(s) \in T /\ Tail(s) \in Seq(T) /\ Len(s) \in Nat \ {0}
      /\ DOMAIN s = 1 .. Len(s) /\ DOMAIN Tail(s) = 1 .. Len(s) - 1
      /\ \A k \in 1 .. Len(s) - 1 : Tail(s)[k] = s[k + 1]
  OBVIOUS
<1>2. ASSUME NEW k \in DOMAIN s
      PROVE  k = 1 \/ (k - 1 \in DOMAIN Tail(s) /\ Tail(s)[k - 1] = s[k])
  BY <1>1
<1>3. ASSUME NEW k \in DOMAIN Tail(s)
      PROVE  k + 1 \in DOMAIN s /\ s[k + 1] = Tail(s)[k]
  BY <1>1
<1>4. 1 \in DOMAIN s
  BY <1>1
<1> QED
  BY <1>1, <1>2, <1>3, <1>4

\* What a pass asks for is what the import wrote.
LEMMA RequestsAre ==
  ASSUME NEW n \in Instances, NEW items \in SUBSET ItemsOf(n)
  PROVE  /\ Requests(n, items) \in Seq(ItemsOf(n))
         /\ \A i : (\E k \in DOMAIN Requests(n, items) : Requests(n, items)[k] = i)
                     <=> i \in items
<1>1. Walk[n] \in Seq(ItemsOf(n)) /\ DOMAIN Walk[n] = 1 .. Len(Walk[n])
  BY CoversAssumption DEF ItemsOf
<1>2. \A i \in ItemsOf(n) : \E k \in 1 .. Len(Walk[n]) : Walk[n][k] = i
  BY <1>1 DEF ItemsOf, Range
<1>3. /\ Requests(n, items) \in Seq(ItemsOf(n))
      /\ Chosen(Walk[n], items, Len(Walk[n]), Requests(n, items))
  BY <1>1, SelectedEntries DEF Requests
<1> QED
  BY <1>2, <1>3 DEF Chosen

\* An item's links and card are its own import's to change.
LEMMA ImportItemKeeps ==
  ASSUME FilesInv, NEW n \in Instances, ImportItem(n)
  PROVE  FilesInv'
<1> DEFINE i == NextItem(n)
<1>0. FilesTyped /\ FilesOne(n)
  BY DEF FilesInv
<1>1. /\ phase[n] = "items" /\ todo[n] # <<>> /\ todo[n] \in Seq(ItemsOf(n))
      /\ UNCHANGED <<shelf, owner, rows, batch, failed, calm>>
  BY <1>0 DEF ImportItem, Reading, FilesOne, upstream, history
<1>2. i \in ItemsOf(n) /\ i \in Items
  BY <1>1, TailLeft DEF NextItem, Items
<1>3. /\ DOMAIN links' = Items /\ links' \in [Items -> Works \cup {NoWork}]
      /\ DOMAIN imported' = Instances /\ DOMAIN card' = Items
      /\ \A j \in Items \ {i} : links'[j] = links[j] /\ card'[j] = card[j]
      /\ \A m \in Instances \ {n} : imported'[m] = imported[m]
      /\ \/ /\ links'[i] # NoWork /\ card'[i].files = FilesHeld(i)
            /\ imported'[n] = imported[n] \cup {i}
         \/ UNCHANGED <<links, imported, card>>
  <2>1. CASE /\ shelf[i] # Gone
             /\ links' = [links EXCEPT ![i] = shelf[i].work]
             /\ imported' = [imported EXCEPT ![n] = imported[n] \cup {i}]
             /\ card' = [card EXCEPT ![i] = [meta |-> shelf[i].meta, files |-> FilesHeld(i)]]
    <3>1. shelf[i].work \in Works
      BY <1>0, <1>2, <2>1, PassesAssumption DEF FilesTyped
    <3>2. shelf[i].work # NoWork
      BY <3>1, CoversAssumption
    <3>3. links' \in [Items -> Works \cup {NoWork}] /\ links'[i] # NoWork
          /\ \A j \in Items \ {i} : links'[j] = links[j]
      BY <1>0, <1>2, <2>1, <3>1, <3>2 DEF FilesTyped
    <3>4. /\ DOMAIN card' = Items /\ card'[i].files = FilesHeld(i)
          /\ \A j \in Items \ {i} : card'[j] = card[j]
      BY <1>0, <1>2, <2>1 DEF FilesTyped
    <3>5. /\ DOMAIN imported' = Instances /\ imported'[n] = imported[n] \cup {i}
          /\ \A m \in Instances \ {n} : imported'[m] = imported[m]
      BY <1>0, <2>1 DEF FilesTyped
    <3> QED
      BY <3>3, <3>4, <3>5
  <2>2. CASE UNCHANGED <<links, imported, card>>
    BY <1>0, <2>2 DEF FilesTyped
  <2> QED
    BY <2>1, <2>2 DEF ImportItem
<1>4. /\ imported'[n] \subseteq ItemsOf(n)
      /\ \A j \in imported'[n] : links'[j] # NoWork /\ card'[j].files \subseteq FilesOf(n)
      /\ n \in calm => \A j \in imported'[n] : card'[j].files = FilesHeld(j)
  <2>1. FilesHeld(i) \subseteq FilesOf(n)
    BY <1>0, <1>2, HeldAreKept
  <2>2. \A j \in imported[n] : j \in ItemsOf(n) /\ j \in Items
    BY <1>0 DEF FilesOne, Items
  <2>3. \A j \in imported[n] : links[j] # NoWork /\ card[j].files \subseteq FilesOf(n)
    BY <1>0 DEF FilesOne
  <2>4. n \in calm => \A j \in imported[n] : card[j].files = FilesHeld(j)
    BY <1>0 DEF FilesOne
  <2>5. \A j \in imported'[n] : j = i \/ j \in imported[n]
    BY <1>3
  <2>6. \A j \in imported'[n] :
          /\ links'[j] # NoWork /\ card'[j].files \subseteq FilesOf(n)
          /\ n \in calm => card'[j].files = FilesHeld(j)
    <3>1. CASE UNCHANGED <<links, imported, card>>
      BY <2>3, <2>4, <3>1
    <3>2. CASE links'[i] # NoWork /\ card'[i].files = FilesHeld(i)
      <4> SUFFICES ASSUME NEW j \in imported'[n]
                   PROVE  /\ links'[j] # NoWork /\ card'[j].files \subseteq FilesOf(n)
                          /\ n \in calm => card'[j].files = FilesHeld(j)
        OBVIOUS
      <4>1. CASE j = i
        BY <2>1, <3>2, <4>1
      <4>2. CASE j # i
        <5>1. links'[j] = links[j] /\ card'[j] = card[j] /\ j \in imported[n]
          BY <1>3, <2>2, <2>5, <4>2
        <5> QED
          BY <2>3, <2>4, <5>1
      <4> QED
        BY <4>1, <4>2
    <3> QED
      BY <1>3, <3>1, <3>2
  <2> QED
    BY <1>2, <2>2, <2>5, <2>6
<1>5. /\ DOMAIN phase' = Instances /\ DOMAIN todo' = Instances
      /\ \A m \in Instances \ {n} : phase'[m] = phase[m] /\ todo'[m] = todo[m]
      /\ todo'[n] \in Seq(ItemsOf(n))
      /\ phase'[n] \in {"items", "credits", "rollups"}
      /\ phase'[n] = "rollups" => imported'[n] = {}
  <2>1. Tail(todo[n]) \in Seq(ItemsOf(n)) /\ <<>> \in Seq(ItemsOf(n))
    BY <1>1, TailLeft
  <2>2. CASE imported'[n] = {} /\ Proceed(n, "rollups", <<>>)
    <3>1. /\ DOMAIN phase' = Instances /\ DOMAIN todo' = Instances
          /\ \A m \in Instances \ {n} : phase'[m] = phase[m] /\ todo'[m] = todo[m]
          /\ \/ phase'[n] = "rollups" /\ todo'[n] = <<>>
             \/ phase'[n] = "items" /\ todo'[n] = Tail(todo[n])
      BY <1>0, <1>1, <2>2, ProceedTo
    <3> QED
      BY <2>1, <2>2, <3>1
  <2>3. CASE Proceed(n, "credits", Requests(n, imported'[n]))
    <3>1. Requests(n, imported'[n]) \in Seq(ItemsOf(n))
      BY <1>4, RequestsAre
    <3> DEFINE asked == Requests(n, imported'[n])
    <3> HIDE DEF asked
    <3>2. Proceed(n, "credits", asked) /\ asked \in Seq(ItemsOf(n))
      BY <2>3, <3>1 DEF asked
    <3>3. /\ DOMAIN phase' = Instances /\ DOMAIN todo' = Instances
          /\ \A m \in Instances \ {n} : phase'[m] = phase[m] /\ todo'[m] = todo[m]
          /\ \/ phase'[n] = "credits" /\ todo'[n] = asked
             \/ phase'[n] = "items" /\ todo'[n] = Tail(todo[n])
      BY <1>0, <1>1, <3>2, ProceedTo
    <3> QED
      BY <2>1, <3>2, <3>3
  <2> QED
    BY <2>2, <2>3 DEF ImportItem
<1>6. FilesTyped'
  BY <1>0, <1>1, <1>3, <1>5 DEF FilesTyped
<1>7. ASSUME NEW m \in Instances, m # n
      PROVE  FilesOne(m)'
  <2>1. \A j \in ItemsOf(m) : j \in Items /\ j # i
    BY <1>2, <1>7, OneKeeper DEF Items
  <2>2. Untouched(m)
    BY <1>1, <1>3, <1>5, <1>7, <2>1 DEF Untouched
  <2> QED
    BY <1>6, <2>2, UntouchedKeeps
<1>8. FilesOne(n)'
  <2>1. batch'[n] = <<>>
    BY <1>0, <1>1 DEF FilesOne
  <2>2. batch'[n] \in Seq(FileSets(n)) /\ DOMAIN batch'[n] = {}
    BY <2>1
  <2>3. n \in calm' => \A j \in imported'[n] : card'[j].files = {f \in Files : owner'[f] = j}
    BY <1>1, <1>4 DEF FilesHeld
  <2> QED
    BY <1>4, <1>5, <2>1, <2>2, <2>3 DEF FilesOne, FileSets, FilesOf, ItemsOf, FilesHeld
<1> QED
  BY <1>6, <1>7, <1>8 DEF FilesInv

\* A credits pass asks, and its end asks for the files of all that was imported.
LEMMA CreditKeeps ==
  ASSUME FilesInv, NEW n \in Instances, Reading(n, "credits"),
         Proceed(n, "files", Requests(n, imported[n])),
         UNCHANGED <<shelf, owner, rows, links, imported, card, batch, failed, calm>>
  PROVE  FilesInv'
<1> DEFINE asked == Requests(n, imported[n])
<1>0. FilesTyped /\ FilesOne(n)
  BY DEF FilesInv
<1>1. phase[n] = "credits" /\ todo[n] # <<>> /\ todo[n] \in Seq(ItemsOf(n))
  BY <1>0 DEF Reading, FilesOne
<1>2. /\ asked \in Seq(ItemsOf(n))
      /\ \A i : (\E k \in DOMAIN asked : asked[k] = i) <=> i \in imported[n]
  BY <1>0, RequestsAre DEF FilesOne
<1> HIDE DEF asked
<1>3. Proceed(n, "files", asked)
  BY DEF asked
<1>4. /\ DOMAIN phase' = Instances /\ DOMAIN todo' = Instances
      /\ \A m \in Instances \ {n} : phase'[m] = phase[m] /\ todo'[m] = todo[m]
      /\ \/ phase'[n] = "files" /\ todo'[n] = asked
         \/ phase'[n] = "credits" /\ todo'[n] = Tail(todo[n])
  BY <1>0, <1>1, <1>3, ProceedTo
<1>5. FilesTyped'
  BY <1>0, <1>4 DEF FilesTyped
<1>6. ASSUME NEW m \in Instances, m # n
      PROVE  FilesOne(m)'
  <2>1. Untouched(m)
    BY <1>4, <1>6 DEF Untouched
  <2> QED
    BY <1>5, <2>1, UntouchedKeeps
<1>7. FilesOne(n)'
  <2>1. Tail(todo[n]) \in Seq(ItemsOf(n))
    BY <1>1, TailLeft
  <2>2. todo'[n] \in Seq(ItemsOf(n)) /\ phase'[n] \in {"files", "credits"}
    BY <1>2, <1>4, <2>1
  <2>3. batch'[n] = <<>> /\ batch'[n] \in Seq(FileSets(n)) /\ DOMAIN batch'[n] = {}
    BY <1>0, <1>1 DEF FilesOne
  <2>4. phase'[n] = "files" =>
          /\ \A k \in DOMAIN todo'[n] : todo'[n][k] \in imported'[n]
          /\ \A i \in imported'[n] : Pending(n, i)'
    BY <1>2, <1>4 DEF Pending
  <2>5. /\ \A i \in imported'[n] : links'[i] # NoWork /\ card'[i].files \subseteq FilesOf(n)
        /\ imported'[n] \subseteq ItemsOf(n)
        /\ n \in calm' => \A i \in imported'[n] : card'[i].files = {f \in Files : owner'[f] = i}
    BY <1>0 DEF FilesOne, FilesHeld
  <2> QED
    BY <2>2, <2>3, <2>4, <2>5 DEF FilesOne, FileSets, FilesOf, ItemsOf, FilesHeld
<1> QED
  BY <1>5, <1>6, <1>7 DEF FilesInv

\* One more entry of a sequence.
LEMMA AppendedEntries ==
  ASSUME NEW T, NEW s \in Seq(T), NEW e \in T
  PROVE  /\ Append(s, e) \in Seq(T)
         /\ \A k \in DOMAIN s : k \in DOMAIN Append(s, e) /\ Append(s, e)[k] = s[k]
         /\ Len(s) + 1 \in DOMAIN Append(s, e) /\ Append(s, e)[Len(s) + 1] = e
         /\ \A k \in DOMAIN Append(s, e) : k \in DOMAIN s \/ k = Len(s) + 1
OBVIOUS

\* A step that changes neither links, files, rows nor who is calm leaves what is mirrored.
LEMMA SameMirrored ==
  ASSUME NEW n, NEW i, UNCHANGED <<links, owner, rows, calm>>, Mirrored(n, i)
  PROVE  Mirrored(n, i)'
BY DEF Mirrored, Alone, FilesOf, FilesHeld, ItemsOf

\* What a phase has still to read, once it has read the next.
LEMMA TodoLeft ==
  ASSUME NEW n \in Instances, todo[n] \in Seq(ItemsOf(n)), todo[n] # <<>>
  PROVE  /\ NextItem(n) \in ItemsOf(n)
         /\ \E k \in DOMAIN todo[n] : todo[n][k] = NextItem(n)
         /\ Tail(todo[n]) \in Seq(ItemsOf(n))
         /\ Len(todo[n]) = 1 => Tail(todo[n]) = <<>>
         /\ \A j : Pending(n, j)
                     <=> j = NextItem(n) \/ \E k \in DOMAIN Tail(todo[n]) : Tail(todo[n])[k] = j
<1> DEFINE s == todo[n]
<1> HIDE DEF s
<1>1. s \in Seq(ItemsOf(n)) /\ s # <<>>
  BY DEF s
<1>2. /\ Head(s) \in ItemsOf(n) /\ 1 \in DOMAIN s /\ Head(s) = s[1] /\ Tail(s) \in Seq(ItemsOf(n))
      /\ \A x : (\E k \in DOMAIN s : s[k] = x)
                  <=> x = Head(s) \/ \E k \in DOMAIN Tail(s) : Tail(s)[k] = x
  BY <1>1, TailLeft
<1>3. Len(s) = 1 => Len(Tail(s)) = 0
  BY <1>1
<1>4. Len(s) = 1 => Tail(s) = <<>>
  BY <1>2, <1>3, EmptySeq
<1> QED
  BY <1>2, <1>4 DEF s, Pending, NextItem

\* A walk that answers puts what its item has into the batch.
LEMMA WalkFilesKeeps ==
  ASSUME FilesInv, NEW n \in Instances, WalkFiles(n)
  PROVE  FilesInv'
<1> DEFINE i == NextItem(n)
           files == IF n \in Kavita THEN fileSetFromVolumes(i) ELSE fileSetFromCard(i)
           e == [item |-> i, files |-> files]
<1>0. FilesTyped /\ FilesOne(n)
  BY DEF FilesInv
<1>1. /\ phase[n] = "files" /\ todo[n] # <<>> /\ todo[n] \in Seq(ItemsOf(n))
      /\ batch' = [batch EXCEPT ![n] = Append(batch[n], e)]
      /\ todo' = [todo EXCEPT ![n] = Tail(todo[n])]
      /\ UNCHANGED <<shelf, owner, rows, links, phase, imported, card, failed, calm>>
  BY <1>0 DEF WalkFiles, Reading, FilesOne, upstream, replica, history
<1>2. i \in ItemsOf(n) /\ i \in imported[n]
  BY <1>0, <1>1, TodoLeft DEF FilesOne
<1>3. files \subseteq FilesOf(n) /\ (n \in calm => files = FilesHeld(i))
  BY <1>0, <1>2, HeldAreKept DEF FilesOne, fileSetFromVolumes, fileSetFromCard
<1> HIDE DEF files
<1>4. e \in FileSets(n) /\ e.item = i /\ e.files = files
  BY <1>2, <1>3 DEF FileSets
<1> HIDE DEF e, i
<1>5. batch[n] \in Seq(FileSets(n))
  BY <1>0 DEF FilesOne
<1>6. batch'[n] = Append(batch[n], e) /\ todo'[n] = Tail(todo[n])
  BY <1>0, <1>1 DEF FilesTyped
<1>7. FilesTyped'
  BY <1>0, <1>1 DEF FilesTyped
<1>8. ASSUME NEW m \in Instances, m # n
      PROVE  FilesOne(m)'
  <2>1. Untouched(m)
    BY <1>0, <1>1, <1>8 DEF Untouched, FilesTyped
  <2> QED
    BY <1>7, <2>1, UntouchedKeeps
<1>9. FilesOne(n)'
  <2>1. batch'[n] \in Seq(FileSets(n))
    BY <1>4, <1>5, <1>6, AppendedEntries
  <2>2. todo'[n] \in Seq(ItemsOf(n)) /\ \A k \in DOMAIN todo'[n] : todo'[n][k] \in imported'[n]
    <3>1. \A k \in DOMAIN todo[n] : todo[n][k] \in imported[n]
      BY <1>0, <1>1 DEF FilesOne
    <3>2. /\ Tail(todo[n]) \in Seq(ItemsOf(n))
          /\ \A k \in DOMAIN Tail(todo[n]) : Pending(n, Tail(todo[n])[k])
      BY <1>1, TodoLeft
    <3> QED
      BY <1>1, <1>6, <3>1, <3>2 DEF Pending
  <2>3. ASSUME NEW j \in imported'[n] \ failed'[n]
        PROVE  Pending(n, j)' \/ InBatch(n, j)' \/ Mirrored(n, j)'
    <3>1. Pending(n, j) \/ InBatch(n, j) \/ Mirrored(n, j)
      BY <1>0, <1>1, <2>3 DEF FilesOne
    <3>2. CASE Mirrored(n, j)
      BY <1>1, <3>2, SameMirrored
    <3>3. CASE InBatch(n, j)
      BY <1>4, <1>5, <1>6, <3>3, AppendedEntries DEF InBatch
    <3>4. CASE Pending(n, j) /\ j # i
      <4>1. \E k \in DOMAIN Tail(todo[n]) : Tail(todo[n])[k] = j
        BY <1>1, <3>4, TodoLeft DEF i
      <4> QED
        BY <1>6, <4>1 DEF Pending
    <3>5. CASE j = i
      BY <1>4, <1>5, <1>6, <3>5, AppendedEntries DEF InBatch
    <3> QED
      BY <3>1, <3>2, <3>3, <3>4, <3>5
  <2>4. ASSUME n \in calm', NEW k \in DOMAIN batch'[n]
        PROVE  batch'[n][k].files = {f \in Files : owner'[f] = batch'[n][k].item}
    <3>1. CASE k \in DOMAIN batch[n]
      <4>1. batch'[n][k] = batch[n][k]
        BY <1>4, <1>5, <1>6, <3>1, AppendedEntries
      <4> QED
        BY <1>0, <1>1, <2>4, <3>1, <4>1 DEF FilesOne, FilesHeld
    <3>2. CASE k = Len(batch[n]) + 1
      <4>1. batch'[n][k] = e
        BY <1>4, <1>5, <1>6, <3>2, AppendedEntries
      <4> QED
        BY <1>1, <1>3, <1>4, <2>4, <4>1 DEF FilesHeld
    <3> QED
      BY <1>4, <1>5, <1>6, <3>1, <3>2, <2>4, AppendedEntries
  <2>5. /\ \A j \in imported'[n] : links'[j] # NoWork /\ card'[j].files \subseteq FilesOf(n)
        /\ imported'[n] \subseteq ItemsOf(n)
        /\ n \in calm' => \A j \in imported'[n] : card'[j].files = {f \in Files : owner'[f] = j}
    BY <1>0, <1>1 DEF FilesOne, FilesHeld
  <2>6. phase'[n] = "files"
    BY <1>1
  <2> QED
    BY <2>1, <2>2, <2>3, <2>4, <2>5, <2>6 DEF FilesOne, FileSets, FilesOf, ItemsOf, FilesHeld
<1> QED
  BY <1>7, <1>8, <1>9 DEF FilesInv

\* A walk that failed leaves its item with the files it had.
LEMMA DropWalkKeeps ==
  ASSUME FilesInv, NEW n \in Instances, DropWalk(n)
  PROVE  FilesInv'
<1> DEFINE i == NextItem(n)
<1>0. FilesTyped /\ FilesOne(n)
  BY DEF FilesInv
<1>1. /\ phase[n] = "files" /\ todo[n] # <<>> /\ todo[n] \in Seq(ItemsOf(n))
      /\ failed' = [failed EXCEPT ![n] = failed[n] \cup {i}]
      /\ UNCHANGED <<shelf, owner, rows, links, imported, card, batch, calm>>
  BY <1>0 DEF DropWalk, Reading, FilesOne, upstream, replica, history
<1>2. /\ DOMAIN phase' = Instances /\ DOMAIN todo' = Instances
      /\ \A m \in Instances \ {n} : phase'[m] = phase[m] /\ todo'[m] = todo[m]
      /\ \/ /\ batch[n] = <<>> /\ Tail(todo[n]) = <<>>
            /\ phase'[n] = "rollups" /\ todo'[n] = <<>>
         \/ phase'[n] = "files" /\ todo'[n] = Tail(todo[n])
  <2>1. CASE batch[n] = <<>> /\ Proceed(n, "rollups", <<>>)
    <3>1. Len(todo[n]) = 1 => Tail(todo[n]) = <<>>
      BY <1>1, TodoLeft
    <3> QED
      BY <1>0, <1>1, <2>1, <3>1, ProceedTo
  <2>2. CASE todo' = [todo EXCEPT ![n] = Tail(todo[n])] /\ UNCHANGED phase
    BY <1>0, <1>1, <2>2 DEF FilesTyped
  <2> QED
    BY <2>1, <2>2 DEF DropWalk
<1>3. FilesTyped' /\ failed'[n] = failed[n] \cup {i}
  BY <1>0, <1>1, <1>2 DEF FilesTyped
<1>4. ASSUME NEW m \in Instances, m # n
      PROVE  FilesOne(m)'
  <2>1. failed'[m] = failed[m]
    BY <1>0, <1>1, <1>4 DEF FilesTyped
  <2>2. Untouched(m)
    BY <1>1, <1>2, <1>4, <2>1 DEF Untouched
  <2> QED
    BY <1>3, <2>2, UntouchedKeeps
<1>5. FilesOne(n)'
  <2>1. Tail(todo[n]) \in Seq(ItemsOf(n)) /\ todo'[n] \in Seq(ItemsOf(n))
    BY <1>1, <1>2, TodoLeft
  <2>2. \A k \in DOMAIN Tail(todo[n]) : Tail(todo[n])[k] \in imported'[n]
    <3>1. \A k \in DOMAIN todo[n] : todo[n][k] \in imported[n]
      BY <1>0, <1>1 DEF FilesOne
    <3>2. \A k \in DOMAIN Tail(todo[n]) : Pending(n, Tail(todo[n])[k])
      BY <1>1, TodoLeft
    <3> QED
      BY <1>1, <3>1, <3>2 DEF Pending
  <2>3. ASSUME NEW j \in imported'[n] \ failed'[n]
        PROVE  \/ \E k \in DOMAIN Tail(todo[n]) : Tail(todo[n])[k] = j
               \/ InBatch(n, j) \/ Mirrored(n, j)'
    <3>1. j \in imported[n] \ failed[n] /\ j # i
      BY <1>1, <1>3, <2>3
    <3>2. Pending(n, j) \/ InBatch(n, j) \/ Mirrored(n, j)
      BY <1>0, <1>1, <3>1 DEF FilesOne
    <3>3. Pending(n, j) => \E k \in DOMAIN Tail(todo[n]) : Tail(todo[n])[k] = j
      BY <1>1, <3>1, TodoLeft
    <3> QED
      BY <1>1, <3>2, <3>3, SameMirrored
  <2>4. /\ \A j \in imported'[n] : links'[j] # NoWork /\ card'[j].files \subseteq FilesOf(n)
        /\ imported'[n] \subseteq ItemsOf(n)
        /\ batch'[n] \in Seq(FileSets(n))
        /\ n \in calm' =>
             /\ \A j \in imported'[n] : card'[j].files = {f \in Files : owner'[f] = j}
             /\ \A k \in DOMAIN batch'[n] :
                  batch'[n][k].files = {f \in Files : owner'[f] = batch'[n][k].item}
    BY <1>0, <1>1 DEF FilesOne, FilesHeld
  <2>5. CASE batch[n] = <<>> /\ Tail(todo[n]) = <<>> /\ phase'[n] = "rollups" /\ todo'[n] = <<>>
    <3>1. DOMAIN Tail(todo[n]) = {} /\ DOMAIN batch[n] = {} /\ batch'[n] = <<>>
      BY <1>1, <2>5
    <3>2. \A j \in imported'[n] \ failed'[n] : Mirrored(n, j)'
      BY <2>3, <3>1 DEF InBatch
    <3> QED
      BY <2>1, <2>4, <2>5, <3>1, <3>2 DEF FilesOne, FileSets, FilesOf, ItemsOf, FilesHeld
  <2>6. CASE phase'[n] = "files" /\ todo'[n] = Tail(todo[n])
    <3>1. \A j \in imported'[n] \ failed'[n] : Pending(n, j)' \/ InBatch(n, j)' \/ Mirrored(n, j)'
      BY <1>1, <2>3, <2>6 DEF Pending, InBatch
    <3> QED
      BY <2>1, <2>2, <2>4, <2>6, <3>1 DEF FilesOne, FileSets, FilesOf, ItemsOf, FilesHeld
  <2> QED
    BY <1>2, <2>5, <2>6
<1> QED
  BY <1>3, <1>4, <1>5 DEF FilesInv

\* The sets of a call that hold a file, and whose item has a live link.
Holding(sets, f) == {k \in Resolved(sets) : f \in sets[k].files}

\* A file is claimed when such a set is there, and then by the work of one.
LEMMA ClaimantsOf ==
  ASSUME NEW T, NEW sets \in Seq(T), NEW f
  PROVE  /\ Holding(sets, f) # {} => Claimants(sets, f) # {}
         /\ \A u \in Claimants(sets, f) : \E k \in Holding(sets, f) : u = links[sets[k].item]
<1>1. Claimants(sets, f) =
        {links[sets[k].item] : k \in {m \in Holding(sets, f) : \A j \in Holding(sets, f) : j =< m}}
  BY DEF Claimants, Holding
<1>2. ASSUME Holding(sets, f) # {}
      PROVE  \E m \in Holding(sets, f) : \A j \in Holding(sets, f) : j =< m
  <2> DEFINE N == Len(sets)
             after == {N - k : k \in Holding(sets, f)}
  <2>1. N \in Nat /\ \A k \in Holding(sets, f) : k \in 1 .. N
    BY DEF Holding, Resolved
  <2>2. after \in SUBSET Nat /\ after # {}
    BY <1>2, <2>1
  <2>3. PICK d \in after : \A e \in after : d =< e
    BY <2>2, LeastOne
  <2>4. PICK m \in Holding(sets, f) : d = N - m
    BY <2>3
  <2>5. ASSUME NEW j \in Holding(sets, f)
        PROVE  j =< m
    <3>1. N - m =< N - j
      BY <2>3, <2>4
    <3> QED
      BY <2>1, <3>1
  <2> QED
    BY <2>5
<1> QED
  BY <1>1, <1>2

\* The row of a file the call does not hold, and whose keeper is another instance.
LEMMA OthersRowsStay ==
  ASSUME FilesInv, NEW m \in Instances, NEW n \in Instances, m # n, NEW f \in FilesOf(m)
  PROVE  RowsAfter(n, batch[n], f) = rows[f]
<1>1. f \in Files /\ Keeper[f] # n
  BY DEF FilesOf
<1>2. batch[n] \in Seq(FileSets(n)) /\ FilesOne(n)
  BY DEF FilesInv, FilesOne
<1>3. Holding(batch[n], f) = {}
  BY <1>1, <1>2, BatchEntries DEF Holding, Resolved, FilesOf
<1>4. Claimants(batch[n], f) = {}
  BY <1>2, <1>3, ClaimantsOf
<1> QED
  BY <1>1, <1>4 DEF RowsAfter

\* The heart of it: one call of ApplyFiles mirrors the items it holds, and leaves the
\* others of the instance mirrored.
LEMMA ApplyMirrors ==
  ASSUME FilesInv, NEW n \in Instances, n \in calm, NEW i \in imported[n], Alone(n, i),
         InBatch(n, i) \/ {f \in FilesOf(n) : rows[f] = links[i]} = FilesHeld(i)
  PROVE  {f \in FilesOf(n) : RowsAfter(n, batch[n], f) = links[i]} = FilesHeld(i)
<1> DEFINE sets == batch[n]
           w == links[i]
<1>0. FilesTyped /\ FilesOne(n)
  BY DEF FilesInv
<1>1. /\ i \in ItemsOf(n) /\ w # NoWork /\ FilesHeld(i) \subseteq FilesOf(n)
      /\ sets \in Seq(FileSets(n))
  BY <1>0, HeldAreKept DEF FilesOne
<1>2. ASSUME NEW k \in DOMAIN sets
      PROVE  /\ sets[k].files = FilesHeld(sets[k].item)
             /\ links[sets[k].item] = w => sets[k].item = i
  <2>1. sets[k].item \in ItemsOf(n)
    BY <1>0, BatchEntries
  <2>2. sets[k].files = FilesHeld(sets[k].item)
    BY <1>0 DEF FilesOne
  <2> QED
    BY <2>1, <2>2 DEF Alone
<1>3. ASSUME NEW f \in FilesHeld(i), NEW u \in Claimants(sets, f)
      PROVE  u = w
  <2>1. PICK k \in Holding(sets, f) : u = links[sets[k].item]
    BY <1>1, <1>3, ClaimantsOf
  <2>2. k \in DOMAIN sets /\ f \in sets[k].files
    BY DEF Holding, Resolved
  <2>3. f \in FilesHeld(sets[k].item)
    BY <1>2, <2>2
  <2>4. sets[k].item = i
    BY <2>3 DEF FilesHeld
  <2> QED
    BY <2>1, <2>4
<1>4. ASSUME NEW f, w \in Claimants(sets, f)
      PROVE  f \in FilesHeld(i)
  <2>1. PICK k \in Holding(sets, f) : w = links[sets[k].item]
    BY <1>1, <1>4, ClaimantsOf
  <2>2. k \in DOMAIN sets /\ f \in sets[k].files
    BY DEF Holding, Resolved
  <2> QED
    BY <1>2, <2>1, <2>2
<1>5. Kept(sets, w) \subseteq FilesHeld(i) /\ (w \in Touched(sets) => FilesHeld(i) \subseteq Kept(sets, w))
  <2>1. ASSUME NEW f \in Kept(sets, w)
        PROVE  f \in FilesHeld(i)
    <3>1. PICK k \in Resolved(sets) : links[sets[k].item] = w /\ f \in sets[k].files
      BY DEF Kept
    <3>2. k \in DOMAIN sets
      BY DEF Resolved
    <3> QED
      BY <1>2, <3>1, <3>2
  <2>2. ASSUME w \in Touched(sets), NEW f \in FilesHeld(i)
        PROVE  f \in Kept(sets, w)
    <3>1. PICK k \in Resolved(sets) : links[sets[k].item] = w
      BY <2>2 DEF Touched
    <3>2. k \in DOMAIN sets
      BY DEF Resolved
    <3>3. f \in sets[k].files
      BY <1>2, <2>2, <3>1, <3>2
    <3> QED
      BY <3>1, <3>3 DEF Kept
  <2> QED
    BY <2>1, <2>2
<1>6. ASSUME InBatch(n, i)
      PROVE  /\ w \in Touched(sets)
             /\ \A f \in FilesHeld(i) : Claimants(sets, f) # {}
  <2>1. PICK k \in DOMAIN sets : sets[k].item = i
    BY <1>6 DEF InBatch
  <2>2. k \in Resolved(sets) /\ sets[k].files = FilesHeld(i)
    BY <1>1, <1>2, <2>1 DEF Resolved
  <2>3. \A f \in FilesHeld(i) : k \in Holding(sets, f)
    BY <2>2 DEF Holding
  <2> QED
    BY <1>1, <2>1, <2>2, <2>3, ClaimantsOf DEF Touched
<1> HIDE DEF sets, w
<1>7. ASSUME NEW f \in FilesHeld(i)
      PROVE  RowsAfter(n, sets, f) = w
  <2>1. CASE Claimants(sets, f) # {}
    <3>1. (CHOOSE u \in Claimants(sets, f) : TRUE) = w
      BY <1>3, <1>7, <2>1
    <3> QED
      BY <1>5, <1>7, <2>1, <3>1 DEF RowsAfter
  <2>2. CASE Claimants(sets, f) = {}
    <3>1. f \in FilesOf(n) /\ rows[f] = w
      BY <1>1, <1>6, <1>7, <2>2 DEF w
    <3> QED
      BY <1>5, <1>7, <2>2, <3>1 DEF RowsAfter
  <2> QED
    BY <2>1, <2>2
<1>8. ASSUME NEW f \in FilesOf(n), RowsAfter(n, sets, f) = w
      PROVE  f \in FilesHeld(i)
  <2> SUFFICES ASSUME f \notin FilesHeld(i) PROVE FALSE
    OBVIOUS
  <2>1. Keeper[f] = n /\ w \notin Claimants(sets, f) /\ f \notin Kept(sets, w)
    BY <1>4, <1>5 DEF FilesOf
  <2>2. CASE Claimants(sets, f) # {}
    <3>1. (CHOOSE u \in Claimants(sets, f) : TRUE) \in Claimants(sets, f)
      BY <2>2
    <3> QED
      BY <1>1, <1>8, <2>1, <2>2, <3>1 DEF RowsAfter
  <2>3. CASE Claimants(sets, f) = {}
    <3>1. rows[f] = w /\ w \notin Touched(sets)
      BY <1>1, <1>8, <2>1, <2>3 DEF RowsAfter
    <3>2. ~ InBatch(n, i)
      BY <1>6, <3>1
    <3> QED
      BY <1>8, <3>1, <3>2 DEF w
  <2> QED
    BY <2>2, <2>3
<1> QED
  BY <1>1, <1>7, <1>8 DEF sets, w

\* The call of one instance mirrors its items and touches no other's.
LEMMA ApplyFilesKeeps ==
  ASSUME FilesInv, NEW n \in Instances, ApplyFiles(n)
  PROVE  FilesInv'
<1>0. FilesTyped /\ FilesOne(n)
  BY DEF FilesInv
<1>1. /\ phase[n] = "files" /\ batch' = [batch EXCEPT ![n] = <<>>]
      /\ rows' = [f \in Files |-> RowsAfter(n, batch[n], f)]
      /\ phase' = IF todo[n] = <<>> THEN [phase EXCEPT ![n] = "rollups"] ELSE phase
      /\ UNCHANGED <<shelf, owner, links, todo, imported, card, failed, calm>>
  BY DEF ApplyFiles, upstream
<1>2. FilesTyped' /\ batch'[n] = <<>> /\ phase'[n] = (IF todo[n] = <<>> THEN "rollups" ELSE "files")
  BY <1>0, <1>1 DEF FilesTyped
<1>3. ASSUME NEW m \in Instances, m # n
      PROVE  FilesOne(m)'
  <2>1. \A f \in FilesOf(m) : f \in Files /\ rows'[f] = rows[f]
    BY <1>1, <1>3, OthersRowsStay DEF FilesOf
  <2>2. Untouched(m)
    BY <1>0, <1>1, <1>3, <2>1 DEF Untouched, FilesTyped
  <2> QED
    BY <1>2, <2>2, UntouchedKeeps
<1>4. ASSUME NEW i \in imported[n], InBatch(n, i) \/ Mirrored(n, i)
      PROVE  Mirrored(n, i)'
  <2> SUFFICES ASSUME n \in calm, Alone(n, i)
               PROVE  {f \in FilesOf(n) : rows'[f] = links[i]} = FilesHeld(i)
    BY <1>1 DEF Mirrored, Alone, FilesOf, FilesHeld, ItemsOf
  <2>1. {f \in FilesOf(n) : RowsAfter(n, batch[n], f) = links[i]} = FilesHeld(i)
    BY <1>4, ApplyMirrors DEF Mirrored
  <2>2. \A f \in FilesOf(n) : rows'[f] = RowsAfter(n, batch[n], f)
    BY <1>1 DEF FilesOf
  <2> QED
    BY <2>1, <2>2
<1>5. FilesOne(n)'
  <2>1. /\ imported'[n] \subseteq ItemsOf(n) /\ todo'[n] \in Seq(ItemsOf(n))
        /\ \A j \in imported'[n] : links'[j] # NoWork /\ card'[j].files \subseteq FilesOf(n)
        /\ n \in calm' => \A j \in imported'[n] : card'[j].files = {f \in Files : owner'[f] = j}
        /\ \A k \in DOMAIN todo'[n] : todo'[n][k] \in imported'[n]
    BY <1>0, <1>1 DEF FilesOne, FilesHeld
  <2>2. batch'[n] \in Seq(FileSets(n)) /\ DOMAIN batch'[n] = {}
    BY <1>2
  <2>3. ASSUME NEW j \in imported'[n] \ failed'[n]
        PROVE  Pending(n, j)' \/ Mirrored(n, j)'
    BY <1>0, <1>1, <1>4, <2>3 DEF FilesOne, Pending
  <2>4. CASE todo[n] = <<>>
    <3>1. \A j \in imported'[n] \ failed'[n] : Mirrored(n, j)'
      BY <1>1, <2>3, <2>4 DEF Pending
    <3> QED
      BY <1>2, <2>1, <2>2, <2>4, <3>1 DEF FilesOne, FileSets, FilesOf, ItemsOf, FilesHeld
  <2>5. CASE todo[n] # <<>>
    BY <1>2, <2>1, <2>2, <2>3, <2>5 DEF FilesOne, FileSets, FilesOf, ItemsOf, FilesHeld
  <2> QED
    BY <2>4, <2>5
<1> QED
  BY <1>2, <1>3, <1>5 DEF FilesInv

\* Rollups, covers and the gate are nothing to an import's files.
LEMMA OthersKeepFiles ==
  ASSUME FilesInv,
         UNCHANGED <<shelf, owner, links, rows, phase, todo, imported, card, batch, failed, calm>>
  PROVE  FilesInv'
<1>1. FilesTyped'
  BY DEF FilesInv, FilesTyped
<1>2. ASSUME NEW m \in Instances
      PROVE  FilesOne(m)'
  <2>1. Untouched(m)
    BY DEF Untouched
  <2> QED
    BY <1>1, <2>1, UntouchedKeeps
<1> QED
  BY <1>1, <1>2 DEF FilesInv

\* From the rollups on, an import keeps what its files pass left.
LEMMA LaterPhaseKeeps ==
  ASSUME FilesInv, NEW n \in Instances, NEW p, Enter(n, p, <<>>),
         phase[n] \in {"rollups", "covers"}, p \in {"covers", "sweep"},
         UNCHANGED <<shelf, owner, links, rows, imported, card, batch, failed, calm>>
  PROVE  FilesInv'
<1>0. FilesTyped /\ FilesOne(n)
  BY DEF FilesInv
<1>1. phase' = [phase EXCEPT ![n] = p] /\ todo' = [todo EXCEPT ![n] = <<>>]
  BY DEF Enter
<1>2. FilesTyped' /\ phase'[n] = p /\ todo'[n] = <<>>
  BY <1>0, <1>1 DEF FilesTyped
<1>3. ASSUME NEW m \in Instances, m # n
      PROVE  FilesOne(m)'
  <2>1. Untouched(m)
    BY <1>0, <1>1, <1>3 DEF Untouched, FilesTyped
  <2> QED
    BY <1>2, <2>1, UntouchedKeeps
<1>4. FilesOne(n)'
  <2>1. /\ imported'[n] \subseteq ItemsOf(n) /\ todo'[n] \in Seq(ItemsOf(n))
        /\ \A j \in imported'[n] : links'[j] # NoWork /\ card'[j].files \subseteq FilesOf(n)
        /\ n \in calm' => \A j \in imported'[n] : card'[j].files = {f \in Files : owner'[f] = j}
    BY <1>0, <1>2 DEF FilesOne, FilesHeld
  <2>2. batch'[n] = <<>> /\ batch'[n] \in Seq(FileSets(n)) /\ DOMAIN batch'[n] = {}
    BY <1>0 DEF FilesOne
  <2>3. \A j \in imported'[n] \ failed'[n] : Mirrored(n, j)'
    BY <1>0, SameMirrored DEF FilesOne
  <2>4. phase'[n] \in {"covers", "sweep"}
    BY <1>2
  <2> QED
    BY <2>1, <2>2, <2>3, <2>4 DEF FilesOne, FileSets, FilesOf, ItemsOf, FilesHeld
<1> QED
  BY <1>2, <1>3, <1>4 DEF FilesInv

\* An import that ends, or fails, or dies with the process, has nothing left to show;
\* what it unlinks are its own items.
LEMMA ForgetKeeps ==
  ASSUME FilesInv, NEW ns \in SUBSET Instances, Forget(ns),
         links' \in [Items -> Works \cup {NoWork}],
         \A m \in Instances \ ns : \A i \in ItemsOf(m) : links'[i] = links[i],
         UNCHANGED <<shelf, owner, rows, calm>>
  PROVE  FilesInv'
<1>0. FilesTyped
  BY DEF FilesInv
<1>1. FilesTyped'
  BY <1>0 DEF FilesTyped, Forget
<1>2. ASSUME NEW n \in ns
      PROVE  FilesOne(n)'
  <2>1. phase'[n] = "idle" /\ imported'[n] = {} /\ todo'[n] = <<>> /\ batch'[n] = <<>>
    BY DEF Forget
  <2> QED
    BY <2>1, ForgottenKeeps
<1>3. ASSUME NEW m \in Instances \ ns
      PROVE  FilesOne(m)'
  <2>1. \A i \in ItemsOf(m) : i \in Items /\ ~ \E n \in ns : i \in ItemsOf(n)
    BY <1>3, OneKeeper DEF Items
  <2>2. \A i \in ItemsOf(m) : card'[i] = card[i]
    BY <2>1 DEF Forget
  <2>3. /\ phase'[m] = phase[m] /\ imported'[m] = imported[m] /\ todo'[m] = todo[m]
        /\ batch'[m] = batch[m] /\ failed'[m] = failed[m]
    BY <1>3 DEF Forget
  <2>4. Untouched(m)
    BY <2>2, <2>3 DEF Untouched
  <2> QED
    BY <1>1, <2>4, UntouchedKeeps
<1> QED
  BY <1>1, <1>2, <1>3 DEF FilesInv

\* A change of an instance's upstream takes its calm and touches no other.
LEMMA UpstreamKeeps ==
  ASSUME FilesInv, NEW n \in Instances,
         \/ \E i \in ItemsOf(n) : \E c \in Cards[i] \cup {Gone} : Edit(n, i, c)
         \/ \E f \in FilesOf(n), i \in ItemsOf(n) \cup {Nowhere} : MoveFile(n, f, i)
  PROVE  FilesInv'
<1>0. FilesTyped
  BY DEF FilesInv
<1>1. /\ calm' = calm \ {n}
      /\ UNCHANGED <<links, rows, phase, todo, imported, card, batch, failed>>
  BY DEF Edit, MoveFile, UpstreamChange, replica, importer
<1>2. /\ DOMAIN owner' = Files /\ \A f \in Files : owner'[f] \in ItemsOf(Keeper[f]) \cup {Nowhere}
      /\ DOMAIN shelf' = Items /\ \A i \in Items : shelf'[i] \in Cards[i] \cup {Gone}
      /\ \A f \in Files \ FilesOf(n) : owner'[f] = owner[f]
  <2>1. ASSUME NEW i \in ItemsOf(n), NEW c \in Cards[i] \cup {Gone}, Edit(n, i, c)
        PROVE  owner' = owner /\ DOMAIN shelf' = Items
                 /\ \A j \in Items : shelf'[j] \in Cards[j] \cup {Gone}
    BY <1>0, <2>1 DEF Edit, FilesTyped
  <2>2. ASSUME NEW f \in FilesOf(n), NEW i \in ItemsOf(n) \cup {Nowhere}, MoveFile(n, f, i)
        PROVE  /\ shelf' = shelf /\ DOMAIN owner' = Files
               /\ \A g \in Files : owner'[g] \in ItemsOf(Keeper[g]) \cup {Nowhere}
               /\ \A g \in Files \ FilesOf(n) : owner'[g] = owner[g]
    <3>1. owner' = [owner EXCEPT ![f] = i] /\ shelf' = shelf /\ Keeper[f] = n /\ f \in Files
      BY <2>2 DEF MoveFile, FilesOf
    <3>2. \A g \in Files : owner'[g] = IF g = f THEN i ELSE owner[g]
      BY <1>0, <3>1 DEF FilesTyped
    <3> QED
      BY <1>0, <3>1, <3>2 DEF FilesTyped
  <2> QED
    BY <1>0, <2>1, <2>2 DEF FilesTyped
<1>3. FilesTyped'
  BY <1>0, <1>1, <1>2 DEF FilesTyped
<1>4. ASSUME NEW m \in Instances
      PROVE  FilesOne(m)'
  <2>1. m \in calm' => m # n
    BY <1>1
  <2>2. m # n => \A f \in FilesOf(m) : owner'[f] = owner[f]
    BY <1>2 DEF FilesOf
  <2>3. Untouched(m)
    BY <1>1, <2>1, <2>2 DEF Untouched
  <2> QED
    BY <1>3, <2>3, UntouchedKeeps
<1> QED
  BY <1>3, <1>4 DEF FilesInv

\* Every step keeps what holds of the imports' files.
LEMMA FilesStep ==
  ASSUME FilesInv, [Next]_passVars
  PROVE  FilesInv'
<1>0. FilesTyped
  BY DEF FilesInv
<1>1. ASSUME NEW n \in Instances, NEW whole \in BOOLEAN, Start(n, whole)
      PROVE  FilesInv'
  BY <1>1, StartKeeps
<1>2. ASSUME NEW n \in Instances, Step(n)
      PROVE  FilesInv'
  <2>1. CASE ImportItem(n) \/ WalkFiles(n) \/ DropWalk(n) \/ ApplyFiles(n)
    BY <2>1, ImportItemKeeps, WalkFilesKeeps, DropWalkKeeps, ApplyFilesKeeps
  <2>2. CASE CreditItem(n) \/ DropCredit(n)
    BY <2>2, CreditKeeps DEF CreditItem, DropCredit, upstream, replica, history
  <2>3. CASE FlushRollups(n) \/ Covering(n)
    <3>1. UNCHANGED <<shelf, owner, rows, phase, todo, imported, card, batch, failed, calm>>
      BY <2>3 DEF FlushRollups, Covering, upstream, importer, history
    <3>2. UNCHANGED links
      BY <2>3 DEF FlushRollups, Covering, CoverStep, TakeCover, HaltCovers, AcquireCover,
                  CoverBusy, FetchCover, PutCover, RecordPoster, RefuseCover
    <3> QED
      BY <3>1, <3>2, OthersKeepFiles
  <2>4. CASE EndRollups(n)
    BY <2>4, LaterPhaseKeeps
       DEF EndRollups, BeginCovers, SkipCovers, upstream, history
  <2>5. CASE FinishCovers(n)
    BY <2>5, LaterPhaseKeeps DEF FinishCovers, EndCovers, upstream, history
  <2>6. CASE Finish(n)
    <3>1. Forget({n}) /\ UNCHANGED <<shelf, owner, rows, calm>>
      BY <2>6 DEF Finish, upstream, history
    <3>2. links' \in [Items -> Works \cup {NoWork}]
      BY <1>0, <2>6 DEF Finish, FilesTyped
    <3>3. \A m \in Instances \ {n} : \A i \in ItemsOf(m) : links'[i] = links[i]
      <4> SUFFICES ASSUME NEW m \in Instances \ {n}, NEW i \in ItemsOf(m)
                   PROVE  links'[i] = links[i]
        OBVIOUS
      <4>1. i \in Items /\ i \notin ItemsOf(n)
        BY OneKeeper DEF Items
      <4> QED
        BY <2>6, <4>1 DEF Finish
    <3> QED
      BY <3>1, <3>2, <3>3, ForgetKeeps
  <2>7. CASE GiveUp(n)
    <3>1. Forget({n}) /\ UNCHANGED <<shelf, owner, links, rows, calm>>
      BY <2>7 DEF GiveUp, upstream, replica, history
    <3> QED
      BY <1>0, <3>1, ForgetKeeps DEF FilesTyped
  <2> QED
    BY <1>2, <2>1, <2>2, <2>3, <2>4, <2>5, <2>6, <2>7 DEF Step
<1>3. ASSUME NEW n \in Instances, Fail(n)
      PROVE  FilesInv'
  <2>1. Forget({n}) /\ UNCHANGED <<shelf, owner, links, rows, calm>>
    BY <1>3 DEF Fail, upstream, replica, history
  <2> QED
    BY <1>0, <2>1, ForgetKeeps DEF FilesTyped
<1>4. ASSUME NEW n \in Instances,
             \/ \E i \in ItemsOf(n) : \E c \in Cards[i] \cup {Gone} : Edit(n, i, c)
             \/ \E f \in FilesOf(n), i \in ItemsOf(n) \cup {Nowhere} : MoveFile(n, f, i)
      PROVE  FilesInv'
  BY <1>4, UpstreamKeeps
<1>5. CASE Crash
  <2>1. Forget(Instances) /\ UNCHANGED <<shelf, owner, links, rows, calm>>
    BY <1>5 DEF Crash, upstream, replica, history
  <2> QED
    BY <1>0, <2>1, ForgetKeeps DEF FilesTyped
<1>6. CASE Gate \/ UNCHANGED passVars
  BY <1>6, OthersKeepFiles DEF Gate, TakeElsewhere, GiveBackElsewhere, passVars, upstream,
                               replica, importer, history
<1>7. ASSUME NEW n \in Instances, Cancel(n)
      PROVE  FilesInv'
  <2>1. UNCHANGED <<shelf, owner, rows, phase, todo, imported, card, batch, failed, calm, links>>
    BY <1>7 DEF Cancel, CancelCovers, upstream, importer, history
  <2> QED
    BY <2>1, OthersKeepFiles
<1> QED
  BY <1>1, <1>2, <1>3, <1>4, <1>5, <1>6, <1>7 DEF Next

\* No import runs.
LEMMA FilesInit == Init => FilesInv
<1> SUFFICES ASSUME Init PROVE FilesInv
  OBVIOUS
<1>1. FilesTyped
  BY PassesAssumption DEF Init, FilesTyped
<1>2. ASSUME NEW n \in Instances
      PROVE  FilesOne(n)
  <2>1. /\ phase[n] = "idle" /\ imported[n] = {} /\ todo[n] = <<>> /\ batch[n] = <<>>
        /\ n \notin calm
    BY DEF Init
  <2>2. todo[n] \in Seq(ItemsOf(n)) /\ batch[n] \in Seq(FileSets(n))
    BY <2>1
  <2> QED
    BY <2>1, <2>2 DEF FilesOne
<1> QED
  BY <1>1, <1>2 DEF FilesInv

\* Once the files of an instance that stood still are read, each of its items whose work
\* is its own among them, and whose walk did not fail, has exactly its own files under it,
\* however the walk was cut into batches and whatever other imports, upstreams, crashes
\* and sweeps did meanwhile (files.go:90).
THEOREM FilesMirroredCorrect == Spec => []FilesMirrored
<1>1. FilesInv /\ [Next]_passVars => FilesInv'
  BY FilesStep
<1>2. FilesInv => FilesMirrored
  BY DEF FilesInv, FilesTyped, FilesOne, FilesMirrored, Mirrored
<1> QED
  BY <1>1, <1>2, FilesInit, PTL DEF Spec
------------------------------------------------------------------------------
(* The cover shortfall.                                                      *)

\* While an instance's covers are fetched, each item it imported is in the pass, and
\* those it has done with as held or fetched have a poster.
CoversOne(n) ==
  phase[n] = "covers" =>
    \A i \in imported[n] :
      /\ cover[i] # "none"
      /\ cover[i] \in {"held", "fetched"} => Postered(i)

CoversInv ==
  /\ cover \in [Items -> Stages]
  /\ \A n \in Instances : CoversOne(n)

\* No poster is taken away, and an instance in its covers is as it was.
Uncovered(n) ==
  /\ \A w \in Works : poster[w] # NoItem => poster'[w] # NoItem
  /\ phase'[n] = "covers" =>
       /\ phase[n] = "covers" /\ imported'[n] = imported[n]
       /\ \A i \in ItemsOf(n) : cover'[i] = cover[i] /\ links'[i] = links[i]

\* An instance whose covers a step leaves alone keeps what holds of them.
LEMMA UncoveredKeeps ==
  ASSUME FilesInv, CoversInv, NEW n \in Instances, Uncovered(n)
  PROVE  CoversOne(n)'
<1> SUFFICES ASSUME phase'[n] = "covers", NEW i \in imported'[n]
             PROVE  cover'[i] # "none" /\ (cover'[i] \in {"held", "fetched"} => Postered(i)')
  BY DEF CoversOne
<1>1. i \in imported[n] /\ i \in ItemsOf(n) /\ i \in Items
  BY DEF Uncovered, FilesInv, FilesOne, Items
<1>2. phase[n] = "covers" /\ cover'[i] = cover[i] /\ links'[i] = links[i]
  BY <1>1 DEF Uncovered
<1>3. cover[i] # "none" /\ (cover[i] \in {"held", "fetched"} => Postered(i))
  BY <1>1, <1>2 DEF CoversInv, CoversOne
<1>4. Postered(i) => Postered(i)'
  <2>1. links[i] \in Works \cup {NoWork}
    BY <1>1 DEF FilesInv, FilesTyped
  <2> QED
    BY <1>2, <2>1 DEF Postered, Uncovered
<1> QED
  BY <1>2, <1>3, <1>4

\* A step outside the covers leaves them, and starts none.
LEMMA OutsideCovers ==
  ASSUME FilesInv, CoversInv, UNCHANGED <<posters, cover>>,
         \A n \in Instances : phase'[n] = "covers" =>
           /\ phase[n] = "covers" /\ imported'[n] = imported[n]
           /\ \A i \in ItemsOf(n) : links'[i] = links[i]
  PROVE  CoversInv'
<1>1. \A n \in Instances : Uncovered(n)
  BY DEF Uncovered, posters
<1> QED
  BY <1>1, UncoveredKeeps DEF CoversInv, Stages, Held, Outcomes

\* Going on in the items, the credits or the files starts no covers.
LEMMA ProceedUncovered ==
  ASSUME FilesTyped, NEW n \in Instances, NEW next, NEW items, Proceed(n, next, items),
         next # "covers", NEW m \in Instances, phase'[m] = "covers"
  PROVE  phase[m] = "covers"
BY DEF Proceed, Enter, FilesTyped

\* An import that is forgotten is in no covers.
LEMMA ForgetUncovered ==
  ASSUME FilesTyped, NEW ns \in SUBSET Instances, Forget(ns),
         NEW m \in Instances, phase'[m] = "covers"
  PROVE  m \notin ns /\ phase[m] = "covers" /\ imported'[m] = imported[m]
BY DEF Forget

\* An item goes from one stage of the pass to another: to held or fetched only with a
\* poster.
LEMMA CoverMoves ==
  ASSUME FilesInv, CoversInv, NEW n \in Instances, NEW i \in ItemsOf(n), NEW stage,
         stage \in Stages \ {"none"}, cover' = [cover EXCEPT ![i] = stage],
         stage \in {"held", "fetched"} => Postered(i)',
         \A w \in Works : poster[w] # NoItem => poster'[w] # NoItem,
         UNCHANGED <<links, phase, imported>>
  PROVE  CoversInv'
<1>1. i \in Items
  BY DEF Items
<1>2. cover' \in [Items -> Stages] /\ cover'[i] = stage
      /\ \A j \in Items \ {i} : cover'[j] = cover[j]
  BY <1>1 DEF CoversInv
<1>3. ASSUME NEW m \in Instances, NEW j \in imported[m], phase[m] = "covers"
      PROVE  cover'[j] # "none" /\ (cover'[j] \in {"held", "fetched"} => Postered(j)')
  <2>1. j \in Items /\ links[j] \in Works \cup {NoWork}
    BY <1>3 DEF FilesInv, FilesOne, FilesTyped, Items
  <2>2. Postered(j) => Postered(j)'
    BY <2>1 DEF Postered
  <2>3. cover[j] # "none" /\ (cover[j] \in {"held", "fetched"} => Postered(j))
    BY <1>3 DEF CoversInv, CoversOne
  <2> QED
    BY <1>2, <2>1, <2>2, <2>3
<1>4. \A m \in Instances : CoversOne(m)'
  BY <1>3 DEF CoversOne
<1> QED
  BY <1>2, <1>4 DEF CoversInv, Stages, Held, Outcomes

\* The steps of a cover pass.
LEMMA CoveringKeeps ==
  ASSUME FilesInv, PosterInv, CoversInv, NEW n \in Instances, Covering(n)
  PROVE  CoversInv'
<1>0. /\ UNCHANGED <<phase, imported>>
      /\ NoItem \notin Items
  BY CoversAssumption DEF Covering, importer
<1>1. CASE TakeCover(n)
  <2>1. PICK k \in DOMAIN Walk[n] : cover' = [cover EXCEPT ![Walk[n][k]] = "asking"]
    BY <1>1 DEF TakeCover
  <2>2. Walk[n][k] \in ItemsOf(n)
    BY DEF ItemsOf, Range
  <2> QED
    BY <1>0, <1>1, <2>1, <2>2, CoverMoves DEF TakeCover, Stages, posters
<1>2. ASSUME NEW i \in ItemsOf(n), AcquireCover(n, i) \/ CoverBusy(n, i) \/ FetchCover(n, i)
      PROVE  CoversInv'
  <2>1. PICK stage \in {"fetching", "pending", "storing"} : cover' = [cover EXCEPT ![i] = stage]
    BY <1>2 DEF AcquireCover, CoverBusy, FetchCover
  <2>2. stage \in Stages \ {"none"} /\ stage \notin {"held", "fetched"}
    BY <2>1 DEF Stages, Held
  <2>3. UNCHANGED <<links, poster>>
    BY <1>2 DEF AcquireCover, CoverBusy, FetchCover, posters
  <2> QED
    BY <1>0, <2>1, <2>2, <2>3, CoverMoves
<1>3. ASSUME NEW i \in ItemsOf(n), PutCover(n, i)
      PROVE  CoversInv'
  <2>1. UNCHANGED <<links, poster, cover>>
    BY <1>3 DEF PutCover
  <2>2. \A m \in Instances : Uncovered(m)
    BY <1>0, <2>1 DEF Uncovered
  <2> QED
    BY <2>1, <2>2, UncoveredKeeps DEF CoversInv, Stages, Held, Outcomes
<1>4. ASSUME NEW i \in ItemsOf(n), RecordPoster(n, i)
      PROVE  CoversInv'
  <2>0. i \in Items /\ links[i] \in Works \cup {NoWork} /\ links' = links
    BY <1>4 DEF Items, FilesInv, FilesTyped, RecordPoster
  <2>1. CASE links[i] = NoWork
    <3>1. cover' = [cover EXCEPT ![i] = "failed"] /\ UNCHANGED <<links, poster>>
      BY <1>4, <2>1 DEF RecordPoster, Concluded
    <3>2. "failed" \in Stages \ {"none"}
      BY DEF Stages, Outcomes
    <3> QED
      BY <1>0, <3>1, <3>2, CoverMoves
  <2>2. CASE links[i] # NoWork
    <3>1. cover' = [cover EXCEPT ![i] = "fetched"] /\ poster' = [poster EXCEPT ![links[i]] = i]
      BY <1>4, <2>2 DEF RecordPoster, Concluded
    <3>2. poster'[links[i]] = i /\ \A w \in Works : poster[w] # NoItem => poster'[w] # NoItem
      BY <1>0, <2>0, <2>2, <3>1 DEF PosterInv
    <3>3. Postered(i)'
      BY <1>0, <2>0, <2>2, <3>2 DEF Postered
    <3>4. "fetched" \in Stages \ {"none"}
      BY DEF Stages, Outcomes
    <3> QED
      BY <1>0, <2>0, <3>1, <3>2, <3>3, <3>4, CoverMoves
  <2> QED
    BY <2>1, <2>2
<1>5. CASE HaltCovers(n)
  <2>1. UNCHANGED <<links, poster, cover>>
    BY <1>5 DEF HaltCovers, posters
  <2>2. \A m \in Instances : Uncovered(m)
    BY <1>0, <2>1 DEF Uncovered
  <2> QED
    BY <2>1, <2>2, UncoveredKeeps DEF CoversInv, Stages, Held, Outcomes
<1>6. ASSUME NEW i \in ItemsOf(n), RefuseCover(n, i)
      PROVE  CoversInv'
  <2>1. PICK outcome \in Verdicts(cover[i]) : cover' = [cover EXCEPT ![i] = outcome]
    BY <1>6 DEF RefuseCover, Concluded
  <2>2. outcome \in {"absent", "forbidden", "failed"}
    BY <2>1 DEF Verdicts
  <2>3. outcome \in Stages \ {"none"} /\ outcome \notin {"held", "fetched"}
    BY <2>2 DEF Stages, Outcomes
  <2>4. UNCHANGED <<links, poster>>
    BY <1>6 DEF RefuseCover, posters
  <2> QED
    BY <1>0, <2>1, <2>3, <2>4, CoverMoves
<1> QED
  BY <1>1, <1>2, <1>3, <1>4, <1>5, <1>6 DEF Covering, CoverStep

\* The covers of an import begin with each of its items held or pending.
LEMMA EndRollupsKeeps ==
  ASSUME FilesInv, CoversInv, NEW n \in Instances, EndRollups(n)
  PROVE  CoversInv'
<1>0. UNCHANGED <<links, posters, imported>> /\ phase[n] = "rollups"
  BY DEF EndRollups, BeginCovers, SkipCovers
<1>1. CASE Enter(n, "sweep", <<>>) /\ UNCHANGED cover
  <2>1. \A m \in Instances : phase'[m] = "covers" => phase[m] = "covers"
    BY <1>1 DEF Enter, FilesInv, FilesTyped
  <2> QED
    BY <1>0, <1>1, <2>1, OutsideCovers
<1>2. CASE Enter(n, "covers", <<>>) /\ BeginCovers(n, imported[n])
  <2>1. cover' = [i \in Items |-> IF i \in imported[n] THEN Queued(i) ELSE cover[i]]
    BY <1>2 DEF BeginCovers
  <2>2. \A i : Queued(i) \in Stages \ {"none"} /\ (Queued(i) \in {"held", "fetched"} => Postered(i))
    BY DEF Queued, Stages, Outcomes
  <2>3. cover' \in [Items -> Stages]
    BY <2>1, <2>2 DEF CoversInv
  <2>4. \A i : Postered(i)' <=> Postered(i)
    BY <1>0 DEF Postered, posters
  <2>5. CoversOne(n)'
    <3>1. \A i \in imported[n] : i \in Items
      BY DEF FilesInv, FilesOne, Items
    <3>2. \A i \in imported[n] : cover'[i] = Queued(i)
      BY <2>1, <3>1
    <3> QED
      BY <1>0, <2>2, <2>4, <3>2 DEF CoversOne
  <2>6. ASSUME NEW m \in Instances, m # n
        PROVE  CoversOne(m)'
    <3>1. phase'[m] = phase[m]
      BY <1>2, <2>6 DEF Enter, FilesInv, FilesTyped
    <3>2. ASSUME NEW i \in ItemsOf(m)
          PROVE  cover'[i] = cover[i]
      <4>1. i \in Items /\ i \notin imported[n]
        BY <2>6, OneKeeper DEF Items, FilesInv, FilesOne
      <4> QED
        BY <2>1, <4>1
    <3>3. Uncovered(m)
      BY <1>0, <3>1, <3>2 DEF Uncovered, posters
    <3> QED
      BY <3>3, UncoveredKeeps
  <2> QED
    BY <2>3, <2>5, <2>6 DEF CoversInv, Stages, Held, Outcomes
<1> QED
  BY <1>1, <1>2 DEF EndRollups, SkipCovers, coverPass, covering

\* The end of one instance's covers is nothing to another's.
LEMMA FinishCoversKeeps ==
  ASSUME FilesInv, CoversInv, NEW n \in Instances, FinishCovers(n)
  PROVE  CoversInv'
<1>1. /\ phase' = [phase EXCEPT ![n] = "sweep"]
      /\ cover' = [i \in Items |-> IF i \in ItemsOf(n) THEN "none" ELSE cover[i]]
      /\ UNCHANGED <<links, poster, imported>>
  BY DEF FinishCovers, EndCovers, Enter, posters
<1>2. cover' \in [Items -> Stages]
  BY <1>1 DEF CoversInv, Stages
<1>3. ASSUME NEW m \in Instances
      PROVE  Uncovered(m)
  <2>1. phase'[m] = "covers" => m # n /\ phase[m] = "covers"
    BY <1>1 DEF FilesInv, FilesTyped
  <2>2. m # n => \A i \in ItemsOf(m) : i \in Items /\ i \notin ItemsOf(n)
    BY OneKeeper DEF Items
  <2>3. m # n => \A i \in ItemsOf(m) : cover'[i] = cover[i]
    BY <1>1, <2>2
  <2> QED
    BY <1>1, <2>1, <2>3 DEF Uncovered
<1> QED
  BY <1>2, <1>3, UncoveredKeeps DEF CoversInv, Stages, Held, Outcomes

\* Every step keeps what holds of the covers.
LEMMA CoversStep ==
  ASSUME FilesInv, PosterInv, CoversInv, [Next]_passVars
  PROVE  CoversInv'
<1>0. FilesTyped
  BY DEF FilesInv
<1>1. ASSUME NEW n \in Instances, ImportItem(n)
      PROVE  CoversInv'
  <2> DEFINE i == NextItem(n)
  <2>1. /\ phase[n] = "items" /\ todo[n] # <<>> /\ todo[n] \in Seq(ItemsOf(n))
        /\ UNCHANGED <<posters, cover>>
    BY <1>1 DEF ImportItem, Reading, coverPass, covering, FilesInv, FilesOne
  <2>2. i \in ItemsOf(n)
    BY <2>1, TodoLeft
  <2> HIDE DEF i
  <2>3. /\ links' = [links EXCEPT ![i] = shelf[i].work] \/ links' = links
        /\ imported' = [imported EXCEPT ![n] = imported[n] \cup {i}] \/ imported' = imported
    BY <1>1 DEF ImportItem, i
  <2>4. ASSUME NEW m \in Instances, phase'[m] = "covers"
        PROVE  /\ phase[m] = "covers" /\ imported'[m] = imported[m]
               /\ \A j \in ItemsOf(m) : links'[j] = links[j]
    <3>1. phase[m] = "covers"
      <4>1. PICK p \in {"rollups", "credits"} : \E items : Proceed(n, p, items)
        BY <1>1 DEF ImportItem
      <4>2. p # "covers"
        BY <4>1
      <4> QED
        BY <1>0, <2>4, <4>1, <4>2, ProceedUncovered
    <3>2. m # n
      BY <2>1, <3>1
    <3>3. \A j \in ItemsOf(m) : j \in Items /\ j # i
      BY <2>2, <3>2, OneKeeper DEF Items
    <3>4. \A j \in ItemsOf(m) : links'[j] = links[j]
      BY <1>0, <2>3, <3>3 DEF FilesTyped
    <3>5. imported'[m] = imported[m]
      BY <1>0, <2>3, <3>2 DEF FilesTyped
    <3> QED
      BY <3>1, <3>4, <3>5
  <2> QED
    BY <2>1, <2>4, OutsideCovers
<1>2. ASSUME NEW n \in Instances, CreditItem(n) \/ DropCredit(n)
      PROVE  CoversInv'
  <2>1. UNCHANGED <<posters, cover, links, imported>>
    BY <1>2 DEF CreditItem, DropCredit, replica, coverPass, covering
  <2>2. \E items : Proceed(n, "files", items)
    BY <1>2 DEF CreditItem, DropCredit
  <2>3. \A m \in Instances : phase'[m] = "covers" => phase[m] = "covers"
    <3>1. "files" # "covers"
      OBVIOUS
    <3> QED
      BY <1>0, <2>2, <3>1, ProceedUncovered
  <2> QED
    BY <2>1, <2>3, OutsideCovers
<1>3. ASSUME NEW n \in Instances, DropWalk(n)
      PROVE  CoversInv'
  <2>1. UNCHANGED <<posters, cover, links, imported>>
    BY <1>3 DEF DropWalk, replica, coverPass, covering
  <2>2. Proceed(n, "rollups", <<>>) \/ UNCHANGED phase
    BY <1>3 DEF DropWalk
  <2>3. \A m \in Instances : phase'[m] = "covers" => phase[m] = "covers"
    <3>1. "rollups" # "covers"
      OBVIOUS
    <3> QED
      BY <1>0, <2>2, <3>1, ProceedUncovered
  <2> QED
    BY <2>1, <2>3, OutsideCovers
<1>4. ASSUME NEW n \in Instances, \/ WalkFiles(n) \/ ApplyFiles(n) \/ FlushRollups(n)
                                  \/ \E whole \in BOOLEAN : Start(n, whole)
      PROVE  CoversInv'
  <2>1. UNCHANGED <<posters, cover, links, imported>>
    BY <1>4 DEF WalkFiles, ApplyFiles, FlushRollups, Start, replica, coverPass, covering, importer
  <2>2. \A m \in Instances : phase'[m] = "covers" => phase[m] = "covers"
    BY <1>0, <1>4
       DEF WalkFiles, ApplyFiles, FlushRollups, Start, Enter, FilesTyped, importer
  <2> QED
    BY <2>1, <2>2, OutsideCovers
<1>5. ASSUME NEW n \in Instances, Finish(n) \/ GiveUp(n)
      PROVE  CoversInv'
  <2>1. Forget({n}) /\ UNCHANGED <<posters, cover>>
    BY <1>5 DEF Finish, GiveUp, coverPass, covering
  <2>2. ASSUME NEW m \in Instances, phase'[m] = "covers"
        PROVE  /\ phase[m] = "covers" /\ imported'[m] = imported[m]
               /\ \A j \in ItemsOf(m) : links'[j] = links[j]
    <3>1. m # n /\ phase[m] = "covers" /\ imported'[m] = imported[m]
      BY <1>0, <2>1, <2>2, ForgetUncovered
    <3>2. \A j \in ItemsOf(m) : j \in Items /\ j \notin ItemsOf(n)
      BY <3>1, OneKeeper DEF Items
    <3> QED
      BY <1>5, <3>1, <3>2 DEF Finish, GiveUp, replica
  <2> QED
    BY <2>1, <2>2, OutsideCovers
<1>6. ASSUME NEW n \in Instances, Fail(n)
      PROVE  CoversInv'
  <2>1. Forget({n}) /\ UNCHANGED <<posters, cover, links>>
    BY <1>6 DEF Fail, replica, coverPass, covering
  <2>2. \A m \in Instances : phase'[m] = "covers" => phase[m] = "covers" /\ imported'[m] = imported[m]
    BY <1>0, <2>1, ForgetUncovered
  <2> QED
    BY <2>1, <2>2, OutsideCovers
<1>7. CASE Crash
  <2>1. \A m \in Instances : phase'[m] = "idle"
    BY <1>7 DEF Crash, Forget
  <2>2. cover' \in [Items -> Stages]
    BY <1>7 DEF Crash, Stages
  <2> QED
    BY <2>1, <2>2 DEF CoversInv, CoversOne, Stages, Held, Outcomes
<1>8. ASSUME NEW n \in Instances,
             \/ \E i \in ItemsOf(n) : \E c \in Cards[i] \cup {Gone} : Edit(n, i, c)
             \/ \E f \in FilesOf(n), i \in ItemsOf(n) \cup {Nowhere} : MoveFile(n, f, i)
      PROVE  CoversInv'
  <2>1. UNCHANGED <<posters, cover, links, imported, phase>>
    BY <1>8 DEF Edit, MoveFile, UpstreamChange, replica, importer, coverPass, covering
  <2> QED
    BY <2>1, OutsideCovers
<1>9. CASE Gate \/ UNCHANGED passVars
  <2>1. UNCHANGED <<posters, cover, links, imported, phase>>
    BY <1>9 DEF Gate, TakeElsewhere, GiveBackElsewhere, importer, passVars, replica, coverPass,
                covering
  <2> QED
    BY <2>1, OutsideCovers
<1>10. ASSUME NEW n \in Instances, Cancel(n)
       PROVE  CoversInv'
  <2>1. UNCHANGED <<posters, cover, links, imported, phase>>
    BY <1>10 DEF Cancel, CancelCovers, importer
  <2> QED
    BY <2>1, OutsideCovers
<1> QED
  BY <1>1, <1>2, <1>3, <1>4, <1>5, <1>6, <1>7, <1>8, <1>9, <1>10,
     CoveringKeeps, EndRollupsKeeps, FinishCoversKeeps
     DEF Next, Step

\* No cover pass runs.
LEMMA CoversInit == Init => CoversInv
<1> SUFFICES ASSUME Init PROVE CoversInv
  OBVIOUS
<1>1. cover \in [Items -> Stages]
  BY DEF Init, Stages
<1> QED
  BY <1>1 DEF Init, CoversInv, CoversOne

\* The items of a walk are finitely many, and so are those at some stages.
LEMMA FewItems ==
  ASSUME NEW n \in Instances, NEW stages
  PROVE  IsFiniteSet(In(n, stages))
<1>1. Walk[n] \in Seq(ItemsOf(n))
  BY CoversAssumption DEF ItemsOf
<1>2. Walk[n] \in Surjection(1 .. Len(Walk[n]), ItemsOf(n))
  BY <1>1 DEF Surjection, ItemsOf, Range
<1>3. IsFiniteSet(1 .. Len(Walk[n]))
  BY <1>1, FS_Interval
<1>4. IsFiniteSet(ItemsOf(n))
  BY <1>2, <1>3, FS_Surjection
<1>5. In(n, stages) \in SUBSET ItemsOf(n)
  BY DEF In
<1> QED
  BY <1>4, <1>5, FS_Subset

\* Of a set of finitely many, its parts are as many in all as it is.
LEMMA Apart ==
  ASSUME NEW A, NEW B, IsFiniteSet(A), IsFiniteSet(B), A \cap B = {}
  PROVE  IsFiniteSet(A \cup B) /\ Cardinality(A \cup B) = Cardinality(A) + Cardinality(B)
<1>1. Cardinality(A) \in Nat /\ Cardinality(B) \in Nat
  BY FS_CardinalityType
<1>2. Cardinality({}) = 0
  BY FS_EmptySet
<1>3. /\ IsFiniteSet(A \cup B)
      /\ Cardinality(A \cup B) = Cardinality(A) + Cardinality(B) - Cardinality(A \cap B)
  BY FS_Union
<1>4. Cardinality(A \cap B) = 0
  BY <1>2
<1> QED
  BY <1>1, <1>3, <1>4

\* What the pass has no outcome for is counted as deferred, once its workers are done.
LEMMA DeferredAre ==
  ASSUME CoversInv, NEW n \in Instances, CoversDone(n)
  PROVE  Deferred(n) = Cardinality(In(n, {"pending"}))
<1> DEFINE P == In(n, {"pending"})
           Fe == In(n, {"fetched"})
           Ab == In(n, {"absent"})
           Fo == In(n, {"forbidden"})
           Fa == In(n, {"failed"})
<1>1. IsFiniteSet(P) /\ IsFiniteSet(Fe) /\ IsFiniteSet(Ab) /\ IsFiniteSet(Fo) /\ IsFiniteSet(Fa)
  BY FewItems
<1>2. Asked(n) = (((P \cup Fe) \cup Ab) \cup Fo) \cup Fa
  BY DEF Asked, In, Stages, Held, Outcomes, CoversDone
<1>3. /\ P \cap Fe = {} /\ (P \cup Fe) \cap Ab = {} /\ ((P \cup Fe) \cup Ab) \cap Fo = {}
      /\ (((P \cup Fe) \cup Ab) \cup Fo) \cap Fa = {}
  BY DEF In
<1>4. /\ Cardinality(P) \in Nat /\ Cardinality(Fe) \in Nat /\ Cardinality(Ab) \in Nat
      /\ Cardinality(Fo) \in Nat /\ Cardinality(Fa) \in Nat
  BY <1>1, FS_CardinalityType
<1> HIDE DEF P, Fe, Ab, Fo, Fa
<1>5. IsFiniteSet(P \cup Fe) /\ Cardinality(P \cup Fe) = Cardinality(P) + Cardinality(Fe)
  BY <1>1, <1>3, Apart
<1>6. /\ IsFiniteSet((P \cup Fe) \cup Ab)
      /\ Cardinality((P \cup Fe) \cup Ab) = Cardinality(P \cup Fe) + Cardinality(Ab)
  BY <1>1, <1>3, <1>5, Apart
<1>7. /\ IsFiniteSet(((P \cup Fe) \cup Ab) \cup Fo)
      /\ Cardinality(((P \cup Fe) \cup Ab) \cup Fo) = Cardinality((P \cup Fe) \cup Ab) + Cardinality(Fo)
  BY <1>1, <1>3, <1>6, Apart
<1>8. Cardinality(Asked(n)) = Cardinality(((P \cup Fe) \cup Ab) \cup Fo) + Cardinality(Fa)
  BY <1>1, <1>2, <1>3, <1>7, Apart
<1>9. Cardinality(Asked(n))
        = Cardinality(P) + Cardinality(Fe) + Cardinality(Ab) + Cardinality(Fo) + Cardinality(Fa)
  BY <1>5, <1>6, <1>7, <1>8
<1>10. Deferred(n) = Cardinality(Asked(n)) - Cardinality(Fe) - Cardinality(Ab)
                       - Cardinality(Fo) - Cardinality(Fa)
  BY DEF Deferred, Fe, Ab, Fo, Fa
<1>11. Deferred(n) = Cardinality(P)
  BY <1>4, <1>9, <1>10
<1> QED
  BY <1>11 DEF P

\* The bound on failures is counted in naturals.
LEMMA FaultsStep ==
  ASSUME faults \in Nat, [Next]_passVars
  PROVE  faults' \in Nat
<1> DEFINE counted == faults' = faults \/ faults' = faults + 1
<1>1. ASSUME NEW n \in Instances, Covering(n) \/ FinishCovers(n) \/ EndRollups(n)
      PROVE  counted
  BY <1>1 DEF Covering, CoverStep, TakeCover, HaltCovers, AcquireCover, CoverBusy, FetchCover,
              PutCover, RecordPoster, RefuseCover, FinishCovers, EndCovers, RecordShortfall,
              EndRollups, BeginCovers, SkipCovers, Fault
<1>2. ASSUME NEW n \in Instances, \/ ImportItem(n) \/ CreditItem(n) \/ DropCredit(n)
                                  \/ WalkFiles(n) \/ DropWalk(n) \/ ApplyFiles(n)
                                  \/ FlushRollups(n) \/ Finish(n) \/ GiveUp(n)
      PROVE  counted
  BY <1>2 DEF ImportItem, CreditItem, DropCredit, WalkFiles, DropWalk, ApplyFiles, FlushRollups,
              Finish, GiveUp, Fault
<1>3. ASSUME NEW n \in Instances, \/ \E whole \in BOOLEAN : Start(n, whole)
                                  \/ Fail(n) \/ Cancel(n)
      PROVE  counted
  BY <1>3 DEF Start, Fail, Cancel, CancelCovers, Fault
<1>4. ASSUME NEW n \in Instances,
             \/ \E i \in ItemsOf(n) : \E c \in Cards[i] \cup {Gone} : Edit(n, i, c)
             \/ \E f \in FilesOf(n), i \in ItemsOf(n) \cup {Nowhere} : MoveFile(n, f, i)
      PROVE  counted
  BY <1>4 DEF Edit, MoveFile, UpstreamChange
<1>5. CASE Gate \/ Crash \/ UNCHANGED passVars
  BY <1>5 DEF Gate, TakeElsewhere, GiveBackElsewhere, Crash, Fault, passVars
<1> QED
  BY <1>1, <1>2, <1>3, <1>4, <1>5 DEF Next, Step

\* A pass that is not on record as incomplete, though nothing kept it from the record, has
\* a poster, or the word that there is no cover, for every item it was to see to.
LEMMA CompleteCovers ==
  ASSUME CoversInv, FilesInv, faults \in Nat, NEW n \in Instances, FinishCovers(n),
         Recordable(n), n \notin shortfall', NEW i \in imported[n]
  PROVE  Postered(i) \/ cover[i] = "absent"
<1>0. i \in ItemsOf(n) /\ cover[i] \in Stages /\ phase[n] = "covers" /\ CoversDone(n)
  <2>1. i \in ItemsOf(n) /\ i \in Items
    BY DEF FilesInv, FilesOne, Items
  <2> QED
    BY <2>1 DEF CoversInv, FinishCovers, EndCovers
<1>1. ~ Incomplete(n)
  <2>1. RecordShortfall(n, Incomplete(n)) /\ n \notin cancelled /\ faults' = faults
    BY DEF FinishCovers, EndCovers, Recordable
  <2>2. ~ Fault
    BY <2>1 DEF Fault
  <2> QED
    BY <2>1, <2>2 DEF RecordShortfall
<1>2. Deferred(n) = Cardinality(In(n, {"pending"})) /\ IsFiniteSet(In(n, {"pending"}))
  BY <1>0, DeferredAre, FewItems
<1>3. Cardinality(In(n, {"pending"})) \in Nat
  BY <1>2, FS_CardinalityType
<1>4. Cardinality(In(n, {"pending"})) = 0
  BY <1>1, <1>2, <1>3 DEF Incomplete
<1>5. In(n, {"pending"}) = {}
  BY <1>2, <1>4, FS_EmptySet
<1>6. cover[i] \notin {"pending", "failed", "forbidden", "asking", "fetching", "storing"}
  BY <1>0, <1>1, <1>5 DEF In, Incomplete, CoversDone, Held
<1>7. cover[i] # "none" /\ (cover[i] \in {"held", "fetched"} => Postered(i))
  BY <1>0 DEF CoversInv, CoversOne
<1> QED
  BY <1>0, <1>6, <1>7 DEF Stages, Held, Outcomes

\* The covers of a BookOrbit's import come to their end in their last step, or before
\* their first: when there are none to fetch, or when the read of what is held failed.
LEMMA CoversEnd ==
  ASSUME FilesInv, faults \in Nat, [Next]_passVars, NEW n \in Instances \ Kavita,
         EndsCovers(n), Recordable(n)
  PROVE  FinishCovers(n) \/ imported[n] = {}
<1>0. FilesTyped /\ phase[n] \in {"rollups", "covers"} /\ phase'[n] = "sweep" /\ ~ Fault
  BY DEF FilesInv, EndsCovers, Recordable, Fault
<1>1. ASSUME NEW m \in Instances, FinishCovers(m)
      PROVE  m = n
  BY <1>0, <1>1 DEF FinishCovers, Enter, FilesTyped
<1>2. ASSUME NEW m \in Instances, EndRollups(m)
      PROVE  imported[n] = {}
  <2>1. \E p \in {"covers", "sweep"} : Enter(m, p, <<>>)
    BY <1>2 DEF EndRollups
  <2>2. m = n
    BY <1>0, <2>1 DEF Enter, FilesTyped
  <2>3. ~ Enter(n, "covers", <<>>) /\ ~ SkipCovers(n)
    BY <1>0 DEF Enter, FilesTyped, SkipCovers
  <2> QED
    BY <1>2, <2>2, <2>3 DEF EndRollups, coverPipeline
<1>3. ASSUME NEW m \in Instances, Step(m), ~ FinishCovers(m), ~ EndRollups(m)
      PROVE  FALSE
  <2>1. CASE ImportItem(m) \/ CreditItem(m) \/ DropCredit(m) \/ DropWalk(m)
    <3>1. \/ \E p \in {"rollups", "credits", "files"} : \E items : Proceed(m, p, items)
          \/ UNCHANGED phase
      BY <2>1 DEF ImportItem, CreditItem, DropCredit, DropWalk
    <3> QED
      BY <1>0, <3>1 DEF Proceed, Enter, FilesTyped
  <2>2. CASE WalkFiles(m) \/ FlushRollups(m) \/ Covering(m)
    BY <1>0, <2>2 DEF WalkFiles, FlushRollups, Covering, importer
  <2>3. CASE ApplyFiles(m)
    BY <1>0, <2>3 DEF ApplyFiles, FilesTyped
  <2>4. CASE Finish(m) \/ GiveUp(m)
    BY <1>0, <2>4 DEF Finish, GiveUp, Forget
  <2> QED
    BY <1>3, <2>1, <2>2, <2>3, <2>4 DEF Step
<1>4. ASSUME NEW m \in Instances, \/ \E whole \in BOOLEAN : Start(m, whole)
                                  \/ Fail(m) \/ Cancel(m)
      PROVE  FALSE
  BY <1>0, <1>4 DEF Start, Enter, Fail, Cancel, CancelCovers, FilesTyped
<1>5. ASSUME NEW m \in Instances,
             \/ \E i \in ItemsOf(m) : \E c \in Cards[i] \cup {Gone} : Edit(m, i, c)
             \/ \E f \in FilesOf(m), i \in ItemsOf(m) \cup {Nowhere} : MoveFile(m, f, i)
      PROVE  FALSE
  BY <1>0, <1>5 DEF Edit, MoveFile, UpstreamChange, importer
<1>6. CASE Gate \/ Crash \/ UNCHANGED passVars
  BY <1>0, <1>6 DEF Gate, Crash, passVars, importer
<1> QED
  BY <1>1, <1>2, <1>3, <1>4, <1>5, <1>6 DEF Next

\* "These items have no poster yet and no verdict was recorded against them"
\* (covers.go:554): a BookOrbit's import that ends its covers with an item left without a
\* poster, other than one that has no cover to give, is recorded as short of covers,
\* unless its context had ended or the write of the record failed.
THEOREM ShortfallToldCorrect == Spec => ShortfallTold
<1> DEFINE Inv == FilesInv /\ PosterInv /\ CoversInv /\ faults \in Nat
           Told == \A n \in Instances \ Kavita :
                     EndsCovers(n) /\ Recordable(n) /\ Unserved(n) # {} => n \in shortfall'
<1>1. Init => Inv
  BY FilesInit, PosterInit, CoversInit DEF Init
<1>2. Inv /\ [Next]_passVars => Inv'
  BY FilesStep, PosterStep, CoversStep, FaultsStep
<1>3. Inv /\ [Next]_passVars => Told
  <2> SUFFICES ASSUME Inv, [Next]_passVars, NEW n \in Instances \ Kavita,
                      EndsCovers(n), Recordable(n), Unserved(n) # {}
               PROVE  n \in shortfall'
    OBVIOUS
  <2>1. FinishCovers(n)
    BY CoversEnd DEF Unserved
  <2> QED
    BY <2>1, CompleteCovers DEF Unserved
<1>4. ShortfallTold <=> [][Told]_passVars
  BY DEF ShortfallTold
<1> HIDE DEF Inv, Told
<1>5. Inv /\ [Next]_passVars => [Told]_passVars
  BY <1>3
<1> QED
  BY <1>1, <1>2, <1>4, <1>5, PTL DEF Spec
==============================================================================
