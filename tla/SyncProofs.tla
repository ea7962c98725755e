----------------------------- MODULE SyncProofs -----------------------------
(****************************************************************************)
(* The two halves of keeping a library current: the runs that read it, one to a *)
(* service at a time, and the watermark a delta reads from.                  *)
(****************************************************************************)
EXTENDS ImportLifecycle, Arrivals, TLAPS
------------------------------------------------------------------------------
(****************************************************************************)
(* That the claims keep imports apart, and that last_full_sync_at therefore  *)
(* never goes back.                                                          *)
(****************************************************************************)

\* Of a service that was read before, the run now reading it began after the one whose
\* start is on record.
NewestRun ==
  \A run \in runs :
    run.stage = "importing" /\ synced[run.inst] # Never => run.age =< synced[run.inst]

LifecycleInv == LifecycleTypeOK /\ ClaimPerRun /\ NewestRun

\* An age stays an age and one moment older is not younger; comparisons are kept.
LEMMA OlderAge ==
  ASSUME NEW a \in 0 .. Due, NEW b \in 0 .. Due
  PROVE  /\ Older(a) \in 0 .. Due
         /\ a =< b => Older(a) =< Older(b)
  BY LifecycleAssumption DEF Older

\* A run that begins a stage is a run.
LEMMA NewRunTyped ==
  ASSUME NEW i \in Instances, NEW by \in Callers,
         NEW stage \in {"full", "delta", "importing", "syncing"}
  PROVE  NewRun(i, by, stage) \in Run
  BY LifecycleAssumption DEF NewRun, Run

\* A claim that is granted leaves one run to an instance, none of them reading yet.
LEMMA Claimed ==
  ASSUME LifecycleInv, NEW i \in Instances, NEW by \in Callers, NEW stage \in {"full", "delta"},
         BeginImport(i, NewRun(i, by, stage)), UNCHANGED synced
  PROVE  runs' \subseteq Run /\ importing' \subseteq Instances /\ ClaimPerRun' /\ NewestRun'
<1> DEFINE new == NewRun(i, by, stage)
<1>1. new \in Run /\ new.inst = i /\ new.stage = stage
  BY NewRunTyped DEF NewRun
<1>2. runs' = runs \cup {new} /\ importing' = importing \cup {i} /\ i \notin importing
  BY DEF BeginImport
<1>3. \A r \in runs : r.inst # i
  BY <1>2 DEF LifecycleInv, ClaimPerRun
<1>4. runs' \subseteq Run /\ importing' \subseteq Instances
  BY <1>1, <1>2 DEF LifecycleInv, LifecycleTypeOK
<1>5. ClaimPerRun'
  <2>1. importing' = {run.inst : run \in runs'}
    BY <1>1, <1>2 DEF LifecycleInv, ClaimPerRun
  <2>2. ASSUME NEW r \in runs', NEW s \in runs', r.inst = s.inst
        PROVE  r = s
    BY <1>1, <1>2, <1>3, <2>2 DEF LifecycleInv, ClaimPerRun
  <2> QED BY <2>1, <2>2 DEF ClaimPerRun
<1>6. NewestRun'
  BY <1>1, <1>2 DEF LifecycleInv, NewestRun
<1> QED BY <1>4, <1>5, <1>6

\* A run that ends takes its claim with it, and leaves what it stamped to the others.
LEMMA Ended ==
  ASSUME LifecycleInv, NEW run \in runs, NEW finished \in BOOLEAN, EndImport(run, finished),
         \A i \in Instances \ {run.inst} : synced'[i] = synced[i]
  PROVE  runs' \subseteq Run /\ importing' \subseteq Instances /\ ClaimPerRun' /\ NewestRun'
<1>1. runs' = runs \ {run} /\ importing' = importing \ {run.inst} /\ runs \subseteq Run
  BY DEF EndImport, LifecycleInv, LifecycleTypeOK
<1>2. \A r \in runs' : r.inst # run.inst /\ r.inst \in Instances
  BY <1>1 DEF LifecycleInv, ClaimPerRun, Run
<1>3. importing' = {r.inst : r \in runs'}
  <2>1. ASSUME NEW i \in importing' PROVE i \in {r.inst : r \in runs'}
    BY <1>1, <2>1 DEF LifecycleInv, ClaimPerRun
  <2>2. ASSUME NEW r \in runs' PROVE r.inst \in importing'
    BY <1>1, <1>2, <2>2 DEF LifecycleInv, ClaimPerRun
  <2> QED BY <2>1, <2>2
<1>4. ClaimPerRun'
  BY <1>1, <1>3 DEF LifecycleInv, ClaimPerRun
<1>5. NewestRun'
  BY <1>1, <1>2 DEF LifecycleInv, NewestRun
<1> QED BY <1>1, <1>4, <1>5 DEF LifecycleInv, LifecycleTypeOK

\* A run that moves to its next stage, its clock at zero, is still its instance's one run.
LEMMA Moved ==
  ASSUME LifecycleInv, NEW run \in runs, NEW stage \in {"full", "delta", "importing", "syncing"},
         Becomes(run, stage), UNCHANGED <<synced, importing>>
  PROVE  runs' \subseteq Run /\ ClaimPerRun' /\ NewestRun'
<1> DEFINE next == NewRun(run.inst, run.by, stage)
<1>1. runs \subseteq Run /\ run \in Run
  BY DEF LifecycleInv, LifecycleTypeOK
<1>2. next \in Run /\ next.inst = run.inst /\ next.age = 0
  <2>1. run.inst \in Instances /\ run.by \in Callers
    BY <1>1 DEF Run
  <2> QED BY <2>1, NewRunTyped DEF NewRun
<1>3. runs' = (runs \ {run}) \cup {next}
  BY DEF Becomes
<1>4. \A r \in runs \ {run} : r.inst # run.inst
  BY DEF LifecycleInv, ClaimPerRun
<1>5. importing' = {r.inst : r \in runs'}
  <2>1. ASSUME NEW i \in importing' PROVE i \in {r.inst : r \in runs'}
    BY <1>2, <1>3, <2>1 DEF LifecycleInv, ClaimPerRun
  <2>2. ASSUME NEW r \in runs' PROVE r.inst \in importing'
    BY <1>2, <1>3, <2>2 DEF LifecycleInv, ClaimPerRun
  <2> QED BY <2>1, <2>2
<1>6. ASSUME NEW r \in runs', NEW s \in runs', r.inst = s.inst PROVE r = s
  BY <1>2, <1>3, <1>4, <1>6 DEF LifecycleInv, ClaimPerRun
<1>7. NewestRun'
  <2> SUFFICES ASSUME NEW r \in runs', r.stage = "importing", synced'[r.inst] # Never
               PROVE  r.age =< synced'[r.inst]
    BY DEF NewestRun
  <2>1. CASE r = next
    <3>1. synced[r.inst] \in 0 .. Due
      BY <1>1, <1>2, <2>1 DEF LifecycleInv, LifecycleTypeOK, Run
    <3> QED BY <1>2, <2>1, <3>1, LifecycleAssumption
  <2>2. CASE r # next
    BY <1>3, <2>2 DEF LifecycleInv, NewestRun
  <2> QED BY <2>1, <2>2
<1> QED BY <1>1, <1>2, <1>3, <1>5, <1>6, <1>7 DEF ClaimPerRun

\* Each step leaves the rows and the goroutines typed, every claim a run's, and every
\* run younger than the stamp before it.
LEMMA LifecycleStep ==
  ASSUME LifecycleInv, LifecycleNext
  PROVE  LifecycleInv'
<1> USE DEF rows, registry, reconciler, history
<1> DEFINE Kept == UNCHANGED <<synced, runs, importing>>
<1>0. Kept => ClaimPerRun' /\ NewestRun'
  BY DEF LifecycleInv, ClaimPerRun, NewestRun
<1>1. ASSUME NEW i \in Instances, Entry(i)
      PROVE  /\ built' \subseteq offered' /\ offered' \subseteq Instances
             /\ boot' \in [Instances -> {"none", "gate", "claim"}]
  BY <1>1 DEF Entry, LifecycleInv, LifecycleTypeOK
<1>2. ASSUME NEW i \in Instances, Probe(i) PROVE LifecycleInv'
  BY <1>0, <1>1, <1>2 DEF Probe, LifecycleInv, LifecycleTypeOK
<1>3. ASSUME NEW i \in Instances, NEW by \in Callers, NEW stage \in {"full", "delta"}, Press(i, by, stage)
      PROVE  LifecycleInv'
  BY <1>1, <1>3, Claimed, LifecycleAssumption DEF Press, Disturb, LifecycleInv, LifecycleTypeOK
<1>4. ASSUME NEW i \in Instances, StartImport(i) \/ StartDeltaSync(i) PROVE LifecycleInv'
  BY <1>3, <1>4 DEF StartImport, StartDeltaSync, Callers
<1>5. ASSUME NEW i \in Instances, BootstrapGate(i) PROVE LifecycleInv'
  BY <1>0, <1>5 DEF BootstrapGate, LifecycleInv, LifecycleTypeOK
<1>6. ASSUME NEW i \in Instances, BootstrapClaim(i) PROVE LifecycleInv'
  <2>1. CASE BeginImport(i, NewRun(i, "bootstrap", "full"))
    BY <1>6, <2>1, Claimed DEF BootstrapClaim, Callers, LifecycleInv, LifecycleTypeOK
  <2>2. CASE i \in importing /\ UNCHANGED <<importing, runs>>
    BY <1>0, <1>6, <2>2 DEF BootstrapClaim, LifecycleInv, LifecycleTypeOK
  <2> QED BY <1>6, <2>1, <2>2 DEF BootstrapClaim
<1>7. ASSUME ReconcileOnce PROVE LifecycleInv'
  BY <1>0, <1>7 DEF ReconcileOnce, LifecycleInv, LifecycleTypeOK
<1>8. ASSUME NEW i \in Instances, ReconcileInstance(i) PROVE LifecycleInv'
  <2>1. CASE BeginImport(i, NewRun(i, "reconciler", "full"))
    BY <1>8, <2>1, Claimed DEF ReconcileInstance, Callers, LifecycleInv, LifecycleTypeOK
  <2>2. CASE UNCHANGED <<importing, runs>>
    BY <1>0, <1>8, <2>2 DEF ReconcileInstance, LifecycleInv, LifecycleTypeOK
  <2> QED BY <1>8, <2>1, <2>2 DEF ReconcileInstance
<1>9. ASSUME NEW i \in Instances, Edit(i) \/ Enable(i) \/ SoftDeleteServiceInstance(i)
      PROVE  LifecycleInv'
  BY <1>0, <1>9, LifecycleAssumption
  DEF Edit, Enable, SoftDeleteServiceInstance, Disturb, LifecycleInv, LifecycleTypeOK
<1>10. ASSUME NEW run \in runs,
              \/ Begin(run) \/ Refuse(run) \/ Finish(run) \/ FinishDeleted(run)
              \/ Escalate(run) \/ FinishDelta(run) \/ Fail(run)
       PROVE  LifecycleInv'
  <2>1. run \in Run /\ run.inst \in Instances /\ run.age \in 0 .. Due
    BY DEF LifecycleInv, LifecycleTypeOK, Run
  <2>2. CASE Begin(run)
    BY <1>1, <2>1, <2>2, Moved DEF Begin, LifecycleInv, LifecycleTypeOK
  <2>3. ASSUME StampFullSync(run)
        PROVE  /\ synced' \in [Instances -> {Never} \cup 0 .. Due]
               /\ awaited' \subseteq Instances
               /\ \A i \in Instances \ {run.inst} : synced'[i] = synced[i]
    BY <2>1, <2>3 DEF StampFullSync, LifecycleInv, LifecycleTypeOK
  <2>4. CASE Refuse(run) \/ FinishDeleted(run)
    BY <2>1, <2>4, Ended DEF Refuse, FinishDeleted, Fails, LifecycleInv, LifecycleTypeOK
  <2>5. CASE Finish(run)
    BY <2>1, <2>3, <2>5, Ended DEF Finish, LifecycleInv, LifecycleTypeOK
  <2>6. CASE Escalate(run)
    BY <2>1, <2>6, Moved DEF Escalate, LifecycleInv, LifecycleTypeOK
  <2>7. CASE FinishDelta(run)
    BY <2>1, <2>7, Ended DEF FinishDelta, LifecycleInv, LifecycleTypeOK
  <2>8. CASE Fail(run)
    <3>1. /\ synced' \in [Instances -> {Never} \cup 0 .. Due]
          /\ awaited' \subseteq Instances
          /\ \A i \in Instances \ {run.inst} : synced'[i] = synced[i]
      BY <2>3, <2>8 DEF Fail, LifecycleInv, LifecycleTypeOK
    <3>2. disturbances' \in 0 .. MaxDisturbances
      BY <2>8, LifecycleAssumption DEF Fail, Disturb, LifecycleInv, LifecycleTypeOK
    <3>3. runs' \subseteq Run /\ importing' \subseteq Instances /\ ClaimPerRun' /\ NewestRun'
      BY <2>8, <3>1, Ended DEF Fail, Fails
    <3>4. failed' \subseteq Instances
      BY <2>1, <2>8 DEF Fail, Fails, LifecycleInv, LifecycleTypeOK
    <3>5. UNCHANGED <<enabled, deleted, built, offered, boot, toVisit, overdue>>
      BY <2>8 DEF Fail
    <3> QED BY <3>1, <3>2, <3>3, <3>4, <3>5 DEF LifecycleInv, LifecycleTypeOK
  <2> QED BY <1>10, <2>2, <2>4, <2>5, <2>6, <2>7, <2>8
<1>11. ASSUME Tick PROVE LifecycleInv'
  <2> DEFINE aged(run) == [run EXCEPT !.age = Older(run.age)]
  <2>1. runs \subseteq Run /\ runs' = {aged(run) : run \in runs}
    BY <1>11 DEF Tick, LifecycleInv, LifecycleTypeOK
  <2>2. ASSUME NEW run \in runs
        PROVE  /\ aged(run) \in Run /\ aged(run).inst = run.inst
               /\ aged(run).stage = run.stage /\ aged(run).age = Older(run.age)
    <3>1. run \in Run /\ run.age \in 0 .. Due
      BY <2>1 DEF Run
    <3>2. Older(run.age) \in 0 .. Due
      BY <3>1, OlderAge
    <3> QED BY <3>1, <3>2 DEF Run
  <2> HIDE DEF aged
  <2>3. /\ synced' \in [Instances -> {Never} \cup 0 .. Due]
        /\ \A i \in Instances : synced'[i] # Never =>
             /\ synced[i] \in 0 .. Due /\ synced[i] # Never
             /\ synced'[i] = Older(synced[i])
    <3>1. \A i \in Instances : synced[i] \in {Never} \cup 0 .. Due
      BY DEF LifecycleInv, LifecycleTypeOK
    <3>2. \A i \in Instances : synced[i] # Never => Older(synced[i]) \in 0 .. Due
      BY <3>1, OlderAge
    <3> QED BY <1>11, <3>1, <3>2, LifecycleAssumption DEF Tick
  <2>4. ClaimPerRun'
    <3>1. importing' = {run.inst : run \in runs'}
      BY <1>11, <2>1, <2>2 DEF Tick, LifecycleInv, ClaimPerRun
    <3>2. ASSUME NEW r \in runs', NEW s \in runs', r.inst = s.inst PROVE r = s
      BY <2>1, <2>2, <3>2 DEF LifecycleInv, ClaimPerRun
    <3> QED BY <3>1, <3>2 DEF ClaimPerRun
  <2>5. NewestRun'
    <3> SUFFICES ASSUME NEW r \in runs, aged(r).stage = "importing", synced'[r.inst] # Never
                 PROVE  aged(r).age =< synced'[r.inst]
      BY <2>1, <2>2 DEF NewestRun
    <3>1. r.inst \in Instances /\ r.age \in 0 .. Due
      BY <2>1 DEF Run
    <3>2. r.age =< synced[r.inst]
      BY <2>2, <2>3, <3>1 DEF LifecycleInv, NewestRun
    <3> QED BY <2>2, <2>3, <3>1, <3>2, OlderAge
  <2>6. runs' \subseteq Run
    BY <2>1, <2>2
  <2> QED BY <1>11, <2>3, <2>4, <2>5, <2>6 DEF Tick, LifecycleInv, LifecycleTypeOK
<1>12. ASSUME Restart PROVE LifecycleInv'
  <2>1. ClaimPerRun' /\ NewestRun'
    BY <1>12 DEF Restart, ClaimPerRun, NewestRun
  <2> QED BY <1>12, <2>1, LifecycleAssumption DEF Restart, Disturb, LifecycleInv, LifecycleTypeOK
<1> QED BY <1>2, <1>4, <1>5, <1>6, <1>7, <1>8, <1>9, <1>10, <1>11, <1>12 DEF LifecycleNext

\* The strengthening holds from the start and for ever.
LEMMA LifecycleInvariant == LifecycleSpec => []LifecycleInv
<1>1. LifecycleInit => LifecycleInv
  BY LifecycleAssumption
  DEF LifecycleInit, LifecycleInv, LifecycleTypeOK, ClaimPerRun, NewestRun
<1>2. LifecycleInv /\ UNCHANGED lifecycleVars => LifecycleInv'
  BY DEF lifecycleVars, rows, registry, reconciler, history,
         LifecycleInv, LifecycleTypeOK, ClaimPerRun, NewestRun
<1>3. LifecycleInv /\ [LifecycleNext]_lifecycleVars => LifecycleInv'
  BY <1>2, LifecycleStep
<1> QED BY <1>1, <1>3, PTL DEF LifecycleSpec

\* The registry's maps and goroutines and the service rows stay typed, in particular no
\* service has a client without having been offered its bootstrap.
THEOREM LifecycleTypeCorrect == LifecycleSpec => []LifecycleTypeOK
<1>1. LifecycleInv => LifecycleTypeOK
  BY DEF LifecycleInv
<1> QED BY <1>1, LifecycleInvariant, PTL

\* beginImport and endImport keep every two imports of a service apart and leak no claim,
\* for any number of services, triggers, failures and restarts.
THEOREM ClaimsCorrect == LifecycleSpec => []ClaimPerRun
<1>1. LifecycleInv => ClaimPerRun
  BY DEF LifecycleInv
<1> QED BY <1>1, LifecycleInvariant, PTL

\* A step other than time passing moves last_full_sync_at forward or not at all.
LEMMA StampStep ==
  ASSUME LifecycleInv, LifecycleNext, ~ Tick, NEW i \in Instances, synced[i] # Never
  PROVE  synced'[i] \in 0 .. synced[i]
<1> USE DEF rows, registry, reconciler, history
<1>1. synced[i] \in 0 .. Due
  BY DEF LifecycleInv, LifecycleTypeOK
<1>2. CASE UNCHANGED synced
  BY <1>1, <1>2
<1>3. ASSUME NEW run \in runs, StampFullSync(run), run.stage = "importing"
      PROVE  synced'[i] \in 0 .. synced[i]
  <2>1. run.inst \in Instances /\ run.age \in 0 .. Due
    BY DEF LifecycleInv, LifecycleTypeOK, Run
  <2>2. CASE run.inst = i
    <3>1. run.age =< synced[i]
      BY <1>3, <2>2 DEF LifecycleInv, NewestRun
    <3>2. synced'[i] = run.age
      BY <1>3, <2>1, <2>2 DEF StampFullSync, LifecycleInv, LifecycleTypeOK
    <3> QED BY <1>1, <2>1, <3>1, <3>2
  <2>3. CASE run.inst # i
    BY <1>1, <1>3, <2>3 DEF StampFullSync, LifecycleInv, LifecycleTypeOK
  <2> QED BY <2>2, <2>3
<1>4. UNCHANGED synced \/ \E run \in runs : StampFullSync(run) /\ run.stage = "importing"
  BY DEF LifecycleNext, Probe, StartImport, StartDeltaSync, Press, BootstrapGate, BootstrapClaim,
         ReconcileInstance, ReconcileOnce, Edit, Enable, SoftDeleteServiceInstance, Begin, Refuse,
         Finish, FinishDeleted, Escalate, FinishDelta, Fail, Restart
<1> QED BY <1>2, <1>3, <1>4

\* last_full_sync_at, the durable record every trigger decides by, never goes back to
\* an earlier import, whichever of them finish in whatever order.
THEOREM StampsCorrect == LifecycleSpec => StampsForward
<1>1. LifecycleInv /\ [LifecycleNext]_lifecycleVars =>
        [Tick \/ \A i \in Instances : synced[i] # Never => synced'[i] \in 0 .. synced[i]]_lifecycleVars
  BY StampStep
<1> QED BY <1>1, LifecycleInvariant, PTL DEF LifecycleSpec, StampsForward
------------------------------------------------------------------------------
(****************************************************************************)
(* No book falls behind the watermark whose lag and the longest run together *)
(* fit into the lookbehind: whatever the books, the libraries and the page size. *)
(****************************************************************************)

ArrivalsType ==
  /\ clock \in Nat \ {0} /\ stamp \in [Books -> Nat]
  /\ visible \subseteq Books /\ granted \subseteq Libs
  /\ watermark \in Nat /\ mirrored \subseteq Books /\ read \subseteq Books
  /\ at \in {"idle", "escalated", "full", "mint", "delta"}
  /\ listed \subseteq Libs /\ todo \subseteq Libs /\ lib \in Libs \cup {NoLib}
  /\ cursor \in Int /\ began \in Nat /\ walked \subseteq Libs
  /\ lag \in [Books -> Nat] /\ longest \in Nat

\* The clock is ahead of every stamp, and a run began no earlier than the watermark it
\* reads from.
Clocked ==
  /\ \A b \in Books : stamp[b] <= clock
  /\ \A b \in visible : stamp[b] # 0
  /\ watermark <= clock
  /\ began # 0 => began <= clock /\ watermark <= began
  /\ at \in {"full", "mint", "delta"} <=> began # 0

\* b was seen after the run had begun.
Late(b) == stamp[b] + lag[b] >= began

\* What the run under way has not read of the libraries behind it arrived meanwhile.
FullCovers ==
  at \in {"full", "mint"} =>
    \A b \in visible \ (mirrored \cup read) : LibOf[b] \in listed \ todo => Late(b)

\* The same of a delta, for the books that are news to it and were in reach, and in the
\* library it is in for those its cursor has passed.
DeltaCovers ==
  at = "delta" =>
    \A b \in visible \ (mirrored \cup read) :
      /\ LibOf[b] \in walked /\ Absorbed(b)
      /\ LibOf[b] \in todo => LibOf[b] = lib /\ stamp[b] <= cursor
      => Late(b)

Minted == at = "mint" => todo = {} /\ read \subseteq mirrored /\ walked \subseteq listed

ArrivalsInv ==
  /\ ArrivalsType /\ Clocked /\ FullCovers /\ DeltaCovers /\ Minted
  /\ walked \subseteq granted
  /\ InReach

\* A book that came late is above a watermark less the lookbehind, when the watermark is
\* not further ahead of the run's beginning than the lookbehind leaves the book.
LEMMA LateIsInReach ==
  ASSUME ArrivalsType, NEW b \in Books, Late(b), NEW w \in Nat, NEW n \in Nat,
         w <= began + n, lag[b] + n < Lookbehind
  PROVE  stamp[b] > w - Lookbehind
<1>1. /\ stamp[b] \in Nat /\ lag[b] \in Nat /\ began \in Nat /\ Lookbehind \in Nat
      /\ stamp[b] + lag[b] >= began
  BY ArrivalsAssumption DEF ArrivalsType, Late
<1> QED
  BY <1>1

\* A watermark advances to a stamp that was read, which the clock has passed: not further
\* from the run's beginning than the longest run.
LEMMA AdvanceBounded ==
  ASSUME ArrivalsType, Clocked, began # 0, Advance
  PROVE  /\ watermark' \in Nat /\ watermark' <= clock
         /\ longest' \in Nat /\ longest <= longest' /\ watermark' <= began + longest'
<1>0. /\ clock \in Nat /\ began \in Nat /\ longest \in Nat /\ watermark \in Nat
      /\ began <= clock /\ watermark <= began
  BY DEF ArrivalsType, Clocked
<1>1. CASE UNCHANGED <<watermark, longest>>
  BY <1>0, <1>1
<1>2. ASSUME NEW w \in Stamps(read), watermark' = w,
             longest' = IF clock - began > longest THEN clock - began ELSE longest
      PROVE  /\ watermark' \in Nat /\ watermark' <= clock
             /\ longest' \in Nat /\ longest <= longest' /\ watermark' <= began + longest'
  <2>1. PICK b \in read : w = stamp[b]
    BY DEF Stamps
  <2>2. w \in Nat /\ w <= clock
    BY <2>1 DEF ArrivalsType, Clocked
  <2> QED
    BY <1>0, <1>2, <2>2
<1> QED
  BY <1>1, <1>2 DEF Advance

-------------------------------------------------------------------------------
(* BookOrbit's own steps.                                                     *)

\* A book arrives or shows, the clock ticks, a library is granted or revoked.
LEMMA UpstreamKeeps ==
  ASSUME ArrivalsInv,
         \/ \E b \in Books : Arrive(b) \/ Show(b)
         \/ ClockTicks
         \/ \E l \in Optional : Grant(l) \/ Revoke(l)
  PROVE  ArrivalsInv'
<1> USE ArrivalsAssumption
<1>1. ASSUME NEW b \in Books, Arrive(b) PROVE ArrivalsInv'
  <2>1. b \notin visible /\ stamp[b] = 0
    BY <1>1 DEF ArrivalsInv, Arrive, Clocked
  <2>2. /\ \A c \in Books \ {b} : stamp'[c] = stamp[c]
        /\ stamp'[b] = clock /\ stamp' \in [Books -> Nat]
        /\ UNCHANGED <<clock, visible, granted, durable, underWay, histories>>
    BY <1>1 DEF Arrive, ArrivalsInv, ArrivalsType
  <2>3. ArrivalsType' /\ Minted' /\ walked' \subseteq granted'
    BY <2>2 DEF ArrivalsInv, ArrivalsType, Minted, durable, underWay, histories
  <2>4. Clocked'
    BY <2>1, <2>2 DEF ArrivalsInv, ArrivalsType, Clocked, durable, underWay, histories
  <2>5. FullCovers' /\ DeltaCovers' /\ InReach'
    BY <2>1, <2>2 DEF ArrivalsInv, ArrivalsType, FullCovers, DeltaCovers, InReach, Late, Absorbed, Reach,
            durable, underWay, histories
  <2> QED
    BY <2>3, <2>4, <2>5 DEF ArrivalsInv
<1>2. ASSUME NEW b \in Books, Show(b) PROVE ArrivalsInv'
  <2>1. /\ stamp[b] # 0 /\ b \notin visible /\ visible' = visible \cup {b}
        /\ lag' = [lag EXCEPT ![b] = clock - stamp[b]]
        /\ UNCHANGED <<clock, stamp, granted, durable, underWay, walked, longest>>
    BY <1>2 DEF Show
  <2>2. /\ clock \in Nat /\ stamp[b] \in Nat /\ stamp[b] <= clock /\ watermark \in Nat
        /\ watermark <= clock /\ longest \in Nat /\ began \in Nat /\ began <= clock
    BY DEF ArrivalsInv, ArrivalsType, Clocked
  <2>3. /\ lag' \in [Books -> Nat] /\ stamp[b] + lag'[b] = clock
        /\ \A c \in Books \ {b} : lag'[c] = lag[c]
    BY <2>1, <2>2 DEF ArrivalsInv, ArrivalsType
  <2>4. ArrivalsType' /\ Minted' /\ walked' \subseteq granted' /\ Clocked'
    BY <2>1, <2>3 DEF ArrivalsInv, ArrivalsType, Clocked, Minted, durable, underWay
  <2>5. Late(b)'
    BY <2>1, <2>2, <2>3 DEF Late, underWay
  <2>6. FullCovers' /\ DeltaCovers'
    BY <2>1, <2>3, <2>5
    DEF ArrivalsInv, ArrivalsType, FullCovers, DeltaCovers, Late, Absorbed, durable, underWay
  <2>7. lag'[b] + longest < Lookbehind => Reach(b)
    BY <2>2, <2>3, ArrivalsAssumption DEF Reach, ArrivalsInv, ArrivalsType
  <2>8. InReach'
    BY <2>1, <2>3, <2>7 DEF ArrivalsInv, ArrivalsType, InReach, Absorbed, Reach, durable, underWay
  <2> QED
    BY <2>4, <2>6, <2>8 DEF ArrivalsInv
<1>3. CASE ClockTicks
  <2>1. clock' = clock + 1 /\ UNCHANGED <<stamp, visible, granted, durable, underWay, histories>>
    BY <1>3 DEF ClockTicks
  <2>2. ArrivalsType' /\ Minted' /\ walked' \subseteq granted'
    BY <2>1 DEF ArrivalsInv, ArrivalsType, Minted, durable, underWay, histories
  <2>3. Clocked'
    BY <2>1 DEF ArrivalsInv, ArrivalsType, Clocked, durable, underWay, histories
  <2>4. FullCovers' /\ DeltaCovers' /\ InReach'
    BY <2>1 DEF ArrivalsInv, FullCovers, DeltaCovers, InReach, Late, Absorbed, Reach, durable, underWay, histories
  <2> QED
    BY <2>2, <2>3, <2>4 DEF ArrivalsInv
<1>4. ASSUME NEW l \in Optional, Grant(l) \/ Revoke(l) PROVE ArrivalsInv'
  <2>1. /\ granted' \subseteq Libs /\ walked' \subseteq walked /\ walked' \subseteq granted'
        /\ UNCHANGED <<clock, stamp, visible, durable, underWay, lag, longest>>
    BY <1>4 DEF Grant, Revoke, ArrivalsInv, ArrivalsType, histories
  <2>2. ArrivalsType' /\ Minted' /\ Clocked'
    BY <2>1 DEF ArrivalsInv, ArrivalsType, Clocked, Minted, durable, underWay, histories
  <2>3. FullCovers' /\ DeltaCovers' /\ InReach'
    BY <2>1 DEF ArrivalsInv, FullCovers, DeltaCovers, InReach, Late, Absorbed, Reach, durable, underWay, histories
  <2> QED
    BY <2>1, <2>2, <2>3 DEF ArrivalsInv
<1> QED
  BY <1>1, <1>2, <1>3, <1>4

-------------------------------------------------------------------------------
(* Runs.                                                                      *)

\* A run that ends, and leaves the watermark where it was.
LEMMA EndKeeps ==
  ASSUME ArrivalsInv, NEW kind \in {"idle", "escalated"}, Ends(kind),
         UNCHANGED <<upstream, watermark, walked, longest>>, mirrored \subseteq mirrored',
         mirrored' \subseteq Books, lag' \in [Books -> Nat],
         \A b \in Books \ mirrored' : lag'[b] = lag[b]
  PROVE  ArrivalsInv'
<1> USE ArrivalsAssumption
<1>1. ArrivalsType' /\ Clocked'
  BY DEF ArrivalsInv, ArrivalsType, Clocked, Ends, upstream, NoCursor
<1>2. FullCovers' /\ DeltaCovers' /\ Minted' /\ walked' \subseteq granted'
  BY DEF ArrivalsInv, FullCovers, DeltaCovers, Minted, Ends, upstream
<1>3. InReach'
  BY DEF ArrivalsInv, ArrivalsType, InReach, Absorbed, Reach, upstream
<1> QED
  BY <1>1, <1>2, <1>3 DEF ArrivalsInv

\* What is committed to the catalogue leaves the lag of the other books.
LEMMA MirrorsKeeps ==
  ASSUME ArrivalsType, NEW books \in SUBSET Books, Mirrors(books)
  PROVE  /\ mirrored \subseteq mirrored' /\ mirrored' \subseteq Books /\ lag' \in [Books -> Nat]
         /\ \A b \in Books \ mirrored' : lag'[b] = lag[b]
  BY DEF ArrivalsType, Mirrors

\* A run that begins has read nothing and has all its libraries before it.
LEMMA BeginKeeps ==
  ASSUME ArrivalsInv, NEW kind \in {"full", "delta"}, Begins(kind),
         UNCHANGED <<upstream, watermark, mirrored, histories>>
  PROVE  ArrivalsInv'
<1> USE ArrivalsAssumption
<1>1. ArrivalsType' /\ Clocked'
  BY DEF ArrivalsInv, ArrivalsType, Clocked, Begins, upstream, histories, NoCursor
<1>2. FullCovers' /\ Minted' /\ walked' \subseteq granted' /\ InReach'
  BY DEF ArrivalsInv, FullCovers, Minted, InReach, Absorbed, Reach, Begins, upstream, histories
<1>3. DeltaCovers'
  BY DEF ArrivalsInv, ArrivalsType, DeltaCovers, Begins, upstream, histories
<1> QED
  BY <1>1, <1>2, <1>3 DEF ArrivalsInv

\* A step of a full import, up to the watermark it mints.
LEMMA FullKeeps ==
  ASSUME ArrivalsInv, (\E l \in Libs : ReadLibrary(l)) \/ CompleteFull \/ Mint
  PROVE  ArrivalsInv'
<1> USE ArrivalsAssumption
<1>1. ASSUME NEW l \in Libs, ReadLibrary(l) PROVE ArrivalsInv'
  <2>1. /\ at = "full" /\ read' = read \cup {b \in visible : LibOf[b] = l} /\ todo' = todo \ {l}
        /\ UNCHANGED <<upstream, durable, at, listed, lib, cursor, began, histories>>
    BY <1>1 DEF ReadLibrary
  <2>2. ArrivalsType' /\ Clocked' /\ Minted' /\ DeltaCovers' /\ InReach'
          /\ walked' \subseteq granted'
    BY <2>1 DEF ArrivalsInv, ArrivalsType, Clocked, Minted, DeltaCovers, InReach, Absorbed, Reach,
            upstream, durable, histories
  <2>3. FullCovers'
    BY <2>1 DEF ArrivalsInv, FullCovers, Late, upstream, durable, histories
  <2> QED
    BY <2>2, <2>3 DEF ArrivalsInv
<1>2. CASE CompleteFull
  <2>1. /\ at = "full" /\ todo = {} /\ Mirrors(read) /\ mirrored' = mirrored \cup read
        /\ walked' = listed \cap granted /\ at' = "mint"
        /\ UNCHANGED <<upstream, watermark, listed, todo, lib, cursor, read, began, longest>>
    BY <1>2 DEF CompleteFull, Mirrors
  <2>2. /\ lag' \in [Books -> Nat] /\ mirrored' \subseteq Books
        /\ \A b \in Books \ mirrored' : lag'[b] = lag[b]
    BY <2>1, MirrorsKeeps DEF ArrivalsInv, ArrivalsType
  <2>3. ArrivalsType' /\ Clocked' /\ Minted' /\ DeltaCovers' /\ walked' \subseteq granted'
    BY <2>1, <2>2 DEF ArrivalsInv, ArrivalsType, Clocked, Minted, DeltaCovers, upstream
  <2>4. FullCovers'
    BY <2>1, <2>2 DEF ArrivalsInv, ArrivalsType, FullCovers, Late, upstream
  <2>5. ASSUME NEW b \in visible, b \notin mirrored', LibOf[b] \in listed, Absorbed(b)
        PROVE  Reach(b)
    <3>1. Late(b) /\ b \in Books
      BY <2>1, <2>5 DEF ArrivalsInv, ArrivalsType, FullCovers
    <3>2. /\ watermark \in Nat /\ longest \in Nat /\ began \in Nat /\ watermark <= began
          /\ lag[b] + longest < Lookbehind
      BY <2>1, <2>5 DEF ArrivalsInv, ArrivalsType, Clocked, Absorbed
    <3>3. watermark <= began + longest
      BY <3>2
    <3> QED
      BY <3>1, <3>2, <3>3, LateIsInReach DEF ArrivalsInv, Reach
  <2>6. InReach'
    BY <2>1, <2>2, <2>5 DEF ArrivalsInv, ArrivalsType, InReach, Absorbed, Reach, upstream
  <2> QED
    BY <2>3, <2>4, <2>6 DEF ArrivalsInv
<1>3. CASE Mint
  <2>1. at = "mint" /\ Ends("idle") /\ Advance /\ UNCHANGED <<upstream, mirrored, walked, lag>>
    BY <1>3 DEF Mint
  <2>2. /\ watermark' \in Nat /\ watermark' <= clock
        /\ longest' \in Nat /\ longest <= longest' /\ watermark' <= began + longest'
    BY <2>1, AdvanceBounded DEF ArrivalsInv, Clocked
  <2>3. ArrivalsType' /\ Clocked'
    BY <2>1, <2>2 DEF ArrivalsInv, ArrivalsType, Clocked, Ends, upstream, NoCursor
  <2>4. FullCovers' /\ DeltaCovers' /\ Minted' /\ walked' \subseteq granted'
    BY <2>1 DEF ArrivalsInv, FullCovers, DeltaCovers, Minted, Ends, upstream
  <2>5. ASSUME NEW b \in visible \ mirrored, LibOf[b] \in walked, lag[b] + longest' < Lookbehind
        PROVE  stamp[b] > watermark' - Lookbehind
    <3>1. b \in Books
      BY DEF ArrivalsInv, ArrivalsType
    <3>2. Late(b)
      BY <2>1, <2>5 DEF ArrivalsInv, Minted, FullCovers
    <3> QED
      BY <2>2, <2>5, <3>1, <3>2, LateIsInReach DEF ArrivalsInv
  <2>6. InReach'
    BY <2>1, <2>5 DEF InReach, Absorbed, Reach, upstream
  <2> QED
    BY <2>3, <2>4, <2>6 DEF ArrivalsInv
<1> QED
  BY <1>1, <1>2, <1>3

\* A library is entered below every book of it that is within reach.
LEMMA SeedKeeps ==
  ASSUME ArrivalsInv, NEW l \in Libs, NextLibrary(l)
  PROVE  ArrivalsInv'
<1> USE ArrivalsAssumption
<1>1. /\ at = "delta" /\ l \in todo /\ lib' = l
      /\ cursor' = IF watermark = 0 THEN NoCursor ELSE watermark - Lookbehind
      /\ UNCHANGED <<upstream, durable, at, listed, todo, read, began, histories>>
  BY DEF NextLibrary
<1>2. cursor' \in Int
  BY <1>1 DEF ArrivalsInv, ArrivalsType, NoCursor
<1>3. ArrivalsType' /\ Clocked' /\ FullCovers' /\ Minted' /\ InReach'
        /\ walked' \subseteq granted'
  BY <1>1, <1>2 DEF ArrivalsInv, ArrivalsType, Clocked, FullCovers, Late, Minted, InReach, Absorbed,
          Reach, upstream, durable, histories
<1>4. ASSUME NEW b \in visible \ mirrored, LibOf[b] \in walked, Absorbed(b)
      PROVE  stamp[b] > cursor'
  <2>1. Reach(b) /\ stamp[b] # 0 /\ stamp[b] \in Nat /\ watermark \in Nat
    BY <1>4 DEF ArrivalsInv, ArrivalsType, Clocked, InReach
  <2> QED
    BY <1>1, <2>1 DEF Reach, NoCursor
<1>5. DeltaCovers'
  <2> SUFFICES ASSUME NEW b \in visible \ (mirrored \cup read), LibOf[b] \in walked, Absorbed(b),
                      LibOf[b] \in todo => LibOf[b] = lib' /\ stamp[b] <= cursor'
               PROVE  Late(b)
    BY <1>1 DEF DeltaCovers, Late, Absorbed, upstream, durable, histories
  <2>1. stamp[b] \in Nat /\ cursor' \in Int /\ stamp[b] > cursor'
    BY <1>2, <1>4 DEF ArrivalsInv, ArrivalsType
  <2>2. LibOf[b] \notin todo
    BY <2>1
  <2> QED
    BY <1>1, <2>2 DEF ArrivalsInv, DeltaCovers
<1> QED
  BY <1>3, <1>5 DEF ArrivalsInv

\* A page that moves the cursor handed over every row up to where it moved.
LEMMA PageCovers ==
  ASSUME ArrivalsType, NEW page \in SUBSET Rows, IsPage(page), ~ Cardinality(page) < PageSize,
         NEW c \in Stamps(page), Moves(c, page), NEW b \in Rows \ page
  PROVE  stamp[b] > c
<1>1. \A a \in page : stamp[a] \in Nat /\ stamp[b] \in Nat
  BY DEF ArrivalsType, Rows
<1>2. PICK t \in Stamps(page) : IsTop(t, Stamps(page))
  BY DEF Moves, IsBelowTop, IsTop
<1>3. PICK a \in page : t = stamp[a]
  BY DEF Stamps
<1>4. Before(a, b)
  BY <1>3 DEF IsPage
<1> QED
  BY <1>1, <1>2, <1>3, <1>4 DEF Before, Moves, IsBelowTop, IsTop, Stamps

\* The last page of a library.
LEMMA LibraryReadKeeps ==
  ASSUME ArrivalsInv, at = "delta", lib \in Libs,
         read' = read \cup Rows, lib' = NoLib, todo' = todo \ {lib}, cursor' = NoCursor,
         UNCHANGED <<upstream, durable, at, listed, began, histories>>
  PROVE  ArrivalsInv'
<1> USE ArrivalsAssumption
<1>1. ArrivalsType' /\ Clocked' /\ FullCovers' /\ Minted' /\ InReach'
        /\ walked' \subseteq granted'
  BY DEF ArrivalsInv, ArrivalsType, Clocked, FullCovers, Late, Minted, InReach, Absorbed,
          Reach, Rows, NoCursor, upstream, durable, histories
<1>2. DeltaCovers'
  <2> SUFFICES ASSUME NEW b \in visible \ (mirrored \cup read'), LibOf[b] \in walked, Absorbed(b),
                      LibOf[b] \in todo' => LibOf[b] = NoLib /\ stamp[b] <= NoCursor
               PROVE  Late(b)
    BY DEF DeltaCovers, Late, Absorbed, upstream, durable, histories
  <2>1. stamp[b] \in Nat /\ cursor \in Int /\ LibOf[b] \in Libs
    BY DEF ArrivalsInv, ArrivalsType
  <2>2. LibOf[b] = lib => stamp[b] <= cursor
    BY <2>1 DEF Rows
  <2>3. LibOf[b] \in todo => LibOf[b] = lib
    BY <2>1
  <2> QED
    BY <2>2, <2>3 DEF ArrivalsInv, DeltaCovers
<1> QED
  BY <1>1, <1>2 DEF ArrivalsInv

\* A full page that moves the cursor.
LEMMA PageKeeps ==
  ASSUME ArrivalsInv, at = "delta", NEW page \in SUBSET Rows, IsPage(page),
         ~ Cardinality(page) < PageSize, NEW c \in Stamps(page), Moves(c, page),
         read' = read \cup page, cursor' = c,
         UNCHANGED <<upstream, durable, at, listed, todo, lib, began, histories>>
  PROVE  ArrivalsInv'
<1> USE ArrivalsAssumption
<1>1. c \in Nat /\ page \subseteq Books
  BY DEF ArrivalsInv, ArrivalsType, Stamps, Rows
<1>2. ArrivalsType' /\ Clocked' /\ FullCovers' /\ Minted' /\ InReach'
        /\ walked' \subseteq granted'
  BY <1>1 DEF ArrivalsInv, ArrivalsType, Clocked, FullCovers, Late, Minted, InReach, Absorbed,
          Reach, upstream, durable, histories
<1>3. DeltaCovers'
  <2> SUFFICES ASSUME NEW b \in visible \ (mirrored \cup read'), LibOf[b] \in walked, Absorbed(b),
                      LibOf[b] \in todo => LibOf[b] = lib /\ stamp[b] <= c
               PROVE  Late(b)
    BY DEF DeltaCovers, Late, Absorbed, upstream, durable, histories
  <2>1. stamp[b] \in Nat /\ cursor \in Int
    BY DEF ArrivalsInv, ArrivalsType
  <2>2. CASE b \in Rows
    <3>1. stamp[b] > c
      BY <2>2, PageCovers DEF ArrivalsInv
    <3>2. LibOf[b] \notin todo
      BY <1>1, <2>1, <3>1
    <3> QED
      BY <3>2 DEF ArrivalsInv, DeltaCovers
  <2>3. CASE b \notin Rows
    <3>1. LibOf[b] = lib => stamp[b] <= cursor
      BY <2>1, <2>3 DEF Rows
    <3> QED
      BY <3>1 DEF ArrivalsInv, DeltaCovers
  <2> QED
    BY <2>2, <2>3
<1> QED
  BY <1>2, <1>3 DEF ArrivalsInv

\* A walk that fails keeps it, whatever it had been handed.
LEMMA FailKeeps ==
  ASSUME ArrivalsInv, NEW handed \in SUBSET Books, WalkFails(handed)
  PROVE  ArrivalsInv'
<1>1. Ends("idle") /\ UNCHANGED <<upstream, watermark, walked, longest>>
  BY DEF WalkFails
<1>2. PICK kept \in SUBSET handed : Mirrors(kept)
  BY DEF WalkFails
<1> QED
  BY <1>1, <1>2, MirrorsKeeps, EndKeeps DEF ArrivalsInv

\* A delta reads a page: what it passes over it has, or it came late.
LEMMA ReadPageKeeps ==
  ASSUME ArrivalsInv, NEW page \in SUBSET Rows, ReadPage(page)
  PROVE  ArrivalsInv'
<1>1. /\ at = "delta" /\ lib \in Libs /\ IsPage(page)
      /\ page \subseteq Books /\ read \subseteq Books
  BY DEF ReadPage, ArrivalsInv, ArrivalsType, Rows
<1>2. CASE Cardinality(page) < PageSize
  <2>1. page = Rows
    BY <1>1, <1>2, ArrivalsAssumption DEF IsPage
  <2>2. /\ read' = read \cup page /\ lib' = NoLib /\ todo' = todo \ {lib} /\ cursor' = NoCursor
        /\ UNCHANGED <<upstream, durable, at, listed, began, histories>>
    BY <1>2 DEF ReadPage
  <2> QED
    BY <1>1, <2>1, <2>2, LibraryReadKeeps
<1>3. ASSUME ~ Cardinality(page) < PageSize, NEW c \in Stamps(page), Moves(c, page)
      PROVE  ArrivalsInv'
  <2>1. PICK d \in Stamps(page) : Moves(d, page) /\ cursor' = Resumes(d)
    BY <1>3 DEF ReadPage
  <2>2. /\ read' = read \cup page /\ cursor' = d
        /\ UNCHANGED <<upstream, durable, at, listed, todo, lib, began, histories>>
    BY <1>3, <2>1 DEF ReadPage, Resumes
  <2> QED
    BY <1>1, <1>3, <2>1, <2>2, PageKeeps
<1>4. CASE ~ Cardinality(page) < PageSize /\ ~ \E c \in Stamps(page) : Moves(c, page)
  <2>1. WalkFails(read \cup page)
    BY <1>4 DEF ReadPage
  <2> QED
    BY <1>1, <2>1, FailKeeps
<1> QED
  BY <1>2, <1>3, <1>4

\* Every book news to a delta that has passed all its libraries is late.
LEMMA CompleteDeltaKeeps ==
  ASSUME ArrivalsInv, CompleteDelta
  PROVE  ArrivalsInv'
<1> USE ArrivalsAssumption
<1>1. /\ at = "delta" /\ todo = {} /\ Ends("idle") /\ Mirrors(read) /\ Advance
      /\ mirrored' = mirrored \cup read /\ UNCHANGED <<upstream, walked>>
  BY DEF CompleteDelta, Mirrors
<1>2. /\ watermark' \in Nat /\ watermark' <= clock
      /\ longest' \in Nat /\ longest <= longest' /\ watermark' <= began + longest'
  BY <1>1, AdvanceBounded DEF ArrivalsInv, Clocked
<1>3. /\ lag' \in [Books -> Nat] /\ mirrored' \subseteq Books
      /\ \A b \in Books \ mirrored' : lag'[b] = lag[b]
  BY <1>1, MirrorsKeeps DEF ArrivalsInv, ArrivalsType
<1>4. ArrivalsType' /\ Clocked'
  BY <1>1, <1>2, <1>3 DEF ArrivalsInv, ArrivalsType, Clocked, Ends, upstream, NoCursor
<1>5. FullCovers' /\ DeltaCovers' /\ Minted' /\ walked' \subseteq granted'
  BY <1>1 DEF ArrivalsInv, FullCovers, DeltaCovers, Minted, Ends, upstream
<1>6. ASSUME NEW b \in visible \ (mirrored \cup read), LibOf[b] \in walked,
             lag[b] + longest' < Lookbehind
      PROVE  stamp[b] > watermark' - Lookbehind
  <2>1. b \in Books
    BY DEF ArrivalsInv, ArrivalsType
  <2>2. Absorbed(b)
    BY <1>2, <1>6, <2>1, ArrivalsAssumption DEF ArrivalsInv, ArrivalsType, Absorbed
  <2>3. Late(b)
    BY <1>1, <1>6, <2>2 DEF ArrivalsInv, DeltaCovers
  <2> QED
    BY <1>2, <1>6, <2>1, <2>3, LateIsInReach DEF ArrivalsInv
<1>7. InReach'
  BY <1>1, <1>3, <1>6 DEF ArrivalsInv, ArrivalsType, InReach, Absorbed, Reach, upstream
<1> QED
  BY <1>4, <1>5, <1>7 DEF ArrivalsInv

\* A run begins, takes a step or breaks.
LEMMA RunKeeps ==
  ASSUME ArrivalsInv,
          RunStep \/ Break \/ StartFull \/ \E measured \in BOOLEAN : StartDelta(measured)
  PROVE  ArrivalsInv'
<1>1. CASE StartFull
  <2>1. Begins("full") /\ UNCHANGED <<upstream, watermark, mirrored, histories>>
    BY <1>1 DEF StartFull
  <2> QED
    BY <2>1, BeginKeeps
<1>2. ASSUME NEW measured \in BOOLEAN, StartDelta(measured) PROVE ArrivalsInv'
  <2>1. /\ Ends("escalated") \/ Begins("delta")
        /\ UNCHANGED <<upstream, watermark, mirrored, histories>>
    BY <1>2 DEF StartDelta
  <2>2. /\ mirrored \subseteq mirrored' /\ mirrored' \subseteq Books /\ lag' \in [Books -> Nat]
        /\ \A b \in Books \ mirrored' : lag'[b] = lag[b]
    BY <2>1 DEF ArrivalsInv, ArrivalsType, histories
  <2> QED
    BY <2>1, <2>2, BeginKeeps, EndKeeps DEF histories
<1>3. CASE Forbidden \/ Break
  <2>1. WalkFails(read) /\ read \subseteq Books
    BY <1>3 DEF Forbidden, Break, ArrivalsInv, ArrivalsType
  <2> QED
    BY <2>1, FailKeeps
<1>4. CASE RunStep
  BY <1>1, <1>3, <1>4, FullKeeps, SeedKeeps, ReadPageKeeps, CompleteDeltaKeeps DEF RunStep
<1> QED
  BY <1>1, <1>2, <1>3, <1>4

\* Every step keeps every book in reach.
LEMMA ArrivalsStep ==
  ASSUME ArrivalsInv, [Next]_vars
  PROVE  ArrivalsInv'
<1>1. CASE UNCHANGED vars
  BY <1>1 DEF vars, upstream, durable, underWay, histories, Absorbed, ArrivalsInv, ArrivalsType, Clocked, FullCovers,
     DeltaCovers, Minted, InReach, Late, Reach
<1> QED
  BY <1>1, UpstreamKeeps, RunKeeps DEF Next

\* Nothing has arrived and nothing was read.
LEMMA ArrivalsBegin == Init => ArrivalsInv
<1> SUFFICES ASSUME Init PROVE ArrivalsInv
  OBVIOUS
<1> USE ArrivalsAssumption DEF Init
<1>1. ArrivalsType
  BY DEF ArrivalsType, NoCursor
<1>2. Clocked
  BY DEF Clocked
<1>3. FullCovers /\ DeltaCovers /\ Minted /\ walked \subseteq granted /\ InReach
  BY DEF FullCovers, DeltaCovers, Minted, InReach
<1> QED
  BY <1>1, <1>2, <1>3 DEF ArrivalsInv

\* A book that a full import could have read and that the catalogue lacks is within reach
\* of the next delta (delta.go:626, arrivals.go:332, bookorbitarrivals.go:12), whenever its
\* own lag and the longest run that moved the watermark fit into the lookbehind; nothing is
\* assumed of how long either takes.
THEOREM ArrivalsCorrect == ArrivalsSpec => []InReach
<1>1. ArrivalsInv /\ [Next]_vars => ArrivalsInv'
  BY ArrivalsStep
<1>2. ArrivalsInv => InReach
  BY DEF ArrivalsInv
<1> QED
  BY <1>1, <1>2, ArrivalsBegin, PTL DEF ArrivalsSpec
==============================================================================
