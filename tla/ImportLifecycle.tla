--------------------------- MODULE ImportLifecycle ---------------------------
(***************************************************************************)
(* Who imports which service when: the four triggers of cmd/usarr (the      *)
(* bootstrap on connect, the "Run full sync now" and delta buttons, the     *)
(* reconciler), the in-process claim they share, the cached client stacks,  *)
(* and last_full_sync_at, the one thing that survives a restart.            *)
(*                                                                          *)
(* What an import does to the catalogue is FullImport's subject; here a run *)
(* is only begun, escalated, finished or failed.  Instants are kept as ages *)
(* that stop at Due, the reconcile interval.                                *)
(***************************************************************************)
EXTENDS Naturals, FiniteSets

CONSTANTS
  Instances,        \* catalogue sources in service_instance
  Deltable,         \* those whose adapter is a DeltaSource
  Never,            \* last_full_sync_at is NULL
  Due,              \* reconcileInterval, in ticks of the model's clock
  MaxDisturbances   \* bound on presses, edits, switches, failures and restarts

ASSUME LifecycleAssumption ==
  /\ Deltable \subseteq Instances
  /\ Due \in Nat \ {0} /\ Never \notin 0 .. Due
  /\ MaxDisturbances \in Nat

VARIABLES
  synced,      \* per instance: the age of last_full_sync_at
  enabled,     \* instances whose row is enabled and not deleted
  deleted,     \* instances with a deleted_at
  built,       \* g.entries whose fingerprint is the row's
  offered,     \* g.bootstrapped
  boot,        \* per instance: how far its bootstrap goroutine is
  importing,   \* g.importing, the claims
  runs,        \* the imports that hold or believe they hold a claim
  toVisit,     \* reconciler: listed enabled and not looked at yet in this pass
  overdue,     \* reconciler: due by the clock reading the pass began with
  awaited,     \* history: instances that came due and were not stamped since
  failed,      \* history: instances with an import that failed in this process
  disturbances

rows == <<synced, enabled, deleted>>
registry == <<built, offered, boot, importing, runs>>
reconciler == <<toVisit, overdue>>
history == <<awaited, failed>>
lifecycleVars == <<rows, registry, reconciler, history, disturbances>>
------------------------------------------------------------------------------
Callers == {"bootstrap", "button", "delta", "reconciler"}

\* Stages: "full" and "delta" are claimed and not begun, the other two are under way.
Run == [inst : Instances, by : Callers, age : 0 .. Due,
        stage : {"full", "delta", "importing", "syncing"}]

Older(age) == IF age < Due THEN age + 1 ELSE Due

NewRun(i, by, stage) == [inst |-> i, by |-> by, age |-> 0, stage |-> stage]

Disturb ==
  /\ disturbances < MaxDisturbances
  /\ disturbances' = disturbances + 1
------------------------------------------------------------------------------
(* The registry.                                                            *)

\* entry: a client stack is built where the cached one is not the row's, and the
\* first one this process builds schedules the bootstrap.
Entry(i) ==
  /\ built' = built \cup {i}
  /\ offered' = offered \cup {i}
  /\ boot' = IF i \notin built /\ i \notin offered THEN [boot EXCEPT ![i] = "gate"] ELSE boot

\* FAULT: the claim is taken without a look at who has it.
BeginImport_Unguarded(i, run) ==
  /\ importing' = importing \cup {i}
  /\ runs' = runs \cup {run}

\* beginImport, granted.
BeginImport(i, run) ==
  /\ i \notin importing
  /\ importing' = importing \cup {i}
  /\ runs' = runs \cup {run}

\* FAULT: only a run that finished gives its claim back.
EndImport_FinishedOnly(run, finished) ==
  /\ importing' = IF finished THEN importing \ {run.inst} ELSE importing
  /\ runs' = runs \ {run}

\* endImport, deferred by every caller.
EndImport(run, finished) ==
  /\ importing' = importing \ {run.inst}
  /\ runs' = runs \ {run}
------------------------------------------------------------------------------
(* The triggers.                                                            *)

\* The prober's minute: every enabled instance is connected to.
Probe(i) ==
  /\ i \in enabled \ built
  /\ Entry(i)
  /\ UNCHANGED <<rows, importing, runs, reconciler, history, disturbances>>

\* StartImport and StartDeltaSync, accepted: the claim is taken before the answer.
Press(i, by, stage) ==
  /\ i \in enabled
  /\ Disturb
  /\ Entry(i)
  /\ BeginImport(i, NewRun(i, by, stage))
  /\ UNCHANGED <<rows, reconciler, history>>

StartImport(i) == Press(i, "button", "full")

StartDeltaSync(i) == i \in Deltable /\ Press(i, "delta", "delta")

\* bootstrapImport reads last_full_sync_at and goes on only where it was never set.
BootstrapGate(i) ==
  /\ boot[i] = "gate"
  /\ boot' = [boot EXCEPT ![i] = IF i \notin deleted /\ synced[i] = Never THEN "claim" ELSE "none"]
  /\ UNCHANGED <<rows, built, offered, importing, runs, reconciler, history, disturbances>>

\* Its FullImport claims, or it stands down for whoever is importing.
BootstrapClaim(i) ==
  /\ boot[i] = "claim"
  /\ boot' = [boot EXCEPT ![i] = "none"]
  /\ \/ BeginImport(i, NewRun(i, "bootstrap", "full"))
     \/ i \in importing /\ UNCHANGED <<importing, runs>>
  /\ UNCHANGED <<rows, built, offered, reconciler, history, disturbances>>

Reconciling == \E run \in runs : run.by = "reconciler"

\* reconcileOnce: the instances and the clock are read once for the whole pass.
ReconcileOnce ==
  /\ toVisit = {} /\ ~ Reconciling
  /\ toVisit' = enabled
  /\ overdue' = {i \in Instances : synced[i] = Due}
  /\ UNCHANGED <<rows, registry, history, disturbances>>

ReconcileDue(i) == i \notin deleted /\ i \in overdue

\* One instance of the pass: not due, claimed, or left to whoever is importing it.
ReconcileInstance(i) ==
  /\ i \in toVisit /\ ~ Reconciling
  /\ toVisit' = toVisit \ {i}
  /\ \/ ReconcileDue(i) /\ BeginImport(i, NewRun(i, "reconciler", "full"))
     \/ (ReconcileDue(i) => i \in importing) /\ UNCHANGED <<importing, runs>>
  /\ UNCHANGED <<rows, built, offered, boot, overdue, history, disturbances>>
------------------------------------------------------------------------------
(* The runs.                                                                *)

Becomes(run, stage) == runs' = (runs \ {run}) \cup {NewRun(run.inst, run.by, stage)}

\* runImport and runDelta ask entry for the client; the run's StartedAt is now.
Begin(run) ==
  /\ run.inst \in enabled
  /\ Entry(run.inst)
  /\ \/ run.stage = "full" /\ Becomes(run, "importing")
     \/ run.stage = "delta" /\ Becomes(run, "syncing")
  /\ UNCHANGED <<rows, importing, reconciler, history, disturbances>>

Fails(run) ==
  /\ EndImport(run, FALSE)
  /\ failed' = failed \cup {run.inst}

\* entry refuses a disabled instance.
Refuse(run) ==
  /\ run.stage \in {"full", "delta"}
  /\ run.inst \notin enabled
  /\ Fails(run)
  /\ UNCHANGED <<rows, built, offered, boot, reconciler, awaited, disturbances>>

\* What is written is the run's StartedAt.
StampFullSync(run) ==
  /\ synced' = [synced EXCEPT ![run.inst] = run.age]
  /\ awaited' = awaited \ {run.inst}

\* FullImport to its end.
Finish(run) ==
  /\ run.stage = "importing"
  /\ run.inst \notin deleted
  /\ StampFullSync(run)
  /\ overdue' = IF run.age < Due THEN overdue \ {run.inst} ELSE overdue
  /\ EndImport(run, TRUE)
  /\ UNCHANGED <<enabled, deleted, built, offered, boot, toVisit, failed, disturbances>>

\* The stamp finds no row.
FinishDeleted(run) ==
  /\ run.stage = "importing"
  /\ run.inst \in deleted
  /\ Fails(run)
  /\ UNCHANGED <<rows, built, offered, boot, reconciler, awaited, disturbances>>

\* FAULT: only what the walk finds makes a delta escalate.
MustEscalate_BindingsOnly(run) == FALSE

\* There is no catalogue for a delta to add to.
MustEscalate(run) == synced[run.inst] = Never

\* DeltaSync escalates, for that or for what binding its containers found; the full
\* import runs under the claim the delta has.
Escalate(run) ==
  /\ run.stage = "syncing"
  /\ Becomes(run, "full")
  /\ UNCHANGED <<rows, built, offered, boot, importing, reconciler, history, disturbances>>

\* A delta that did what it came for; it stamps no full sync.
FinishDelta(run) ==
  /\ run.stage = "syncing"
  /\ ~ MustEscalate(run)
  /\ EndImport(run, TRUE)
  /\ UNCHANGED <<rows, built, offered, boot, reconciler, history, disturbances>>

\* Any error on the way; a full import may fail after its stamp.
Fail(run) ==
  /\ run.stage \in {"importing", "syncing"}
  /\ Disturb
  /\ Fails(run)
  /\ \/ UNCHANGED <<synced, awaited>>
     \/ run.stage = "importing" /\ run.inst \notin deleted /\ StampFullSync(run)
  /\ UNCHANGED <<enabled, deleted, built, offered, boot, reconciler>>
------------------------------------------------------------------------------
(* Time, people and the process.                                            *)

Tick ==
  /\ synced' = [i \in Instances |-> IF synced[i] = Never THEN Never ELSE Older(synced[i])]
  /\ runs' = {[run EXCEPT !.age = Older(run.age)] : run \in runs}
  /\ awaited' = {i \in Instances : synced'[i] = Due}
  /\ UNCHANGED <<enabled, deleted, built, offered, boot, importing, reconciler, failed, disturbances>>

\* PATCH /services/{id}: an address or a credential, and with it the fingerprint.
Edit(i) ==
  /\ i \in built
  /\ Disturb
  /\ built' = built \ {i}
  /\ UNCHANGED <<rows, offered, boot, importing, runs, reconciler, history>>

Enable(i) ==
  /\ i \notin deleted
  /\ Disturb
  /\ enabled' = IF i \in enabled THEN enabled \ {i} ELSE enabled \cup {i}
  /\ UNCHANGED <<synced, deleted, registry, reconciler, history>>

SoftDeleteServiceInstance(i) ==
  /\ i \notin deleted
  /\ Disturb
  /\ deleted' = deleted \cup {i}
  /\ enabled' = enabled \ {i}
  /\ UNCHANGED <<synced, registry, reconciler, history>>

\* The process ends, whatever it was doing, and another begins.
Restart ==
  /\ Disturb
  /\ built' = {} /\ offered' = {}
  /\ boot' = [i \in Instances |-> "none"]
  /\ importing' = {} /\ runs' = {}
  /\ toVisit' = {} /\ overdue' = {}
  /\ failed' = {}
  /\ UNCHANGED <<rows, awaited>>
------------------------------------------------------------------------------
LifecycleInit ==
  /\ synced \in [Instances -> {Never, 0}]
  /\ enabled = Instances /\ deleted = {}
  /\ built = {} /\ offered = {}
  /\ boot = [i \in Instances |-> "none"]
  /\ importing = {} /\ runs = {}
  /\ toVisit = {} /\ overdue = {}
  /\ awaited = {} /\ failed = {}
  /\ disturbances = 0

Progress(run) ==
  Begin(run) \/ Refuse(run) \/ Finish(run) \/ FinishDeleted(run) \/ Escalate(run) \/ FinishDelta(run)

Reconcile == ReconcileOnce \/ \E i \in Instances : ReconcileInstance(i)

LifecycleNext ==
  \/ \E i \in Instances :
       \/ Probe(i) \/ StartImport(i) \/ StartDeltaSync(i)
       \/ BootstrapGate(i) \/ BootstrapClaim(i)
       \/ ReconcileInstance(i)
       \/ Edit(i) \/ Enable(i) \/ SoftDeleteServiceInstance(i)
  \/ ReconcileOnce
  \/ \E run \in runs :
       \/ Begin(run) \/ Refuse(run) \/ Finish(run) \/ FinishDeleted(run)
       \/ Escalate(run) \/ FinishDelta(run) \/ Fail(run)
  \/ Tick
  \/ Restart

\* Goroutines are scheduled, the prober and the reconciler come round, and a run ends:
\* its client's calls carry deadlines.
LifecycleFairness ==
  /\ \A i \in Instances :
       /\ WF_lifecycleVars(Probe(i))
       /\ WF_lifecycleVars(BootstrapGate(i))
       /\ WF_lifecycleVars(BootstrapClaim(i))
       /\ WF_lifecycleVars(\E run \in runs : run.inst = i /\ Progress(run))
  /\ WF_lifecycleVars(Reconcile)

LifecycleSpec == LifecycleInit /\ [][LifecycleNext]_lifecycleVars /\ LifecycleFairness
------------------------------------------------------------------------------
\* Rows and goroutines have their types; a service this process has a client for was
\* offered its bootstrap.
LifecycleTypeOK ==
  /\ synced \in [Instances -> {Never} \cup 0 .. Due]
  /\ enabled \subseteq Instances /\ deleted \subseteq Instances /\ enabled \cap deleted = {}
  /\ built \subseteq offered /\ offered \subseteq Instances
  /\ boot \in [Instances -> {"none", "gate", "claim"}]
  /\ runs \subseteq Run
  /\ toVisit \subseteq Instances /\ overdue \subseteq Instances
  /\ awaited \subseteq Instances /\ failed \subseteq Instances
  /\ importing \subseteq Instances
  /\ disturbances \in 0 .. MaxDisturbances

\* The claims are exactly the runs', one to an instance: through stand-downs, refusals,
\* escalations, errors and restarts no claim is left behind and none is shared.
ClaimPerRun ==
  /\ importing = {run.inst : run \in runs}
  /\ \A r, s \in runs : r.inst = s.inst => r = s

\* last_full_sync_at never goes back to an earlier instant: no run that began before
\* another's stamp outlives it to overwrite it.
StampsForward ==
  [][Tick \/ \A i \in Instances : synced[i] # Never => synced'[i] \in 0 .. synced[i]]_lifecycleVars

Gone(i) == i \notin enabled

\* The reconciler keeps a synced catalogue fresh: once imports stop failing, one that is
\* due is read again, whatever claims were in the way and however often the process
\* restarted.
KeptFresh == \A i \in Instances : i \in awaited ~> Gone(i) \/ i \notin awaited

\* A catalogue that was never read is read in full after the first connect of each
\* process, unless the read fails in that process: when the bootstrap stands down, what it
\* stood down for did its work, and what failed before a restart is tried after it
\* (import.go:763-806, services.go:261-269). A failure is not made up for by the process
\* it happened in.
FirstImport ==
  \A i \in Instances : synced[i] = Never ~> Gone(i) \/ i \in failed \/ synced[i] # Never

\* "A failed or partial import leaves the gate open and the next connect retries"
\* (import.go:766-767): where a first import failed and the client is yet to be built
\* again, the service is read in the end. entry remembers for the life of the process that
\* it offered the bootstrap (services.go:266), so the next connect offers none.
FailedImportRetried ==
  \A i \in Instances :
    synced[i] = Never /\ i \in failed \ built ~> Gone(i) \/ synced[i] # Never
==============================================================================
