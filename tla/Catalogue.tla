------------------------------ MODULE Catalogue ------------------------------
(***************************************************************************)
(* The catalogue half of UsArr's SQLite replica: what one transaction of    *)
(* internal/store does to the tables work, service_item_link, external_id   *)
(* and sync_report.  The database is the one variable, a transaction is a   *)
(* function from a database to a database, and an action is a transaction.  *)
(*                                                                          *)
(* Tables:                                                                  *)
(*   links    service_item_link: rows keyed by <<instance, remote ref>>     *)
(*   works    work: the row with id n is works[n]; rows are never deleted   *)
(*   owner    external_id at confidence 1.0: who owns an identifier         *)
(*   reports  sync_report rows of guard 1: an upstream id was reused        *)
(*   conflicts  the IdentityConflict entries of the batch results           *)
(* A remote ref stands for the pair (remote_kind, remote_id).               *)
(***************************************************************************)
EXTENDS Naturals, Sequences, Functions, FiniteSetsExt

CONSTANTS
  Instances,      \* rows of service_instance
  Refs,           \* (remote_kind, remote_id) pairs an upstream can report
  NoRef,          \* an item without a CatalogueParent
  Containers,     \* upstream libraries
  Idents,         \* external identifiers, as (source, value) pairs
  StrongIdents,   \* those claimed at confidence 1.0
  Kinds,          \* work.kind of an item
  ParentKind,     \* work.kind of the parent of a child item
  Items,          \* the CatalogueItems the upstreams can report
  MaxWorks        \* bound on the rows of table work

ASSUME CatalogueAssumption ==
  /\ NoRef \notin Refs
  /\ StrongIdents \subseteq Idents
  /\ ParentKind \in Kinds
  /\ MaxWorks \in Nat
  /\ Items \subseteq [ref : Refs, kind : Kinds, ids : Seq(Idents),
                      container : Containers, parent : Refs \cup {NoRef}]

VARIABLE db

catalogueVars == <<db>>
------------------------------------------------------------------------------
Keys == Instances \X Refs

\* The id of a work that is not there: NULL in parent_work_id.
NoWork == 0

WorkIds(d) == 1 .. Len(d.works)

LiveLinkOn(d, w) == \E k \in DOMAIN d.links : d.links[k].live /\ d.links[k].work = w

EmptyDB == [links |-> <<>>, works |-> <<>>, owner |-> <<>>, reports |-> {}, conflicts |-> {}]
------------------------------------------------------------------------------
(* applyOneItem: one row, its parent already written.                       *)

\* Guard 1, guardOneIdentityChanged: a tombstoned link comes back carrying
\* identifiers, and they are not the ones the link was frozen with.  The hash is
\* taken over the sorted list, so it tells sets of identifiers apart.
Fires(d, key, ids) ==
  /\ key \in DOMAIN d.links
  /\ ~ d.links[key].live
  /\ ids # <<>>
  /\ d.links[key].identity # Range(ids)

\* Tier 1: the positions of the strong identifiers that a work of the same kind owns.
Tier1Hits(d, kind, ids) ==
  {n \in DOMAIN ids : /\ ids[n] \in DOMAIN d.owner
                      /\ d.works[d.owner[ids[n]]].kind = kind}

\* FAULT: the new work's id is taken before its row is inserted.
Resolve_BeforeInsert(d, key, kind, ids) ==
  IF key \in DOMAIN d.links THEN d.links[key].work ELSE Len(d.works)

\* Which work the row is about: the linked one unless guard 1 fires, else the
\* owner of its first known identifier, else a new one.
Resolve(d, key, kind, ids) ==
  IF key \in DOMAIN d.links /\ ~ Fires(d, key, ids)
  THEN d.links[key].work
  ELSE LET hits == Tier1Hits(d, kind, ids)
       IN  IF hits = {} THEN Len(d.works) + 1 ELSE d.owner[ids[Min(hits)]]

\* INSERT or UPDATE work.  An update clears deleted_at, never blanks a parent and
\* leaves the kind alone.
UpsertWork(works, w, kind, parent) ==
  IF w > Len(works)
  THEN Append(works, [kind |-> kind, parent |-> parent, live |-> TRUE])
  ELSE [works EXCEPT ![w].live = TRUE,
                     ![w].parent = IF parent = NoWork THEN @ ELSE parent]

\* INSERT INTO external_id, each row behind its savepoint: an identifier that has
\* an owner keeps it.
UpsertOwners(owner, ids, w) ==
  [x \in DOMAIN owner \cup (Range(ids) \cap StrongIdents) |->
     IF x \in DOMAIN owner THEN owner[x] ELSE w]

\* FAULT: the constraint error of an identifier's row is swallowed.
ConflictsOf_Swallowed(owner, ids, w) == {}

\* The identifiers refused: the batch result names each with the work that wanted it.
ConflictsOf(owner, ids, w) ==
  {<<x, w>> : x \in {y \in Range(ids) \cap DOMAIN owner : owner[y] # w}}

\* FAULT: the identity follows the upstream, as every other column does.
FrozenIdentity_Latest(d, key, ids) == Range(ids)

\* The identity the link holds after the upsert: recorded at first sight (a row
\* guard 1 deleted is seen for the first time again), replaced while it is the
\* empty list's, frozen afterwards.
FrozenIdentity(d, key, ids) ==
  IF key \in DOMAIN d.links /\ ~ Fires(d, key, ids) /\ d.links[key].identity # {}
  THEN d.links[key].identity
  ELSE Range(ids)

ApplyRow(d, key, kind, ids, container, parent) ==
  LET w == Resolve(d, key, kind, ids)
      link == [work |-> w, live |-> TRUE, container |-> container,
               identity |-> FrozenIdentity(d, key, ids)]
  IN  [links |-> [k \in DOMAIN d.links \cup {key} |->
                    IF k = key THEN link ELSE d.links[k]],
       works |-> UpsertWork(d.works, w, kind, parent),
       owner |-> UpsertOwners(d.owner, ids, w),
       reports |-> IF Fires(d, key, ids)
                   THEN d.reports \cup {[key |-> key, abandoned |-> d.links[key].work]}
                   ELSE d.reports,
       conflicts |-> d.conflicts \cup ConflictsOf(d.owner, ids, w)]

\* applyOneItem whole: a child's parent is written first, under the child's
\* container and with no identifiers, in the same transaction.
ApplyItem(d, i, it) ==
  IF it.parent = NoRef
  THEN ApplyRow(d, <<i, it.ref>>, it.kind, it.ids, it.container, NoWork)
  ELSE LET p == ApplyRow(d, <<i, it.parent>>, ParentKind, <<>>, it.container, NoWork)
       IN  ApplyRow(p, <<i, it.ref>>, it.kind, it.ids, it.container,
                    p.links[<<i, it.parent>>].work)
------------------------------------------------------------------------------
(* SweepDeletions: the item half.                                           *)

\* The refusal of an empty read, ahead of every write.
Refused(d, i, seen) ==
  /\ seen = {}
  /\ \E k \in DOMAIN d.links : k[1] = i /\ d.links[k].live

\* Live links of the instance that a full read of their container did not report.
AbsentLinks(d, i, seen, observed) ==
  {k \in DOMAIN d.links : /\ k[1] = i
                          /\ d.links[k].live
                          /\ k[2] \notin seen
                          /\ d.links[k].container \in observed}

TombstoneLinks(links, absent) ==
  [k \in DOMAIN links |-> IF k \in absent THEN [links[k] EXCEPT !.live = FALSE] ELSE links[k]]

\* FAULT: a work goes with any of its links.
TombstoneWorks_AnyLink(d, touched) ==
  [w \in WorkIds(d) |->
     IF w \in touched THEN [d.works[w] EXCEPT !.live = FALSE] ELSE d.works[w]]

\* A work goes with its last live link on any instance.
TombstoneWorks(d, touched) ==
  [w \in WorkIds(d) |->
     IF w \in touched /\ ~ LiveLinkOn(d, w)
     THEN [d.works[w] EXCEPT !.live = FALSE] ELSE d.works[w]]

Sweep(d, i, seen, observed) ==
  LET absent == AbsentLinks(d, i, seen, observed)
      swept == [d EXCEPT !.links = TombstoneLinks(d.links, absent)]
  IN  [swept EXCEPT !.works = TombstoneWorks(swept, {d.links[k].work : k \in absent})]
------------------------------------------------------------------------------
Init == db = EmptyDB

\* One item of a batch, committed.  A batch of several is these steps in a row
\* with nothing between them; a batch window that has run out makes it just one.
ApplyCatalogueBatch(i, it) ==
  /\ db' = ApplyItem(db, i, it)
  /\ Len(db'.works) =< MaxWorks

\* A sweep is told what the read saw and which containers it vouches for, and can
\* check neither.
SweepDeletions(i, seen, observed) ==
  /\ ~ Refused(db, i, seen)
  /\ db' = Sweep(db, i, seen, observed)

Next ==
  \E i \in Instances :
    \/ \E it \in Items : ApplyCatalogueBatch(i, it)
    \/ \E seen \in SUBSET Refs, observed \in SUBSET Containers :
         SweepDeletions(i, seen, observed)

Spec == Init /\ [][Next]_catalogueVars
------------------------------------------------------------------------------
Link == [work : Nat \ {0}, live : BOOLEAN, container : Containers, identity : SUBSET Idents]
Work == [kind : Kinds, parent : Nat, live : BOOLEAN]

LinksOK(d) ==
  /\ DOMAIN d.links \subseteq Keys
  /\ \A k \in DOMAIN d.links : d.links[k] \in Link /\ d.links[k].work \in WorkIds(d)

OwnersOK(d) ==
  /\ DOMAIN d.owner \subseteq StrongIdents
  /\ \A x \in DOMAIN d.owner : d.owner[x] \in WorkIds(d)

WellFormed(d) ==
  /\ d = [links |-> d.links, works |-> d.works, owner |-> d.owner,
          reports |-> d.reports, conflicts |-> d.conflicts]
  /\ d.works \in Seq(Work)
  /\ LinksOK(d)
  /\ OwnersOK(d)
  /\ d.reports \subseteq [key : Keys, abandoned : Nat \ {0}]
  /\ d.conflicts \subseteq (StrongIdents \X (Nat \ {0}))

\* Rows have their types and refer to rows that exist: every link and every strong
\* identifier names a work of the table, across inserts, rebinds and hard deletes.
TypeOK == WellFormed(db)

VisibleByLink(d) == \A w \in WorkIds(d) : d.works[w].live <=> LiveLinkOn(d, w)

\* A work is on screen exactly while some instance still reports it: a sweep of one
\* instance neither hides what another reports nor leaves a work without a link
\* behind, and no revival, rebind or guard-1 delete breaks the tie.
WorkVisibility == VisibleByLink(db)

Accounted(d, k, x) ==
  /\ x \in DOMAIN d.owner
  /\ d.owner[x] = d.links[k].work \/ <<x, d.links[k].work>> \in d.conflicts

AllAccounted(d) ==
  \A k \in DOMAIN d.links : \A x \in d.links[k].identity \cap StrongIdents : Accounted(d, k, x)

\* A strong identifier a link was frozen with belongs to that link's work, or the
\* refusal to give it to that work was reported: no identity is lost silently when
\* two items claim it.
IdentityAccounted == AllAccounted(db)

\* A transaction from d to e leaves the link's work and established identity alone.
Unmoved(d, e, k) ==
  /\ k \in DOMAIN e.links
  /\ e.links[k].work = d.links[k].work
  /\ d.links[k].identity # {} => e.links[k].identity = d.links[k].identity

ReuseReported(d, e, k) ==
  /\ ~ d.links[k].live
  /\ [key |-> k, abandoned |-> d.links[k].work] \in e.reports

RebindsReported(d, e) ==
  \A k \in DOMAIN d.links : Unmoved(d, e, k) \/ ReuseReported(d, e, k)

\* A link keeps its work and an established identity for ever, unless it was a
\* tombstone and the reuse of its id went on record.
RebindOnRecord == [][RebindsReported(db, db')]_catalogueVars
==============================================================================
