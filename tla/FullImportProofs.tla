-------------------------- MODULE FullImportProofs ---------------------------
(***************************************************************************)
(* What holds of the catalogue for every set of instances, items and        *)
(* identifiers and every bound on the table of works; and what holds of the *)
(* full import that writes it, whatever the upstream does: each of its steps *)
(* is a transaction the catalogue's Next allows or leaves the database      *)
(* alone, its walk skips no row that stands still, and its sweep takes      *)
(* nothing that did.                                                        *)
(***************************************************************************)
EXTENDS FullImport, FiniteSetTheorems, SequenceTheorems, WellFoundedInduction, TLAPS
------------------------------------------------------------------------------
(* The catalogue.                                                            *)

(* The positions tier 1 hits have a first one, so the work it resolves to is a  *)
(* work of the table: the lookup loop of applyOneItem takes the first match.    *)
LEMMA FirstHit ==
  ASSUME NEW S \in SUBSET Nat, S # {}
  PROVE  Min(S) \in S
  <1> DEFINE less == {p \in Nat \X Nat : p[1] < p[2]}
  <1>1. less = OpToRel(<, Nat)
    BY DEF OpToRel
  <1>2. IsWellFoundedOn(less, Nat)
    BY <1>1, NatLessThanWellFounded
  <1> HIDE DEF less
  <1>3. PICK n \in S : \A m \in S : <<m, n>> \notin less
    BY <1>2, WFMin
  <1>4. ASSUME NEW m \in S
        PROVE  n =< m
    <2>1. <<m, n>> \in Nat \X Nat /\ ~ (<<m, n>>[1] < <<m, n>>[2])
      BY <1>3 DEF less
    <2>2. QED
      BY <2>1
  <1>5. QED
    BY <1>4 DEF Min

(* The row an item is written to: a work of the table or the next free id.      *)
LEMMA ResolveInRange ==
  ASSUME NEW d, WellFormed(d), NEW key \in Keys, NEW kind \in Kinds, NEW ids \in Seq(Idents)
  PROVE  /\ Resolve(d, key, kind, ids) \in 1 .. Len(d.works) + 1
         /\ Len(d.works) \in Nat
  <1> DEFINE hits == Tier1Hits(d, kind, ids)
  <1>0. Len(d.works) \in Nat
    BY DEF WellFormed
  <1>1. CASE key \in DOMAIN d.links /\ ~ Fires(d, key, ids)
    BY <1>0, <1>1 DEF Resolve, WellFormed, LinksOK, WorkIds
  <1>2. CASE ~ (key \in DOMAIN d.links /\ ~ Fires(d, key, ids)) /\ hits = {}
    BY <1>0, <1>2 DEF Resolve
  <1>3. CASE ~ (key \in DOMAIN d.links /\ ~ Fires(d, key, ids)) /\ hits # {}
    <2>1. hits \in SUBSET Nat
      BY DEF Tier1Hits
    <2>2. Min(hits) \in hits
      BY <1>3, <2>1, FirstHit
    <2>3. d.owner[ids[Min(hits)]] \in WorkIds(d)
      BY <2>2 DEF Tier1Hits, WellFormed, OwnersOK
    <2>4. QED
      BY <1>0, <1>3, <2>3 DEF Resolve, WorkIds
  <1>4. QED
    BY <1>0, <1>1, <1>2, <1>3

(* The inductive invariant: the three invariants together are inductive as they *)
(* stand, because a work's visibility and an identifier's account are settled by *)
(* the transaction that touches them.                                           *)
CatInv(d) == WellFormed(d) /\ VisibleByLink(d) /\ AllAccounted(d)

RowArgs(key, kind, ids, container, parent) ==
  /\ key \in Keys
  /\ kind \in Kinds
  /\ ids \in Seq(Idents)
  /\ container \in Containers
  /\ parent \in Nat

(* An upsert of a work changes the one row, and makes it live.                  *)
LEMMA UpsertWorkRow ==
  ASSUME NEW works \in Seq(Work), NEW w \in 1 .. Len(works) + 1,
         NEW kind \in Kinds, NEW parent \in Nat
  PROVE  LET after == UpsertWork(works, w, kind, parent)
         IN  /\ after \in Seq(Work)
             /\ Len(after) \in Nat
             /\ Len(after) >= Len(works)
             /\ w \in 1 .. Len(after)
             /\ \A v \in 1 .. Len(after) : v = w \/ v \in 1 .. Len(works)
             /\ after[w].live
             /\ \A v \in 1 .. Len(works) : v # w => after[v] = works[v]
  <1>0. Len(works) \in Nat
    OBVIOUS
  <1>1. CASE w > Len(works)
    <2> DEFINE row == [kind |-> kind, parent |-> parent, live |-> TRUE]
    <2>1. row \in Work
      BY DEF Work
    <2>2. w = Len(works) + 1 /\ UpsertWork(works, w, kind, parent) = Append(works, row)
      BY <1>0, <1>1 DEF UpsertWork
    <2> HIDE DEF row
    <2>3. /\ Append(works, row) \in Seq(Work)
          /\ Len(Append(works, row)) = Len(works) + 1
          /\ Append(works, row)[Len(works) + 1] = row
          /\ \A v \in 1 .. Len(works) : Append(works, row)[v] = works[v]
      BY <1>0, <2>1, AppendProperties
    <2>4. row.live
      BY DEF row
    <2>5. QED
      BY <1>0, <2>2, <2>3, <2>4
  <1>2. CASE ~ (w > Len(works))
    <2> DEFINE row == [works[w] EXCEPT !.live = TRUE,
                                       !.parent = IF parent = NoWork THEN @ ELSE parent]
    <2>1. w \in 1 .. Len(works)
      BY <1>0, <1>2
    <2>2. works[w] \in Work
      BY <2>1
    <2>3. row \in Work /\ row.live
      BY <2>2 DEF Work
    <2>4. UpsertWork(works, w, kind, parent) = [works EXCEPT ![w] = row]
      BY <1>2, <2>1, <2>2 DEF UpsertWork, Work
    <2> HIDE DEF row
    <2>5. QED
      BY <1>0, <2>1, <2>3, <2>4
  <1>3. QED
    BY <1>1, <1>2

(* One row preserves the types and the references of the tables.                *)
LEMMA RowWellFormed ==
  ASSUME NEW d, WellFormed(d), NEW key, NEW kind, NEW ids, NEW container, NEW parent,
         RowArgs(key, kind, ids, container, parent)
  PROVE  WellFormed(ApplyRow(d, key, kind, ids, container, parent))
  <1> DEFINE e == ApplyRow(d, key, kind, ids, container, parent)
             w == Resolve(d, key, kind, ids)
             ident == FrozenIdentity(d, key, ids)
  <1>1. w \in 1 .. Len(d.works) + 1 /\ Len(d.works) \in Nat /\ w \in Nat \ {0}
    BY ResolveInRange DEF RowArgs
  <1>2. d.works \in Seq(Work) /\ LinksOK(d) /\ OwnersOK(d)
    BY DEF WellFormed
  <1>3. /\ e.works \in Seq(Work)
        /\ w \in WorkIds(e)
        /\ WorkIds(d) \subseteq WorkIds(e)
    <2>1. e.works = UpsertWork(d.works, w, kind, parent)
      BY DEF ApplyRow
    <2>2. QED
      BY <1>1, <1>2, <2>1, UpsertWorkRow DEF RowArgs, WorkIds
  <1>4. Range(ids) \subseteq Idents
    BY DEF RowArgs, Range
  <1>5. LinksOK(e)
    <2>1. e.links = [k \in DOMAIN d.links \cup {key} |->
                       IF k = key THEN [work |-> w, live |-> TRUE, container |-> container,
                                        identity |-> ident]
                       ELSE d.links[k]]
      BY DEF ApplyRow
    <2>2. ident \in SUBSET Idents
      BY <1>2, <1>4 DEF FrozenIdentity, LinksOK, Link
    <2>3. [work |-> w, live |-> TRUE, container |-> container, identity |-> ident] \in Link
      BY <1>1, <2>2 DEF Link, RowArgs
    <2> HIDE DEF e, w, ident
    <2>4. \A k \in DOMAIN e.links : e.links[k] \in Link /\ e.links[k].work \in WorkIds(e)
      BY <1>2, <1>3, <2>1, <2>3 DEF LinksOK
    <2>5. QED
      BY <1>2, <2>1, <2>4 DEF LinksOK, RowArgs
  <1>6. OwnersOK(e)
    <2>1. e.owner = UpsertOwners(d.owner, ids, w)
      BY DEF ApplyRow
    <2> HIDE DEF e, w
    <2>2. QED
      BY <1>2, <1>3, <2>1 DEF OwnersOK, UpsertOwners
  <1>7. e.reports \subseteq [key : Keys, abandoned : Nat \ {0}]
    <2>1. CASE Fires(d, key, ids)
      <3>1. d.links[key].work \in Nat \ {0} /\ key \in Keys
        BY <1>2, <2>1 DEF Fires, LinksOK, Link, RowArgs
      <3>2. e.reports = d.reports \cup {[key |-> key, abandoned |-> d.links[key].work]}
        BY <2>1 DEF ApplyRow
      <3>3. QED
        BY <3>1, <3>2 DEF WellFormed
    <2>2. CASE ~ Fires(d, key, ids)
      BY <2>2 DEF ApplyRow, WellFormed
    <2>3. QED
      BY <2>1, <2>2
  <1>8. e.conflicts \subseteq (StrongIdents \X (Nat \ {0}))
    <2>1. e.conflicts = d.conflicts \cup ConflictsOf(d.owner, ids, w)
      BY DEF ApplyRow
    <2> HIDE DEF e, w
    <2>2. ConflictsOf(d.owner, ids, w) \subseteq (StrongIdents \X (Nat \ {0}))
      BY <1>1, <1>2 DEF ConflictsOf, OwnersOK
    <2>3. QED
      BY <2>1, <2>2 DEF WellFormed
  <1>9. e = [links |-> e.links, works |-> e.works, owner |-> e.owner,
             reports |-> e.reports, conflicts |-> e.conflicts]
    BY DEF ApplyRow
  <1>10. QED
    BY <1>3, <1>5, <1>6, <1>7, <1>8, <1>9 DEF WellFormed

(* The work a row resolves to is live afterwards, with that row's link on it; no *)
(* other work gains or loses a live link.                                        *)
LEMMA RowVisible ==
  ASSUME NEW d, WellFormed(d), VisibleByLink(d),
         NEW key, NEW kind, NEW ids, NEW container, NEW parent,
         RowArgs(key, kind, ids, container, parent)
  PROVE  VisibleByLink(ApplyRow(d, key, kind, ids, container, parent))
  <1> DEFINE e == ApplyRow(d, key, kind, ids, container, parent)
             w == Resolve(d, key, kind, ids)
  <1>1. w \in 1 .. Len(d.works) + 1 /\ Len(d.works) \in Nat
    BY ResolveInRange DEF RowArgs
  <1>2. e.works = UpsertWork(d.works, w, kind, parent)
    BY DEF ApplyRow
  <1>3. /\ e.works[w].live
        /\ \A v \in WorkIds(e) : v # w => v \in WorkIds(d) /\ e.works[v] = d.works[v]
    BY <1>1, <1>2, UpsertWorkRow DEF WorkIds, RowArgs, WellFormed
  <1>4. /\ DOMAIN e.links = DOMAIN d.links \cup {key}
        /\ e.links[key].work = w /\ e.links[key].live
        /\ \A k \in DOMAIN d.links : k # key => e.links[k] = d.links[k]
    BY DEF ApplyRow
  <1>5. key \in DOMAIN d.links /\ d.links[key].live => d.links[key].work = w
    BY DEF Resolve, Fires
  <1> HIDE DEF e, w
  <1>6. SUFFICES ASSUME NEW v \in WorkIds(e)
                 PROVE  e.works[v].live <=> LiveLinkOn(e, v)
    BY DEF VisibleByLink, e
  <1>7. CASE v = w
    BY <1>3, <1>4, <1>7 DEF LiveLinkOn
  <1>8. CASE v # w
    <2>1. LiveLinkOn(e, v) <=> LiveLinkOn(d, v)
      BY <1>4, <1>5, <1>8 DEF LiveLinkOn
    <2>2. QED
      BY <1>3, <1>8, <2>1 DEF VisibleByLink
  <1>9. QED
    BY <1>7, <1>8

(* Owners only arrive and refusals only accumulate, so an identifier accounted   *)
(* for stays so; the row's own identifiers are settled as it is written.         *)
LEMMA RowAccounted ==
  ASSUME NEW d, WellFormed(d), AllAccounted(d),
         NEW key, NEW kind, NEW ids, NEW container, NEW parent,
         RowArgs(key, kind, ids, container, parent)
  PROVE  AllAccounted(ApplyRow(d, key, kind, ids, container, parent))
  <1> DEFINE e == ApplyRow(d, key, kind, ids, container, parent)
             w == Resolve(d, key, kind, ids)
             ident == FrozenIdentity(d, key, ids)
  <1>1. /\ DOMAIN e.links = DOMAIN d.links \cup {key}
        /\ e.links[key].work = w /\ e.links[key].identity = ident
        /\ \A k \in DOMAIN d.links : k # key => e.links[k] = d.links[k]
    BY DEF ApplyRow
  <1>2. /\ e.owner = UpsertOwners(d.owner, ids, w)
        /\ e.conflicts = d.conflicts \cup ConflictsOf(d.owner, ids, w)
    BY DEF ApplyRow
  <1>3. \A x \in DOMAIN d.owner : x \in DOMAIN e.owner /\ e.owner[x] = d.owner[x]
    BY <1>2 DEF UpsertOwners
  <1>4. ASSUME NEW x \in Range(ids) \cap StrongIdents
        PROVE  x \in DOMAIN e.owner /\ (e.owner[x] = w \/ <<x, w>> \in e.conflicts)
    BY <1>2 DEF UpsertOwners, ConflictsOf
  <1>5. \/ ident = Range(ids)
        \/ key \in DOMAIN d.links /\ ident = d.links[key].identity /\ w = d.links[key].work
    BY DEF FrozenIdentity, Resolve
  <1> HIDE DEF e, w, ident
  <1>6. SUFFICES ASSUME NEW k \in DOMAIN e.links,
                        NEW x \in e.links[k].identity \cap StrongIdents
                 PROVE  Accounted(e, k, x)
    BY DEF AllAccounted, e
  <1>7. CASE k = key /\ ident = Range(ids)
    BY <1>1, <1>4, <1>7 DEF Accounted
  <1>8. CASE k \in DOMAIN d.links /\ e.links[k].identity = d.links[k].identity
                                 /\ e.links[k].work = d.links[k].work
    <2>1. Accounted(d, k, x)
      BY <1>8 DEF AllAccounted
    <2>2. QED
      BY <1>2, <1>3, <1>8, <2>1 DEF Accounted
  <1>9. QED
    BY <1>1, <1>5, <1>7, <1>8

\* A row is applied: the catalogue stays well formed, visible and accounted for.
LEMMA RowInv ==
  ASSUME NEW d, CatInv(d), NEW key, NEW kind, NEW ids, NEW container, NEW parent,
         RowArgs(key, kind, ids, container, parent)
  PROVE  CatInv(ApplyRow(d, key, kind, ids, container, parent))
  BY RowWellFormed, RowVisible, RowAccounted DEF CatInv

(* The arguments of the rows an item is written as.                             *)
LEMMA ItemArgs ==
  ASSUME NEW i \in Instances, NEW it \in Items
  PROVE  /\ \A p \in Nat : RowArgs(<<i, it.ref>>, it.kind, it.ids, it.container, p)
         /\ it.parent # NoRef =>
              RowArgs(<<i, it.parent>>, ParentKind, <<>>, it.container, NoWork)
  BY CatalogueAssumption DEF RowArgs, Keys, NoWork

(* An item and its parent, in one transaction.                                  *)
LEMMA ItemInv ==
  ASSUME NEW d, CatInv(d), NEW i \in Instances, NEW it \in Items
  PROVE  CatInv(ApplyItem(d, i, it))
  <1>1. CASE it.parent = NoRef
    BY <1>1, ItemArgs, RowInv DEF ApplyItem, NoWork
  <1>2. CASE it.parent # NoRef
    <2> DEFINE p == ApplyRow(d, <<i, it.parent>>, ParentKind, <<>>, it.container, NoWork)
               parent == p.links[<<i, it.parent>>].work
    <2>1. CatInv(p)
      BY <1>2, ItemArgs, RowInv
    <2>2. <<i, it.parent>> \in DOMAIN p.links
      BY DEF ApplyRow
    <2> HIDE DEF p
    <2>3. parent \in Nat
      BY <2>1, <2>2 DEF CatInv, WellFormed, LinksOK, Link
    <2>4. RowArgs(<<i, it.ref>>, it.kind, it.ids, it.container, parent)
      BY <2>3, ItemArgs
    <2>5. CatInv(ApplyRow(p, <<i, it.ref>>, it.kind, it.ids, it.container, parent))
      BY <2>1, <2>4, RowInv
    <2>6. QED
      BY <1>2, <2>5 DEF ApplyItem, p
  <1>3. QED
    BY <1>1, <1>2

(* A sweep takes with a link exactly the works it was the last to report.       *)
LEMMA SweepInv ==
  ASSUME NEW d, CatInv(d), NEW i, NEW noted, NEW observed
  PROVE  CatInv(Sweep(d, i, noted, observed))
  <1> DEFINE absent == AbsentLinks(d, i, noted, observed)
             touched == {d.links[k].work : k \in absent}
             swept == [d EXCEPT !.links = TombstoneLinks(d.links, absent)]
             e == Sweep(d, i, noted, observed)
  <1>1. WellFormed(d) /\ d.works \in Seq(Work) /\ Len(d.works) \in Nat
    BY DEF CatInv, WellFormed
  <1>2. /\ swept.links = TombstoneLinks(d.links, absent)
        /\ swept.works = d.works
        /\ swept = [links |-> swept.links, works |-> d.works, owner |-> d.owner,
                    reports |-> d.reports, conflicts |-> d.conflicts]
    BY <1>1 DEF WellFormed
  <1>3. e = [links |-> swept.links, works |-> TombstoneWorks(swept, touched),
             owner |-> d.owner, reports |-> d.reports, conflicts |-> d.conflicts]
    <2>1. e = [swept EXCEPT !.works = TombstoneWorks(swept, touched)]
      BY DEF Sweep
    <2> HIDE DEF e, swept, touched
    <2>2. QED
      BY <1>2, <2>1
  <1>4. /\ DOMAIN swept.links = DOMAIN d.links
        /\ \A k \in DOMAIN d.links :
             /\ swept.links[k].work = d.links[k].work
             /\ swept.links[k].identity = d.links[k].identity
             /\ swept.links[k].live = (d.links[k].live /\ k \notin absent)
             /\ swept.links[k] \in Link
    <2>1. ASSUME NEW k \in DOMAIN d.links
          PROVE  d.links[k] \in Link
      BY <1>1 DEF WellFormed, LinksOK
    <2> HIDE DEF absent
    <2>2. ASSUME NEW k \in DOMAIN d.links
          PROVE  swept.links[k] = IF k \in absent THEN [d.links[k] EXCEPT !.live = FALSE]
                                  ELSE d.links[k]
      BY <1>2 DEF TombstoneLinks
    <2>3. ASSUME NEW k \in DOMAIN d.links
          PROVE  /\ swept.links[k].work = d.links[k].work
                 /\ swept.links[k].identity = d.links[k].identity
                 /\ swept.links[k].live = (d.links[k].live /\ k \notin absent)
                 /\ swept.links[k] \in Link
      <3> HIDE DEF swept
      <3> QED
        BY <2>1, <2>2 DEF Link
    <2>4. DOMAIN swept.links = DOMAIN d.links
      BY <1>2 DEF TombstoneLinks
    <2> HIDE DEF swept
    <2>5. QED
      BY <2>3, <2>4
  <1>5. e.works \in Seq(Work) /\ WorkIds(e) = WorkIds(d)
        /\ \A v \in WorkIds(d) :
             e.works[v].live = (d.works[v].live /\ (v \in touched => LiveLinkOn(swept, v)))
    <2> DEFINE works == TombstoneWorks(swept, touched)
    <2>0. WorkIds(swept) = 1 .. Len(d.works)
      BY <1>2 DEF WorkIds
    <2> HIDE DEF swept, touched, e
    <2>1. ASSUME NEW v \in 1 .. Len(d.works)
          PROVE  /\ works[v] = IF v \in touched /\ ~ LiveLinkOn(swept, v)
                               THEN [d.works[v] EXCEPT !.live = FALSE] ELSE d.works[v]
                 /\ d.works[v] \in Work
      BY <1>1, <1>2, <2>0 DEF TombstoneWorks
    <2>2. ASSUME NEW v \in 1 .. Len(d.works)
          PROVE  /\ works[v] \in Work
                 /\ works[v].live = (d.works[v].live /\ (v \in touched => LiveLinkOn(swept, v)))
      <3> HIDE DEF works
      <3>1. QED
        BY <2>1 DEF Work
    <2>3. works = [v \in 1 .. Len(d.works) |-> works[v]]
      BY <2>0 DEF TombstoneWorks
    <2> HIDE DEF works
    <2>4. works \in Seq(Work) /\ Len(works) = Len(d.works)
      <3>1. works \in [1 .. Len(d.works) -> Work]
        BY <2>2, <2>3
      <3>2. works \in Seq(Work)
        BY <1>1, <3>1, SeqDef
      <3>3. Len(works) \in Nat /\ DOMAIN works = 1 .. Len(works)
        BY <3>2, LenProperties
      <3>4. 1 .. Len(works) = 1 .. Len(d.works)
        BY <3>1, <3>3
      <3>5. QED
        BY <1>1, <3>2, <3>3, <3>4
    <2>5. e.works = works
      BY <1>3 DEF works
    <2>6. QED
      BY <2>2, <2>4, <2>5 DEF WorkIds
  <1>6. WellFormed(e)
    <2> HIDE DEF e, swept, absent, touched
    <2>1. LinksOK(e)
      BY <1>1, <1>3, <1>4, <1>5 DEF WellFormed, LinksOK
    <2>2. OwnersOK(e)
      BY <1>1, <1>3, <1>5 DEF WellFormed, OwnersOK
    <2>3. QED
      BY <1>1, <1>3, <1>5, <2>1, <2>2 DEF WellFormed
  <1>7. VisibleByLink(e)
    <2>1. SUFFICES ASSUME NEW v \in WorkIds(e)
                   PROVE  e.works[v].live <=> LiveLinkOn(e, v)
      BY DEF VisibleByLink
    <2>2. d.works[v].live <=> LiveLinkOn(d, v)
      BY <1>5 DEF CatInv, VisibleByLink
    <2>3. LiveLinkOn(e, v) <=> LiveLinkOn(swept, v)
      BY <1>3 DEF LiveLinkOn
    <2>4. LiveLinkOn(swept, v) => LiveLinkOn(d, v)
      BY <1>4 DEF LiveLinkOn
    <2>5. LiveLinkOn(d, v) /\ v \notin touched => LiveLinkOn(swept, v)
      BY <1>4 DEF LiveLinkOn
    <2>6. QED
      BY <1>5, <2>2, <2>3, <2>4, <2>5
  <1>8. AllAccounted(e)
    <2> HIDE DEF e, swept, absent, touched
    <2>1. QED
      BY <1>3, <1>4 DEF CatInv, AllAccounted, Accounted
  <1>9. QED
    BY <1>6, <1>7, <1>8 DEF CatInv, e

\* The catalogue of a BookOrbit's imports is well formed, shows what is linked, and accounts
\* for everything that was ever linked, after every row and every sweep.
THEOREM CatalogueInvariant == Spec => []CatInv(db)
  <1>1. Init => CatInv(db)
    <2>1. SUFFICES ASSUME db = EmptyDB
                   PROVE  CatInv(db)
      BY DEF Init
    <2>2. WellFormed(db)
      BY <2>1 DEF EmptyDB, WellFormed, LinksOK, OwnersOK
    <2>3. VisibleByLink(db) /\ AllAccounted(db)
      BY <2>1 DEF EmptyDB, VisibleByLink, AllAccounted, WorkIds
    <2>4. QED
      BY <2>2, <2>3 DEF CatInv
  <1>2. CatInv(db) /\ [Next]_catalogueVars => CatInv(db)'
    <2> SUFFICES ASSUME CatInv(db), [Next]_catalogueVars
                 PROVE  CatInv(db')
      OBVIOUS
    <2>1. ASSUME NEW i \in Instances, NEW it \in Items, ApplyCatalogueBatch(i, it)
          PROVE  CatInv(db')
      BY <2>1, ItemInv DEF ApplyCatalogueBatch
    <2>2. ASSUME NEW i \in Instances, NEW noted \in SUBSET Refs,
                 NEW observed \in SUBSET Containers, SweepDeletions(i, noted, observed)
          PROVE  CatInv(db')
      BY <2>2, SweepInv DEF SweepDeletions
    <2>3. CASE UNCHANGED catalogueVars
      BY <2>3 DEF catalogueVars
    <2>4. QED
      BY <2>1, <2>2, <2>3 DEF Next
  <1>3. QED
    BY <1>1, <1>2, PTL DEF Spec

(* Rows refer to rows that exist, for ever.                                     *)
THEOREM TypeCorrect == Spec => []TypeOK
  <1>1. CatInv(db) => TypeOK
    BY DEF CatInv, TypeOK
  <1>2. QED
    BY <1>1, CatalogueInvariant, PTL

(* A work is visible exactly while an instance reports it.                      *)
THEOREM VisibilityCorrect == Spec => []WorkVisibility
  <1>1. CatInv(db) => WorkVisibility
    BY DEF CatInv, WorkVisibility
  <1>2. QED
    BY <1>1, CatalogueInvariant, PTL

(* No strong identifier a link was frozen with is lost without a report.        *)
THEOREM IdentityCorrect == Spec => []IdentityAccounted
  <1>1. CatInv(db) => IdentityAccounted
    BY DEF CatInv, IdentityAccounted
  <1>2. QED
    BY <1>1, CatalogueInvariant, PTL

(* One row moves no link but its own, and that one only when guard 1 fires and   *)
(* the reuse is reported.                                                        *)
LEMMA RowRebinds ==
  ASSUME NEW d, NEW key, NEW kind, NEW ids, NEW container, NEW parent
  PROVE  LET e == ApplyRow(d, key, kind, ids, container, parent)
         IN  /\ RebindsReported(d, e)
             /\ DOMAIN d.links \subseteq DOMAIN e.links
             /\ \A k \in DOMAIN d.links : e.links[k].live \/ k # key
             /\ \A k \in DOMAIN d.links : k # key => e.links[k] = d.links[k]
             /\ ids = <<>> => \A k \in DOMAIN d.links : Unmoved(d, e, k)
  <1> DEFINE e == ApplyRow(d, key, kind, ids, container, parent)
             w == Resolve(d, key, kind, ids)
             ident == FrozenIdentity(d, key, ids)
  <1>1. /\ DOMAIN e.links = DOMAIN d.links \cup {key}
        /\ e.links[key].work = w /\ e.links[key].identity = ident /\ e.links[key].live
        /\ \A k \in DOMAIN d.links : k # key => e.links[k] = d.links[k]
    BY DEF ApplyRow
  <1>2. Fires(d, key, ids) => [key |-> key, abandoned |-> d.links[key].work] \in e.reports
    BY DEF ApplyRow
  <1>3. key \in DOMAIN d.links /\ ~ Fires(d, key, ids) =>
           /\ w = d.links[key].work
           /\ d.links[key].identity # {} => ident = d.links[key].identity
    BY DEF Resolve, FrozenIdentity
  <1>4. Fires(d, key, ids) => ~ d.links[key].live /\ ids # <<>>
    BY DEF Fires
  <1> HIDE DEF e, w, ident
  <1>5. ASSUME NEW k \in DOMAIN d.links, k # key \/ ~ Fires(d, key, ids)
        PROVE  Unmoved(d, e, k)
    BY <1>1, <1>3, <1>5 DEF Unmoved
  <1>6. ASSUME NEW k \in DOMAIN d.links, k = key, Fires(d, key, ids)
        PROVE  ReuseReported(d, e, k)
    BY <1>2, <1>4, <1>6 DEF ReuseReported
  <1>7. RebindsReported(d, e)
    BY <1>5, <1>6 DEF RebindsReported
  <1>8. QED
    BY <1>1, <1>4, <1>5, <1>7 DEF e

(* A link keeps its work and identity unless the reuse of its id is on record.  *)
THEOREM RebindCorrect == Spec => RebindOnRecord
  <1>1. ASSUME NEW i \in Instances, NEW it \in Items, ApplyCatalogueBatch(i, it)
        PROVE  RebindsReported(db, db')
    <2>1. db' = ApplyItem(db, i, it)
      BY <1>1 DEF ApplyCatalogueBatch
    <2>2. CASE it.parent = NoRef
      BY <2>1, <2>2, RowRebinds DEF ApplyItem
    <2>3. CASE it.parent # NoRef
      <3> DEFINE p == ApplyRow(db, <<i, it.parent>>, ParentKind, <<>>, it.container, NoWork)
      <3>1. db' = ApplyRow(p, <<i, it.ref>>, it.kind, it.ids, it.container,
                           p.links[<<i, it.parent>>].work)
        BY <2>1, <2>3 DEF ApplyItem
      <3>2. /\ \A k \in DOMAIN db.links : Unmoved(db, p, k)
            /\ DOMAIN db.links \subseteq DOMAIN p.links
            /\ \A k \in DOMAIN db.links : p.links[k].live \/ p.links[k] = db.links[k]
        BY RowRebinds
      <3> HIDE DEF p
      <3>3. RebindsReported(p, db')
        BY <3>1, RowRebinds
      <3>4. ASSUME NEW k \in DOMAIN db.links
            PROVE  Unmoved(db, db', k) \/ ReuseReported(db, db', k)
        BY <3>2, <3>3 DEF RebindsReported, Unmoved, ReuseReported
      <3>5. QED
        BY <3>4 DEF RebindsReported
    <2>4. QED
      BY <2>2, <2>3
  <1>2. ASSUME NEW i \in Instances, NEW noted \in SUBSET Refs,
               NEW observed \in SUBSET Containers, SweepDeletions(i, noted, observed), CatInv(db)
        PROVE  RebindsReported(db, db')
    <2> DEFINE links == TombstoneLinks(db.links, AbsentLinks(db, i, noted, observed))
    <2>1. db'.links = links
      BY <1>2 DEF SweepDeletions, Sweep, CatInv, WellFormed
    <2>2. ASSUME NEW k \in DOMAIN db.links
          PROVE  /\ k \in DOMAIN links
                 /\ links[k].work = db.links[k].work
                 /\ links[k].identity = db.links[k].identity
      <3>1. db.links[k] \in Link
        BY <1>2 DEF CatInv, WellFormed, LinksOK
      <3>2. QED
        BY <3>1 DEF TombstoneLinks, Link
    <2> HIDE DEF links
    <2>3. QED
      BY <2>1, <2>2 DEF RebindsReported, Unmoved
  <1>3. CatInv(db) /\ [Next]_catalogueVars => [RebindsReported(db, db')]_catalogueVars
    BY <1>1, <1>2 DEF Next
  <1>4. QED
    BY <1>3, CatalogueInvariant, PTL DEF Spec, RebindOnRecord
------------------------------------------------------------------------------
(* The import implements it.                                                 *)

\* A library of the listing is a container.
LEMMA ListedContainer ==
  ASSUME NEW n \in DOMAIN Listing
  PROVE  Listing[n] \in Containers
BY FullImportAssumption DEF Range

\* A page holds finitely many books.
LEMMA PageFinite ==
  ASSUME NEW c \in Containers, NEW n
  PROVE  /\ PageRows(c, n) \subseteq Books
         /\ IsFiniteSet(PageRows(c, n) \ unknown)
<1>1. PageRows(c, n) \subseteq Books
  BY DEF PageRows, Rows
<1>2. PageRows(c, n) \ unknown \subseteq Books
  BY <1>1
<1>3. IsFiniteSet(Books)
  BY FullImportAssumption
<1>4. IsFiniteSet(PageRows(c, n) \ unknown)
  BY <1>2, <1>3, FS_Subset
<1> QED
  BY <1>1, <1>4

\* A function on an initial segment of the positive numbers is a sequence.
LEMMA FunctionIsSeq ==
  ASSUME NEW S, NEW k \in Nat, NEW f \in [1 .. k -> S]
  PROVE  f \in Seq(S)
BY SeqDef

\* What a page adds to the batch are items.
LEMMA DeliveredItems ==
  ASSUME NEW c \in Containers, NEW n, NEW s \in Deliveries(PageRows(c, n) \ unknown),
         batch \in Seq(Items)
  PROVE  batch \o [m \in DOMAIN s |-> ItemOf(s[m], c)] \in Seq(Items)
<1> DEFINE rows == PageRows(c, n) \ unknown
           size == Cardinality(rows)
           items == [m \in DOMAIN s |-> ItemOf(s[m], c)]
<1>1. size \in Nat
  BY PageFinite, FS_CardinalityType
<1>2. s \in [1 .. size -> rows]
  BY DEF Deliveries
<1>3. rows \subseteq Books
  BY PageFinite
<1>4. \A m \in 1 .. size : ItemOf(s[m], c) \in Items
  BY <1>2, <1>3, CardAssumption
<1>5. items \in [1 .. size -> Items]
  BY <1>2, <1>4
<1>6. items \in Seq(Items)
  <2> HIDE DEF items, size
  <2> QED
    BY <1>1, <1>5, FunctionIsSeq
<1> QED
  BY <1>6

\* A stopped walk has its types.
LEMMA StopTyped ==
  ASSUME Stop, ImportTypeOK, UNCHANGED upstream, disturbances' \in 0 .. MaxDisturbances
  PROVE  ImportTypeOK'
<1>1. Len(Listing) \in Nat
  BY FullImportAssumption
<1>2. /\ at' \in 1 .. Len(Listing) + 1 /\ page' \in Nat
      /\ batch' \in Seq(Items) /\ seen' \subseteq Refs /\ vouched' \subseteq Containers
  BY <1>1 DEF Stop, AtRest
<1> QED
  BY <1>2 DEF Stop, ImportTypeOK, upstream

\* What an upstream change has to show: it types its own tables and the history.
LEMMA ChangeTyped ==
  ASSUME ImportTypeOK, NEW moved \in SUBSET Books, NEW closed \in SUBSET Containers,
         Changes(moved, closed),
         place' \in [Books -> Containers \cup {Nowhere}], added' \in [Books -> Dates],
         hidden' \subseteq Books, unknown' \subseteq Books, dark' \subseteq Containers
  PROVE  ImportTypeOK' /\ UNCHANGED db
<1>1. disturbances' \in 0 .. MaxDisturbances
  BY FullImportAssumption DEF Changes, ImportTypeOK
<1>2. left' \subseteq Books /\ shrunk' \subseteq Containers /\ lit' \subseteq Containers
  <2>1. CASE running
    BY <2>1 DEF Changes, ImportTypeOK
  <2>2. CASE ~ running
    BY <2>2 DEF Changes, history, ImportTypeOK
  <2> QED
    BY <2>1, <2>2
<1> QED
  BY <1>1, <1>2 DEF Changes, walk, ImportTypeOK

\* Every change of the upstream's is typed and leaves the database alone.
LEMMA UpstreamTyped ==
  ASSUME ImportTypeOK,
         \/ \E b \in Books, c \in Containers \cup {Nowhere} : Shelve(b, c)
         \/ \E b \in Books, date \in Dates : Redate(b, date)
         \/ \E b \in Books : Filter(b) \/ Reclassify(b)
         \/ \E c \in Containers : Mount(c)
  PROVE  ImportTypeOK' /\ UNCHANGED db
<1> DEFINE moved == {b \in Books : \E c \in Containers : b \in Rows(c) /\ b \notin Rows(c)'}
           closed == {c \in Containers : ~ (Rows(c) \subseteq Rows(c)')}
<1>1. RowsChange => Changes(moved, closed)
  BY DEF RowsChange
<1>2. moved \in SUBSET Books /\ closed \in SUBSET Containers
  OBVIOUS
<1> HIDE DEF moved, closed
<1>3. ASSUME NEW b \in Books, NEW c \in Containers \cup {Nowhere}, Shelve(b, c)
      PROVE  ImportTypeOK' /\ UNCHANGED db
  <2>1. place' \in [Books -> Containers \cup {Nowhere}]
    BY <1>3 DEF Shelve, ImportTypeOK
  <2> QED
    BY <1>1, <1>2, <1>3, <2>1, ChangeTyped DEF Shelve, ImportTypeOK
<1>4. ASSUME NEW b \in Books, NEW date \in Dates, Redate(b, date)
      PROVE  ImportTypeOK' /\ UNCHANGED db
  <2> DEFINE shut == IF date > added[b] THEN {place[b]} \ {Nowhere} ELSE {}
  <2>1. added' \in [Books -> Dates]
    BY <1>4 DEF Redate, ImportTypeOK
  <2>2. shut \in SUBSET Containers
    BY DEF ImportTypeOK
  <2>3. Changes({b}, shut)
    BY <1>4 DEF Redate
  <2> HIDE DEF shut
  <2> QED
    BY <1>4, <2>1, <2>2, <2>3, ChangeTyped DEF Redate, ImportTypeOK
<1>5. ASSUME NEW b \in Books, Filter(b)
      PROVE  ImportTypeOK' /\ UNCHANGED db
  BY <1>1, <1>2, <1>5, ChangeTyped DEF Filter, ImportTypeOK
<1>6. ASSUME NEW b \in Books, Reclassify(b)
      PROVE  ImportTypeOK' /\ UNCHANGED db
  BY <1>1, <1>2, <1>6, ChangeTyped DEF Reclassify, ImportTypeOK
<1>7. ASSUME NEW c \in Containers, Mount(c)
      PROVE  ImportTypeOK' /\ UNCHANGED db
  BY <1>1, <1>2, <1>7, ChangeTyped DEF Mount, ImportTypeOK
<1> QED
  BY <1>3, <1>4, <1>5, <1>6, <1>7

\* The sweep's arguments are of the catalogue's types.
LEMMA ObservedTyped ==
  ASSUME ImportTypeOK
  PROVE  seen \in SUBSET Refs /\ Observed \in SUBSET Containers
BY DEF ImportTypeOK, Observed

\* Reading a page.
LEMMA ReadPageStep ==
  ASSUME ImportTypeOK, ReadPage
  PROVE  ImportTypeOK' /\ UNCHANGED db
<1> DEFINE c == Listing[at]
           rows == PageRows(c, page)
<1>1. at \in DOMAIN Listing /\ c \in Containers
  BY ListedContainer DEF ReadPage
<1>2. batch' \in Seq(Items)
  <2>1. PICK s \in Deliveries(rows \ unknown) :
           batch' = batch \o [n \in DOMAIN s |-> ItemOf(s[n], c)]
    BY DEF ReadPage
  <2>2. batch \in Seq(Items)
    BY DEF ImportTypeOK
  <2> QED
    BY <1>1, <2>1, <2>2, DeliveredItems
<1>3. SeenUnmapped(rows) \subseteq Refs
  BY FullImportAssumption DEF SeenUnmapped, ImportTypeOK
<1>4. seen' \subseteq Refs /\ vouched' \subseteq Containers
  <2>1. seen' = seen \cup SeenUnmapped(rows)
    BY DEF ReadPage
  <2>2. vouched' = IF SeenUnmapped(rows) = {} THEN vouched ELSE vouched \cup {c}
    BY DEF ReadPage
  <2> QED
    BY <1>1, <1>3, <2>1, <2>2 DEF ImportTypeOK
<1>5. at' \in 1 .. Len(Listing) + 1 /\ page' \in Nat
  <2>1. Len(Listing) \in Nat /\ DOMAIN Listing = 1 .. Len(Listing)
    BY FullImportAssumption
  <2>2. IF ShortPage(c, page) THEN at' = at + 1 /\ page' = 0 ELSE page' = page + 1 /\ at' = at
    BY DEF ReadPage
  <2> QED
    BY <1>1, <2>1, <2>2 DEF ImportTypeOK
<1>6. UNCHANGED <<db, place, added, hidden, dark, unknown, running, short,
                  left, shrunk, lit, disturbances>>
  BY DEF ReadPage, upstream, history
<1> QED
  BY <1>2, <1>4, <1>5, <1>6 DEF ImportTypeOK

\* Committing an item.
LEMMA FlushStep ==
  ASSUME ImportTypeOK, Flush
  PROVE  ImportTypeOK' /\ Next
<1>1. /\ Head(batch) \in Items
      /\ Tail(batch) \in Seq(Items)
  BY DEF Flush, ImportTypeOK
<1>2. Head(batch).container \in Containers /\ ObservedRefs(Head(batch)) \subseteq Refs
  BY <1>1, CatalogueAssumption DEF ObservedRefs
<1>3. ImportTypeOK'
  BY <1>1, <1>2 DEF Flush, ImportTypeOK, upstream, history
<1>4. ApplyCatalogueBatch(Inst, Head(batch))
  BY DEF Flush, CommitHead
<1>5. Next
  BY <1>1, <1>4, FullImportAssumption DEF Next
<1> QED
  BY <1>3, <1>5

\* The sweep, or its refusal.
LEMMA FinishStep ==
  ASSUME ImportTypeOK, Finish
  PROVE  ImportTypeOK' /\ (Next \/ UNCHANGED db)
<1>1. ImportTypeOK'
  BY StopTyped DEF Finish, ImportTypeOK
<1>2. SweepDeletions(Inst, seen, Observed) => Next
  BY ObservedTyped, FullImportAssumption DEF Next
<1> QED
  BY <1>1, <1>2 DEF Finish

\* Every step of the import is typed, and a transaction of the catalogue or none.
LEMMA ImportStep ==
  ASSUME ImportTypeOK, [ImportNext]_importVars
  PROVE  ImportTypeOK' /\ [Next]_catalogueVars
<1>1. CASE UNCHANGED importVars
  BY <1>1 DEF importVars, upstream, walk, history, catalogueVars, ImportTypeOK
<1>2. CASE Start
  <2>1. Len(Listing) \in Nat
    BY FullImportAssumption
  <2>2. at' \in 1 .. Len(Listing) + 1 /\ page' \in Nat
        /\ batch' \in Seq(Items) /\ seen' \subseteq Refs /\ vouched' \subseteq Containers
    BY <1>2, <2>1 DEF Start, AtRest
  <2> QED
    BY <1>2, <2>2 DEF Start, ImportTypeOK, upstream, catalogueVars
<1>3. CASE ReadPage
  BY <1>3, ReadPageStep DEF catalogueVars
<1>4. CASE Flush
  BY <1>4, FlushStep
<1>5. CASE Fail
  <2>1. disturbances' \in 0 .. MaxDisturbances
    BY <1>5, FullImportAssumption DEF Fail, ImportTypeOK
  <2> QED
    BY <1>5, <2>1, StopTyped DEF Fail, catalogueVars
<1>6. CASE Finish
  BY <1>6, FinishStep DEF catalogueVars
<1>7. CASE \/ \E b \in Books, c \in Containers \cup {Nowhere} : Shelve(b, c)
           \/ \E b \in Books, date \in Dates : Redate(b, date)
           \/ \E b \in Books : Filter(b) \/ Reclassify(b)
           \/ \E c \in Containers : Mount(c)
  BY <1>7, UpstreamTyped DEF catalogueVars
<1> QED
  BY <1>1, <1>2, <1>3, <1>4, <1>5, <1>6, <1>7 DEF ImportNext

\* The import begins idle.
LEMMA ImportBegins == ImportInit => ImportTypeOK
<1> SUFFICES ASSUME ImportInit PROVE ImportTypeOK
  OBVIOUS
<1>1. Min(Dates) \in Dates
  BY FullImportAssumption, FirstHit
<1>2. at \in 1 .. Len(Listing) + 1 /\ page \in Nat /\ disturbances \in 0 .. MaxDisturbances
  BY FullImportAssumption DEF ImportInit
<1>3. batch \in Seq(Items)
  BY DEF ImportInit
<1>4. added \in [Books -> Dates]
  BY <1>1 DEF ImportInit
<1> QED
  BY <1>2, <1>3, <1>4 DEF ImportInit, ImportTypeOK

\* The walk's state has its types, the batch in hand being items and everything
\* observed being refs and containers, for any library and any upstream.
THEOREM ImportTypeCorrect == ImportSpec => []ImportTypeOK
<1>1. ImportTypeOK /\ [ImportNext]_importVars => ImportTypeOK'
  BY ImportStep
<1> QED
  BY <1>1, ImportBegins, PTL DEF ImportSpec

\* The import refines the catalogue: no step of it, and nothing the upstream does
\* between two of them, is a change of the database that Next does not allow.
LEMMA ImportImplementsCatalogue == ImportSpec => Spec
<1>1. ImportInit => Init
  BY DEF ImportInit
<1>2. ImportTypeOK /\ [ImportNext]_importVars => [Next]_catalogueVars
  BY ImportStep
<1> QED
  BY <1>1, <1>2, ImportTypeCorrect, PTL DEF ImportSpec, Spec

\* So the catalogue's visibility holds under the import as well.
THEOREM ImportVisibilityCorrect == ImportSpec => []WorkVisibility
BY ImportImplementsCatalogue, VisibilityCorrect, PTL
------------------------------------------------------------------------------
(* The walk skips nothing that stands still.                                 *)

\* What the walk rests on besides its types: while an import runs, a book that never
\* left is in sight and a library with rows is noted as lit; and what the import has
\* to say of a library it says of a lit one.
Noted ==
  /\ running =>
       /\ \A b \in Books : b \notin left => Visible(b)
       /\ \A c \in Containers : Rows(c) # {} => c \in lit
  /\ vouched \subseteq lit
  /\ \A n \in DOMAIN batch : batch[n].container \in lit

\* The walk's inductive invariant.
WalkInv == ImportTypeOK /\ Noted /\ NoRowSkipped

\* A row's position is a number, within the number of rows.
LEMMA PositionRange ==
  ASSUME NEW c \in Containers, NEW b \in Rows(c)
  PROVE  /\ Position(c, b) \in Nat /\ Cardinality(Rows(c)) \in Nat
         /\ 0 < Position(c, b) /\ Position(c, b) =< Cardinality(Rows(c))
<1> DEFINE upTo == {r \in Rows(c) : r = b \/ Earlier(r, b)}
<1>1. IsFiniteSet(Rows(c))
  BY FullImportAssumption, FS_Subset DEF Rows
<1>2. upTo \in SUBSET Rows(c) /\ b \in upTo
  OBVIOUS
<1>3. Position(c, b) = Cardinality(upTo)
  BY DEF Position
<1> HIDE DEF upTo
<1>4. IsFiniteSet(upTo) /\ Cardinality(upTo) =< Cardinality(Rows(c))
  BY <1>1, <1>2, FS_Subset
<1>5. Cardinality(upTo) # 0
  BY <1>2, <1>4, FS_EmptySet
<1>6. Cardinality(upTo) \in Nat /\ Cardinality(Rows(c)) \in Nat
  BY <1>1, <1>4, FS_CardinalityType
<1> QED
  BY <1>3, <1>4, <1>5, <1>6

\* A page delivers each of its rows: the delivery is in strict order, so it names no
\* row twice, and it is as long as there are rows.
LEMMA DeliversAll ==
  ASSUME ImportTypeOK, NEW rows \in SUBSET Books, NEW s \in Deliveries(rows), NEW b \in rows
  PROVE  \E m \in DOMAIN s : s[m] = b
<1> DEFINE size == Cardinality(rows)
<1>1. IsFiniteSet(rows)
  BY FullImportAssumption, FS_Subset
<1>2. size \in Nat
  BY <1>1, FS_CardinalityType
<1>3. /\ s \in [1 .. size -> rows]
      /\ \A m, n \in DOMAIN s : m < n => Earlier(s[m], s[n])
  BY DEF Deliveries
<1> HIDE DEF size
<1>4. ASSUME NEW r \in rows PROVE ~ Earlier(r, r)
  <2>1. added[r] \in Nat /\ Id[r] \in Nat
    BY FullImportAssumption DEF ImportTypeOK
  <2> QED
    BY <2>1 DEF Earlier
<1>5. ASSUME NEW m \in 1 .. size, NEW n \in 1 .. size, s[m] = s[n]
      PROVE  m = n
  <2>1. s[m] \in rows /\ m \in DOMAIN s /\ n \in DOMAIN s
    BY <1>3
  <2>2. ~ (m < n) /\ ~ (n < m)
    BY <1>3, <1>4, <1>5, <2>1
  <2> QED
    BY <1>2, <2>2
<1>6. s \in Injection(1 .. size, rows)
  BY <1>3, <1>5 DEF Injection, IsInjective
<1>7. Cardinality(1 .. size) = size
  BY <1>2, FS_Interval
<1>8. s \in Surjection(1 .. size, rows)
  BY <1>1, <1>6, <1>7, FS_Injection DEF size
<1> QED
  BY <1>3, <1>8 DEF Surjection

\* The rows a position counts: the book and those ahead of it.
Ahead(c, b) == {r \in Rows(c) : r = b \/ Earlier(r, b)}

\* A book that stood still is in its library, which the walk lists.
LEMMA StillListed ==
  ASSUME ImportTypeOK, Noted, running, NEW b \in Books, b \notin left
  PROVE  place[b] \in Containers /\ b \in Rows(place[b])
<1>1. PICK c \in Containers : b \in Rows(c)
  BY DEF Noted, Visible
<1> QED
  BY <1>1 DEF Rows

\* A change of the upstream's that leaves the rows of undisturbed books where they
\* were, and nothing fewer ahead of them, skips no row.
LEMMA ChangeSkipsNone ==
  ASSUME WalkInv, ImportTypeOK', NEW moved \in SUBSET Books, NEW closed \in SUBSET Containers,
         Changes(moved, closed),
         \A b \in Books \ moved, c \in Containers : b \in Rows(c) => b \in Rows(c)',
         \A c \in Containers \ closed, b \in Books \ moved : Ahead(c, b) \subseteq Ahead(c, b)'
  PROVE  WalkInv'
<1>1. /\ running' = running /\ at' = at /\ page' = page
      /\ batch' = batch /\ seen' = seen /\ vouched' = vouched
  BY DEF Changes, walk
<1>2. running => /\ left' = left \cup moved
                 /\ shrunk' = shrunk \cup closed
                 /\ lit' = lit \cup {c \in Containers : Rows(c)' # {}}
  BY DEF Changes
<1>3. ~ running => lit' = lit
  BY DEF Changes, history
<1>4. ASSUME running, NEW b \in Books, b \notin left'
      PROVE  /\ b \notin left /\ b \notin moved
             /\ \E c \in Containers :
                  place[b] = c /\ place'[b] = c /\ b \in Rows(c) /\ b \in Rows(c)'
  <2>1. b \notin left /\ b \notin moved
    BY <1>2, <1>4
  <2>2. PICK c \in Containers : place[b] = c /\ b \in Rows(c)
    BY <1>4, <2>1, StillListed DEF WalkInv
  <2>3. b \in Rows(c)'
    BY <2>1, <2>2
  <2>4. place'[b] = c
    BY <2>3 DEF Rows
  <2> QED
    BY <2>1, <2>2, <2>3, <2>4
<1>5. Noted'
  <2>1. ASSUME running', NEW b \in Books, b \notin left' PROVE Visible(b)'
    BY <1>1, <1>4, <2>1 DEF Visible
  <2>2. running' => \A c \in Containers : Rows(c)' # {} => c \in lit'
    BY <1>1, <1>2
  <2>3. lit \subseteq lit'
    BY <1>2, <1>3
  <2>4. vouched' \subseteq lit' /\ \A n \in DOMAIN batch' : batch'[n].container \in lit'
    BY <1>1, <2>3 DEF WalkInv, Noted
  <2> QED
    BY <2>1, <2>2, <2>4 DEF Noted
<1>6. ASSUME running', NEW n \in DOMAIN Listing, NEW b \in Books,
             place'[b] = Listing[n], Undisturbed(b)'
      PROVE  \/ Taken(b)'
             \/ n > at'
             \/ n = at' /\ Position(Listing[n], b)' > page' * PageSize
  <2> DEFINE c == Listing[n]
  <2>1. running /\ b \notin left' /\ place'[b] \notin shrunk'
    BY <1>1, <1>6 DEF Undisturbed
  <2>2. PICK d \in Containers : place[b] = d /\ place'[b] = d /\ b \in Rows(d) /\ b \in Rows(d)'
    BY <1>4, <2>1
  <2>3. c \in Containers /\ place[b] = c /\ b \notin left /\ b \notin moved /\ c \notin shrunk
        /\ c \notin closed /\ b \in Rows(c) /\ b \in Rows(c)'
    BY <1>2, <1>4, <1>6, <2>1, <2>2
  <2>4. Taken(b) \/ n > at \/ (n = at /\ Position(c, b) > page * PageSize)
    BY <2>1, <2>3 DEF WalkInv, NoRowSkipped, Undisturbed
  <2>5. Position(c, b) =< Position(c, b)'
    <3>1. Ahead(c, b)' \in SUBSET Books /\ IsFiniteSet(Books)
      BY FullImportAssumption DEF Ahead, Rows
    <3>2. Ahead(c, b) \in SUBSET (Ahead(c, b)')
      BY <2>3
    <3>3. Cardinality(Ahead(c, b)) =< Cardinality(Ahead(c, b)')
      BY <3>1, <3>2, FS_Subset
    <3> QED
      BY <3>3 DEF Position, Ahead
  <2>6. Taken(b) => Taken(b)'
    BY <1>1 DEF Taken
  <2>7. Position(c, b) \in Nat /\ Position(c, b)' \in Nat
    <3>1. Position(c, b) \in Nat
      BY <2>3, PositionRange
    <3>2. IsFiniteSet(Ahead(c, b)')
      BY FullImportAssumption, FS_Subset DEF Ahead, Rows
    <3> QED
      BY <3>1, <3>2, FS_CardinalityType DEF Position, Ahead
  <2>8. page * PageSize \in Nat
    BY FullImportAssumption DEF WalkInv, ImportTypeOK
  <2> QED
    BY <1>1, <2>4, <2>5, <2>6, <2>7, <2>8
<1>7. NoRowSkipped'
  BY <1>6 DEF NoRowSkipped
<1> QED
  BY <1>5, <1>7 DEF WalkInv

\* A change of rows alone: no place among the rows of a library is given up unless
\* the library is counted as closed up.
LEMMA RowsChangeSkipsNone ==
  ASSUME WalkInv, ImportTypeOK', RowsChange, UNCHANGED added
  PROVE  WalkInv'
<1> DEFINE moved == {b \in Books : \E c \in Containers : b \in Rows(c) /\ b \notin Rows(c)'}
           closed == {c \in Containers : ~ (Rows(c) \subseteq Rows(c)')}
<1>1. Changes(moved, closed)
  BY DEF RowsChange
<1>2. \A b \in Books \ moved, c \in Containers : b \in Rows(c) => b \in Rows(c)'
  OBVIOUS
<1>3. ASSUME NEW c \in Containers \ closed, NEW b \in Books \ moved
      PROVE  Ahead(c, b) \subseteq Ahead(c, b)'
  <2>1. Rows(c) \subseteq Rows(c)'
    OBVIOUS
  <2> QED
    BY <2>1 DEF Ahead, Earlier
<1>4. moved \in SUBSET Books /\ closed \in SUBSET Containers
  OBVIOUS
<1> HIDE DEF moved, closed
<1> QED
  BY <1>1, <1>2, <1>3, <1>4, ChangeSkipsNone

\* A book redated later gives up its place, and its library counts as closed up;
\* one redated earlier only adds itself to the rows ahead of others.
LEMMA RedateSkipsNone ==
  ASSUME WalkInv, ImportTypeOK', NEW b \in Books, NEW date \in Dates, Redate(b, date)
  PROVE  WalkInv'
<1> DEFINE shut == IF date > added[b] THEN {place[b]} \ {Nowhere} ELSE {}
<1>0. /\ added \in [Books -> Dates] /\ place \in [Books -> Containers \cup {Nowhere}]
      /\ added' = [added EXCEPT ![b] = date]
      /\ Dates \subseteq Nat /\ Nowhere \notin Containers
  BY FullImportAssumption DEF WalkInv, ImportTypeOK, Redate
<1>1. Changes({b}, shut)
  BY DEF Redate
<1>2. shut \in SUBSET Containers
  BY <1>0
<1>3. \A r \in Books, c \in Containers : r \in Rows(c) <=> r \in Rows(c)'
  BY DEF Redate, Rows
<1>4. ASSUME NEW c \in Containers \ shut, NEW d \in Books \ {b}, NEW r \in Ahead(c, d)
      PROVE  r \in Ahead(c, d)'
  <2>1. r \in Books /\ r \in Rows(c) /\ r \in Rows(c)' /\ place[r] = c
    BY <1>3, <1>4 DEF Ahead, Rows
  <2>2. added'[d] = added[d] /\ added[d] \in Nat /\ added[r] \in Nat /\ added'[r] \in Nat
    BY <1>0, <2>1
  <2>3. added'[r] =< added[r]
    BY <1>0, <2>1, <2>2
  <2>4. CASE r = d
    BY <2>1, <2>4 DEF Ahead
  <2>5. CASE Earlier(r, d)
    <3>1. Earlier(r, d)'
      BY <2>2, <2>3, <2>5 DEF Earlier
    <3> QED
      BY <2>1, <3>1 DEF Ahead
  <2> QED
    BY <1>4, <2>4, <2>5 DEF Ahead
<1> HIDE DEF shut
<1> QED
  BY <1>1, <1>2, <1>3, <1>4, ChangeSkipsNone

\* No change of the upstream's skips a row.
LEMMA UpstreamSkipsNone ==
  ASSUME WalkInv,
         \/ \E b \in Books, c \in Containers \cup {Nowhere} : Shelve(b, c)
         \/ \E b \in Books, date \in Dates : Redate(b, date)
         \/ \E b \in Books : Filter(b) \/ Reclassify(b)
         \/ \E c \in Containers : Mount(c)
  PROVE  WalkInv'
<1>1. ImportTypeOK'
  BY UpstreamTyped DEF WalkInv
<1>2. ASSUME NEW b \in Books, NEW date \in Dates, Redate(b, date) PROVE WalkInv'
  BY <1>1, <1>2, RedateSkipsNone
<1>3. ASSUME NEW b \in Books, NEW c \in Containers \cup {Nowhere}, Shelve(b, c) PROVE WalkInv'
  BY <1>1, <1>3, RowsChangeSkipsNone DEF Shelve
<1>4. ASSUME NEW b \in Books, Filter(b) \/ Reclassify(b) PROVE WalkInv'
  BY <1>1, <1>4, RowsChangeSkipsNone DEF Filter, Reclassify
<1>5. ASSUME NEW c \in Containers, Mount(c) PROVE WalkInv'
  BY <1>1, <1>5, RowsChangeSkipsNone DEF Mount
<1> QED
  BY <1>2, <1>3, <1>4, <1>5

\* An import begins before the first row of the first library.
LEMMA StartSkipsNone ==
  ASSUME WalkInv, ImportTypeOK', Start
  PROVE  WalkInv'
<1>1. /\ at' = 1 /\ page' = 0 /\ batch' = <<>> /\ seen' = {} /\ vouched' = {}
      /\ left' = {b \in Books : ~ Visible(b)} /\ shrunk' = {}
      /\ lit' = {c \in Containers : Rows(c) # {}}
      /\ place' = place /\ added' = added /\ hidden' = hidden /\ dark' = dark
  BY DEF Start, AtRest, upstream
<1>2. \A c \in Containers : Rows(c)' = Rows(c)
  BY <1>1 DEF Rows
<1>3. Noted'
  BY <1>1, <1>2 DEF Noted, Visible
<1>4. ASSUME NEW n \in DOMAIN Listing, NEW b \in Books, place'[b] = Listing[n], Undisturbed(b)'
      PROVE  n > at' \/ (n = at' /\ Position(Listing[n], b)' > page' * PageSize)
  <2>1. Listing[n] \in Containers /\ n \in Nat /\ n >= 1
    BY ListedContainer, FullImportAssumption
  <2>2. b \in Rows(Listing[n])
    BY <1>1, <1>4 DEF Undisturbed, Visible, Rows
  <2>3. Position(Listing[n], b)' = Position(Listing[n], b)
    BY <1>1 DEF Position, Rows, Earlier
  <2>4. Position(Listing[n], b) \in Nat /\ Position(Listing[n], b) > 0
    BY <2>1, <2>2, PositionRange
  <2>5. page' * PageSize = 0
    BY <1>1, FullImportAssumption
  <2> QED
    BY <1>1, <2>1, <2>3, <2>4, <2>5
<1> QED
  BY <1>3, <1>4 DEF WalkInv, NoRowSkipped

\* The items of the rows delivered from a library.
ItemsOf(s, c) == [m \in DOMAIN s |-> ItemOf(s[m], c)]

\* What a page adds to the batch: its rows' items, after those already there.
LEMMA DeliveredLater ==
  ASSUME NEW c \in Containers, NEW rows \in SUBSET Books, NEW s \in Deliveries(rows),
         batch \in Seq(Items), batch' = batch \o ItemsOf(s, c)
  PROVE  /\ \A k \in DOMAIN batch : k \in DOMAIN batch' /\ batch'[k] = batch[k]
         /\ \A m \in DOMAIN s : \E k \in DOMAIN batch' : batch'[k] = ItemOf(s[m], c)
         /\ \A k \in DOMAIN batch' :
              \/ k \in DOMAIN batch /\ batch'[k] = batch[k]
              \/ \E m \in DOMAIN s : batch'[k] = ItemOf(s[m], c)
<1> DEFINE size == Cardinality(rows)
           items == ItemsOf(s, c)
<1>1. size \in Nat
  BY FullImportAssumption, FS_Subset, FS_CardinalityType
<1>2. s \in [1 .. size -> rows]
  BY DEF Deliveries
<1>3. \A m \in DOMAIN s : ItemOf(s[m], c) \in Items
  BY <1>2, CardAssumption
<1>4. DOMAIN s = 1 .. size /\ items \in [1 .. size -> Items]
  BY <1>2, <1>3 DEF ItemsOf
<1>5. \A m \in DOMAIN s : items[m] = ItemOf(s[m], c)
  BY DEF ItemsOf
<1>6. batch' = batch \o items
  OBVIOUS
<1> HIDE DEF size, items
<1>7. items \in Seq(Items) /\ Len(items) = size
  BY <1>1, <1>4, FunctionIsSeq
<1>8. Len(batch) \in Nat /\ DOMAIN batch = 1 .. Len(batch)
  OBVIOUS
<1>9. /\ DOMAIN batch' = 1 .. Len(batch) + size
      /\ \A k \in 1 .. Len(batch) + size :
           batch'[k] = IF k =< Len(batch) THEN batch[k] ELSE items[k - Len(batch)]
  <2>1. batch' \in Seq(Items) /\ Len(batch') = Len(batch) + size
    BY <1>6, <1>7, ConcatProperties
  <2>2. \A k \in 1 .. Len(batch) + size :
          batch'[k] = IF k =< Len(batch) THEN batch[k] ELSE items[k - Len(batch)]
    BY <1>6, <1>7, ConcatProperties
  <2> QED
    BY <2>1, <2>2
<1>10. \A k \in DOMAIN batch : k \in DOMAIN batch' /\ batch'[k] = batch[k]
  BY <1>1, <1>8, <1>9
<1>11. ASSUME NEW m \in DOMAIN s
       PROVE  \E k \in DOMAIN batch' : batch'[k] = ItemOf(s[m], c)
  <2>1. m \in 1 .. size
    BY <1>4
  <2>2. /\ Len(batch) + m \in 1 .. Len(batch) + size
        /\ ~ (Len(batch) + m =< Len(batch)) /\ (Len(batch) + m) - Len(batch) = m
    BY <1>1, <1>8, <2>1
  <2>3. Len(batch) + m \in DOMAIN batch' /\ batch'[Len(batch) + m] = items[m]
    BY <1>9, <2>2
  <2> QED
    BY <1>5, <2>3
<1>12. ASSUME NEW k \in DOMAIN batch', k \notin DOMAIN batch
       PROVE  \E m \in DOMAIN s : batch'[k] = ItemOf(s[m], c)
  <2>1. k - Len(batch) \in 1 .. size /\ batch'[k] = items[k - Len(batch)]
    BY <1>1, <1>8, <1>9, <1>12
  <2> QED
    BY <1>4, <1>5, <2>1
<1> QED
  BY <1>10, <1>11, <1>12

\* A row of the page asked for is taken.
LEMMA PageTaken ==
  ASSUME ImportTypeOK, ReadPage, NEW b \in PageRows(Listing[at], page)
  PROVE  Taken(b)'
<1> DEFINE c == Listing[at]
           rows == PageRows(c, page)
<1>0. c \in Containers
  BY ListedContainer DEF ReadPage
<1>1. rows \in SUBSET Books /\ b \in rows /\ rows \ unknown \in SUBSET Books
  BY <1>0, PageFinite
<1>2. PICK s \in Deliveries(rows \ unknown) : batch' = batch \o ItemsOf(s, c)
  BY DEF ReadPage, ItemsOf
<1>3. CASE b \in unknown
  BY <1>1, <1>3 DEF ReadPage, SeenUnmapped, Taken
<1>4. CASE b \notin unknown
  <2>1. PICK m \in DOMAIN s : s[m] = b
    BY <1>1, <1>2, <1>4, DeliversAll
  <2>2. batch \in Seq(Items)
    BY DEF ImportTypeOK
  <2>3. \E k \in DOMAIN batch' : batch'[k] = ItemOf(s[m], c)
    BY <1>0, <1>1, <1>2, <2>1, <2>2, DeliveredLater
  <2> QED
    BY <2>1, <2>3 DEF Taken, ItemOf
<1> QED
  BY <1>3, <1>4

\* Reading a page skips no row: one that stands on the page is taken, the others
\* stand beyond it, and after a short page there are none beyond.
LEMMA ReadPageSkipsNone ==
  ASSUME WalkInv, ImportTypeOK', ReadPage
  PROVE  WalkInv'
<1> DEFINE c == Listing[at]
           rows == PageRows(c, page)
<1>0. ImportTypeOK /\ Noted /\ NoRowSkipped
  BY DEF WalkInv
<1>1. /\ running /\ at \in DOMAIN Listing /\ c \in Containers
      /\ UNCHANGED <<running, place, added, hidden, dark, left, shrunk, lit>>
      /\ seen' = seen \cup SeenUnmapped(rows)
      /\ vouched' = IF SeenUnmapped(rows) = {} THEN vouched ELSE vouched \cup {c}
      /\ IF ShortPage(c, page) THEN at' = at + 1 /\ page' = 0 ELSE page' = page + 1 /\ at' = at
  BY ListedContainer DEF ReadPage, upstream, history
<1>2. PICK s \in Deliveries(rows \ unknown) : batch' = batch \o ItemsOf(s, c)
  BY DEF ReadPage, ItemsOf
<1>3. batch \in Seq(Items)
  BY <1>0 DEF ImportTypeOK
<1>4. /\ \A k \in DOMAIN batch : k \in DOMAIN batch' /\ batch'[k] = batch[k]
      /\ \A k \in DOMAIN batch' :
           \/ k \in DOMAIN batch /\ batch'[k] = batch[k]
           \/ \E m \in DOMAIN s : batch'[k] = ItemOf(s[m], c)
  <2>1. rows \ unknown \in SUBSET Books
    BY <1>1, PageFinite
  <2> QED
    BY <1>1, <1>2, <1>3, <2>1, DeliveredLater
<1>5. \A d \in Containers : Rows(d)' = Rows(d)
  BY <1>1 DEF Rows
<1>6. rows # {} => c \in lit
  BY <1>0, <1>1 DEF Noted, PageRows
<1>7. Noted'
  <2>1. vouched' \subseteq lit'
    BY <1>0, <1>1, <1>6 DEF Noted, SeenUnmapped
  <2>2. ASSUME NEW k \in DOMAIN batch'
        PROVE  batch'[k].container \in lit'
    <3>1. CASE k \in DOMAIN batch /\ batch'[k] = batch[k]
      BY <1>0, <1>1, <3>1 DEF Noted
    <3>2. ASSUME NEW m \in DOMAIN s, batch'[k] = ItemOf(s[m], c)
          PROVE  batch'[k].container \in lit'
      <4>1. s[m] \in rows
        BY <3>2 DEF Deliveries
      <4> QED
        BY <1>1, <1>6, <3>2, <4>1 DEF ItemOf
    <3> QED
      BY <1>4, <3>1, <3>2
  <2>3. running' => /\ \A b \in Books : b \notin left' => Visible(b)'
                    /\ \A d \in Containers : Rows(d)' # {} => d \in lit'
    BY <1>0, <1>1, <1>5 DEF Noted, Visible
  <2> QED
    BY <2>1, <2>2, <2>3 DEF Noted
<1>8. ASSUME NEW n \in DOMAIN Listing, NEW b \in Books,
             place'[b] = Listing[n], Undisturbed(b)'
      PROVE  \/ Taken(b)'
             \/ n > at'
             \/ n = at' /\ Position(Listing[n], b)' > page' * PageSize
  <2>1. place[b] = Listing[n] /\ Undisturbed(b) /\ b \notin left
    BY <1>1, <1>8 DEF Undisturbed
  <2>2. Listing[n] \in Containers /\ b \in Rows(Listing[n])
    BY <1>0, <1>1, <2>1, StillListed
  <2>3. Taken(b) \/ n > at \/ (n = at /\ Position(Listing[n], b) > page * PageSize)
    BY <1>0, <1>1, <2>1 DEF NoRowSkipped
  <2>4. Taken(b) => Taken(b)'
    BY <1>1, <1>4 DEF Taken
  <2>5. /\ Position(Listing[n], b)' = Position(Listing[n], b)
        /\ Position(Listing[n], b) \in Nat /\ Position(Listing[n], b) > 0
        /\ Position(Listing[n], b) =< Cardinality(Rows(Listing[n]))
        /\ Cardinality(Rows(Listing[n])) \in Nat
    BY <1>1, <2>2, PositionRange DEF Position, Rows, Earlier
  <2>6. at \in Nat /\ n \in Nat /\ page \in Nat /\ PageSize \in Nat /\ (page + 1) * PageSize \in Nat
    BY <1>0, FullImportAssumption DEF ImportTypeOK
  <2>7. CASE n > at
    <3>1. 0 * PageSize = 0
      BY <2>6
    <3>2. n = at + 1 \/ n > at + 1
      BY <2>6, <2>7
    <3> QED
      BY <1>1, <2>5, <2>6, <2>7, <3>1, <3>2
  <2>8. CASE n = at /\ Position(Listing[n], b) > page * PageSize
    <3>1. CASE Position(Listing[n], b) =< (page + 1) * PageSize
      <4>1. b \in rows
        BY <2>2, <2>8, <3>1 DEF PageRows
      <4> QED
        BY <1>0, <4>1, PageTaken
    <3>2. CASE Position(Listing[n], b) > (page + 1) * PageSize
      <4>1. ~ ShortPage(c, page)
        BY <2>5, <2>6, <2>8, <3>2 DEF ShortPage
      <4> QED
        BY <1>1, <2>5, <2>8, <3>2, <4>1
    <3> QED
      BY <2>5, <2>6, <3>1, <3>2
  <2> QED
    BY <2>3, <2>4, <2>7, <2>8
<1> QED
  BY <1>7, <1>8 DEF WalkInv, NoRowSkipped

\* Committing an item takes it from the batch to the observed.
LEMMA FlushSkipsNone ==
  ASSUME WalkInv, ImportTypeOK', Flush
  PROVE  WalkInv'
<1>0. ImportTypeOK /\ Noted /\ NoRowSkipped
  BY DEF WalkInv
<1>1. /\ running /\ batch # <<>>
      /\ UNCHANGED <<running, at, page, place, added, hidden, dark, left, shrunk, lit>>
      /\ seen' = seen \cup ObservedRefs(Head(batch))
      /\ vouched' = vouched \cup {Head(batch).container}
      /\ batch' = Tail(batch)
  BY DEF Flush, upstream, history
<1>2. /\ batch \in Seq(Items) /\ Len(batch) \in Nat /\ DOMAIN batch = 1 .. Len(batch)
      /\ Head(batch) = batch[1] /\ 1 \in DOMAIN batch
  BY <1>0, <1>1 DEF ImportTypeOK
<1>3. /\ DOMAIN batch' = 1 .. Len(batch) - 1
      /\ \A k \in DOMAIN batch' : batch'[k] = batch[k + 1]
  BY <1>1, <1>2, HeadTailProperties
<1>4. \A k \in DOMAIN batch' : k + 1 \in DOMAIN batch
  BY <1>2, <1>3
<1>5. \A k \in DOMAIN batch : k = 1 \/ k - 1 \in DOMAIN batch'
  BY <1>2, <1>3
<1>6. \A d \in Containers : Rows(d)' = Rows(d)
  BY <1>1 DEF Rows
<1>7. Noted'
  <2>1. vouched' \subseteq lit'
    BY <1>0, <1>1, <1>2 DEF Noted
  <2>2. \A k \in DOMAIN batch' : batch'[k].container \in lit'
    BY <1>0, <1>1, <1>3, <1>4 DEF Noted
  <2>3. running' => /\ \A b \in Books : b \notin left' => Visible(b)'
                    /\ \A d \in Containers : Rows(d)' # {} => d \in lit'
    BY <1>0, <1>1, <1>6 DEF Noted, Visible
  <2> QED
    BY <2>1, <2>2, <2>3 DEF Noted
<1>8. ASSUME NEW b \in Books, Taken(b)
      PROVE  Taken(b)'
  <2>1. CASE b \in seen
    BY <1>1, <2>1 DEF Taken
  <2>2. ASSUME NEW k \in DOMAIN batch, batch[k].ref = b
        PROVE  Taken(b)'
    <3>1. CASE k = 1
      BY <1>1, <1>2, <2>2, <3>1 DEF Taken, ObservedRefs
    <3>2. CASE k # 1
      <4>1. k - 1 \in DOMAIN batch' /\ (k - 1) + 1 = k
        BY <1>2, <1>5, <2>2, <3>2
      <4>2. batch'[k - 1] = batch[k]
        BY <1>3, <4>1
      <4> QED
        BY <2>2, <4>1, <4>2 DEF Taken
    <3> QED
      BY <3>1, <3>2
  <2> QED
    BY <1>8, <2>1, <2>2 DEF Taken
<1>9. \A n \in DOMAIN Listing, b \in Books : Position(Listing[n], b)' = Position(Listing[n], b)
  BY <1>1 DEF Position, Rows, Earlier
<1>10. NoRowSkipped'
  BY <1>0, <1>1, <1>8, <1>9 DEF NoRowSkipped, Undisturbed
<1> QED
  BY <1>7, <1>10 DEF WalkInv

\* A walk that stopped skips nothing.
LEMMA StopSkipsNone ==
  ASSUME ImportTypeOK', Stop
  PROVE  WalkInv'
BY DEF Stop, AtRest, WalkInv, Noted, NoRowSkipped

\* Every step keeps the walk's invariant.
LEMMA WalkStep ==
  ASSUME WalkInv, [ImportNext]_importVars
  PROVE  WalkInv'
<1>0. ImportTypeOK'
  BY ImportStep DEF WalkInv
<1>1. CASE UNCHANGED importVars
  <2>1. UNCHANGED <<place, added, hidden, dark, running, at, page, batch, seen, vouched,
                    left, shrunk, lit>>
    BY <1>1 DEF importVars, upstream, walk, history
  <2>2. Noted'
    BY <2>1 DEF WalkInv, Noted, Visible, Rows
  <2>3. \A n \in DOMAIN Listing, b \in Books : Position(Listing[n], b)' = Position(Listing[n], b)
    BY <2>1 DEF Position, Rows, Earlier
  <2>4. NoRowSkipped'
    BY <2>1, <2>3 DEF WalkInv, NoRowSkipped, Undisturbed, Taken
  <2> QED
    BY <1>0, <2>2, <2>4 DEF WalkInv
<1>2. CASE Start
  BY <1>0, <1>2, StartSkipsNone
<1>3. CASE ReadPage
  BY <1>0, <1>3, ReadPageSkipsNone
<1>4. CASE Flush
  BY <1>0, <1>4, FlushSkipsNone
<1>5. CASE Fail \/ Finish
  BY <1>0, <1>5, StopSkipsNone DEF Fail, Finish
<1>6. CASE \/ \E b \in Books, c \in Containers \cup {Nowhere} : Shelve(b, c)
           \/ \E b \in Books, date \in Dates : Redate(b, date)
           \/ \E b \in Books : Filter(b) \/ Reclassify(b)
           \/ \E c \in Containers : Mount(c)
  BY <1>6, UpstreamSkipsNone
<1> QED
  BY <1>1, <1>2, <1>3, <1>4, <1>5, <1>6 DEF ImportNext

\* The walk's invariant holds of every import.
LEMMA WalkCorrect == ImportSpec => []WalkInv
<1>1. ImportInit => WalkInv
  BY ImportBegins DEF ImportInit, WalkInv, Noted, NoRowSkipped
<1>2. WalkInv /\ [ImportNext]_importVars => WalkInv'
  BY WalkStep
<1> QED
  BY <1>1, <1>2, PTL DEF ImportSpec

\* No book that stood still is passed over, however rows come and go, for any number
\* of libraries and books and any page and batch size: the walk's stop at a short
\* page is enough.
THEOREM NoRowSkippedCorrect == ImportSpec => []NoRowSkipped
<1>1. WalkInv => NoRowSkipped
  BY DEF WalkInv
<1> QED
  BY <1>1, WalkCorrect, PTL

\* A row written leaves every live link live.
LEMMA RowKeepsLive ==
  ASSUME NEW d, NEW key, NEW kind, NEW ids, NEW container, NEW parent,
         NEW k \in DOMAIN d.links, d.links[k].live
  PROVE  LET e == ApplyRow(d, key, kind, ids, container, parent)
         IN  k \in DOMAIN e.links /\ e.links[k].live
BY DEF ApplyRow

\* And so does an item.
LEMMA ItemKeepsLive ==
  ASSUME NEW d, NEW i, NEW it, NEW k \in DOMAIN d.links, d.links[k].live
  PROVE  ApplyItem(d, i, it).links[k].live
<1>1. CASE it.parent = NoRef
  BY <1>1, RowKeepsLive DEF ApplyItem
<1>2. CASE it.parent # NoRef
  <2> DEFINE p == ApplyRow(d, <<i, it.parent>>, ParentKind, <<>>, it.container, NoWork)
  <2>1. k \in DOMAIN p.links /\ p.links[k].live
    BY RowKeepsLive
  <2>2. ApplyItem(d, i, it) = ApplyRow(p, <<i, it.ref>>, it.kind, it.ids, it.container,
                                       p.links[<<i, it.parent>>].work)
    BY <1>2 DEF ApplyItem
  <2> HIDE DEF p
  <2> QED
    BY <2>1, <2>2, RowKeepsLive
<1> QED
  BY <1>1, <1>2

\* A sweep takes only links it was told are absent.
LEMMA SweepTakes ==
  ASSUME NEW d, WellFormed(d), NEW i, NEW saw, NEW scope, NEW k \in DOMAIN d.links,
         d.links[k].live, ~ Sweep(d, i, saw, scope).links[k].live
  PROVE  k[2] \notin saw /\ d.links[k].container \in scope
<1> DEFINE absent == AbsentLinks(d, i, saw, scope)
<1>1. Sweep(d, i, saw, scope).links = TombstoneLinks(d.links, absent)
  BY DEF Sweep, WellFormed
<1>2. k \in absent
  BY <1>1 DEF TombstoneLinks
<1> QED
  BY <1>2 DEF AbsentLinks

\* A book loses its link only to a read it was absent from and that saw its library
\* lit and not short, for every history of the upstream's: no page boundary, redated
\* book, failed batch, unmounted share or measured content filter makes a sweep take a
\* book that stood still.
THEOREM SweepSoundCorrect == ImportSpec => SweepSound
<1> DEFINE Lost(b) == ~ Undisturbed(b) /\ db.links[<<Inst, b>>].container \in lit \ short
<1>1. ASSUME WalkInv, TypeOK, [ImportNext]_importVars, NEW b \in Books, SweptBy(b)
      PROVE  Lost(b)
  <2> DEFINE k == <<Inst, b>>
  <2>1. k \in DOMAIN db.links /\ db.links[k].live /\ ~ db'.links[k].live
    BY <1>1 DEF SweptBy
  <2>2. ~ UNCHANGED db
    BY <2>1
  <2>3. ~ Flush
    BY <2>1, ItemKeepsLive DEF Flush, CommitHead, ApplyCatalogueBatch
  <2>4. Finish
    <3>1. ~ UNCHANGED importVars /\ ~ Start /\ ~ Fail
      BY <2>2 DEF importVars, Start, Fail
    <3>2. ~ ReadPage
      BY <2>2 DEF ReadPage
    <3>3. ~ (\/ \E c \in Books, d \in Containers \cup {Nowhere} : Shelve(c, d)
             \/ \E c \in Books, date \in Dates : Redate(c, date)
             \/ \E c \in Books : Filter(c) \/ Reclassify(c)
             \/ \E d \in Containers : Mount(d))
      BY <1>1, <2>2, UpstreamTyped DEF WalkInv
    <3> QED
      BY <1>1, <2>3, <3>1, <3>2, <3>3 DEF ImportNext
  <2>5. db' = Sweep(db, Inst, seen, Observed)
    BY <2>2, <2>4 DEF Finish, SweepDeletions
  <2>6. b \notin seen /\ db.links[k].container \in Observed
    BY <1>1, <2>1, <2>5, SweepTakes DEF TypeOK
  <2>7. db.links[k].container \in lit \ short
    BY <1>1, <2>6 DEF Observed, WalkInv, Noted
  <2>8. ASSUME Undisturbed(b) PROVE FALSE
    <3>1. running /\ at = Len(Listing) + 1 /\ batch = <<>>
      BY <2>4 DEF Finish
    <3>2. place[b] \in Containers
      BY <1>1, <2>8, <3>1, StillListed DEF WalkInv, Undisturbed
    <3>3. PICK n \in DOMAIN Listing : Listing[n] = place[b]
      BY <3>2, FullImportAssumption DEF Range
    <3>4. n \in Nat /\ n =< Len(Listing) /\ Len(Listing) \in Nat
      BY FullImportAssumption
    <3>5. Taken(b)
      BY <1>1, <2>8, <3>1, <3>3, <3>4 DEF WalkInv, NoRowSkipped
    <3> QED
      BY <2>6, <3>1, <3>5 DEF Taken
  <2> QED
    BY <2>7, <2>8
<1>2. WalkInv /\ TypeOK /\ [ImportNext]_importVars
        => [\A b \in Books : SweptBy(b) => Lost(b)]_importVars
  BY <1>1
<1>3. ImportSpec => []TypeOK
  BY ImportImplementsCatalogue, TypeCorrect, PTL
<1> QED
  BY <1>2, <1>3, WalkCorrect, PTL DEF ImportSpec, SweepSound
=============================================================================
