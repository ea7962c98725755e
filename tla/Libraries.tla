------------------------------ MODULE Libraries ------------------------------
(***************************************************************************)
(* The library half of UsArr's SQLite replica: how the containers that      *)
(* upstream services list are bound to libraries, how items are filed into  *)
(* them, and how a library nobody feeds any more is marked orphaned, while  *)
(* imports of several instances run and instances are deleted.              *)
(*                                                                          *)
(* tables is the database, a record of                                      *)
(*   libs     library: the row with id n is libs[n]; rows are never deleted *)
(*   sources  library_source: rows keyed by <<library, instance, ref>>, TRUE *)
(*            while missing_since is NULL                                    *)
(*   members  library_member: rows keyed by <<library, work>>, with the kind *)
(*            of the item that was filed                                     *)
(*   changes  sync_report rows of a container whose kind changed             *)
(*   deleted  service_instance rows with a deleted_at                        *)
(*                                                                          *)
(* A library's name is a sequence: the name a container was listed under,   *)
(* followed by the qualifiers "(Books)", "(2)" minted onto it.               *)
(***************************************************************************)
EXTENDS Naturals, Sequences, Functions, FiniteSetsExt

CONSTANTS
  Instances,       \* rows of service_instance
  Guessing,        \* those whose adapter lists every container at a guessed kind
  Refs,            \* container refs, per instance
  Names,           \* names, as libraryNameKey folds them
  BaseSlug,        \* slugify of a listed name
  UnfiledName,     \* the name of the reserved library
  Kinds,           \* library.kind
  Fallback,        \* the kind a guess is
  Declined,        \* the kind of a container the adapter declines
  Works,           \* top-level works
  EvidenceKind,    \* per work: the kind a guessing instance's walk sees
  NoBinding,       \* a container without a binding
  Shelvings,       \* per instance: the sets of containers it can have, by ref
  MaxLibraries,    \* bound on the rows of table library
  MaxDisturbances  \* bound on the upstreams' changes, the failures and the deletions

ASSUME LibrariesAssumption ==
  /\ Guessing \subseteq Instances
  /\ Fallback \in Kinds /\ Declined \notin Kinds
  /\ EvidenceKind \in [Works -> Kinds]
  /\ UnfiledName \in Names
  /\ DOMAIN BaseSlug = Names
  /\ DOMAIN Shelvings = Instances
  /\ \A i \in Instances : \A cards \in Shelvings[i] :
       /\ DOMAIN cards \subseteq Refs /\ IsFiniteSet(DOMAIN cards)
       /\ \A r \in DOMAIN cards : cards[r] \in [name : Names, kind : Kinds \cup {Declined}]
  /\ MaxLibraries \in Nat /\ MaxDisturbances \in Nat

VARIABLES
  tables,
  shelves,      \* upstream: per instance, the cards of the containers it has
  phase,        \* importer: per instance, how far its import is
  listing,      \* importer: per instance, the containers Containers() returned
  bindings,     \* importer: per instance, the bindings BindContainers returned
  unswept,      \* history: instances bound since their last deletion sweep
  disturbances

importers == <<phase, listing, bindings, unswept>>
libraryVars == <<tables, shelves, importers, disturbances>>
------------------------------------------------------------------------------
Libs(t) == 1 .. Len(t.libs)

Feeding(t, i, r) == {l \in Libs(t) : <<l, i, r>> \in DOMAIN t.sources}

\* A source that counts: present, on an instance that is not deleted.
Counting(t, l) ==
  \E s \in DOMAIN t.sources : s[1] = l /\ t.sources[s] /\ s[2] \notin t.deleted
------------------------------------------------------------------------------
(* Names.                                                                   *)

SlugOf(name) == <<BaseSlug[Head(name)]>> \o Tail(name)

TakenNames(t) == {t.libs[l].name : l \in Libs(t)} \cup {<<UnfiledName>>}

\* FAULT: two names that make one slug are not told apart.
Free_NameOnly(t, name) == name \notin TakenNames(t)

\* A name the (user_id, name) and (user_id, slug) indexes would both take.
Free(t, name) ==
  /\ name \notin TakenNames(t)
  /\ SlugOf(name) \notin {SlugOf(n) : n \in TakenNames(t)}

\* The library a container of this name can join; never Unfiled.
Holders(t, name) == {l \in Libs(t) : t.libs[l].name = name}

Qualified(name, tag) == Append(name, tag)

\* The name of a new library: the container's, qualified by kind when a library of
\* another kind holds it, numbered when that is not enough.
MintedName(t, name, kind) ==
  IF Holders(t, name) # {} /\ Free(t, Qualified(name, kind))
  THEN Qualified(name, kind)
  ELSE IF Free(t, name)
  THEN name
  ELSE Qualified(name, Min({n \in 2 .. Len(t.libs) + 2 : Free(t, Qualified(name, n))}))

NoMint == [lib |-> 0, kind |-> Declined]

\* reclaimMintedName: the library this import minted at a guess and has retyped since
\* hands the plain name to the kind it was minted at.
Reclaim(t, name, kind, mint) ==
  LET held == {l \in Holders(t, name) : l = mint.lib /\ kind = mint.kind}
  IN  [t EXCEPT !.libs = [l \in Libs(t) |->
        IF l \in held /\ Free(t, Qualified(name, t.libs[l].kind))
        THEN [t.libs[l] EXCEPT !.name = Qualified(name, t.libs[l].kind)] ELSE t.libs[l]]]
------------------------------------------------------------------------------
(* bindOneContainer.  Each arm is the set of its outcomes: the tables, the   *)
(* library bound, and whether it was created.                                *)

WithSource(sources, s) == [x \in DOMAIN sources \cup {s} |-> x = s \/ sources[x]]

Refreshed(t, i, r) ==
  [t EXCEPT !.sources = [s \in DOMAIN t.sources |-> (s[2] = i /\ s[3] = r) \/ t.sources[s]]]

Outcome(t, l, created) == [tables |-> t, lib |-> l, created |-> created]

\* noteKindChange: the container's list asks for a kind the container had no library of.
Noted(t, i, r, l, eager) ==
  IF eager /\ Feeding(t, i, r) # {} THEN {[instance |-> i, ref |-> r, lib |-> l]} ELSE {}

AttachTo(t, i, c, l, eager) ==
  [t EXCEPT !.sources = WithSource(@, <<l, i, c.ref>>),
            !.changes = @ \cup Noted(t, i, c.ref, l, eager)]

Joinable(t, c) == {l \in Holders(t, <<c.name>>) : t.libs[l].kind = c.kind}

\* Join the library of the same name and kind.
Joins(t, i, c, eager) ==
  {Outcome(AttachTo(t, i, c, l, eager), l, FALSE) : l \in Joinable(t, c)}

\* Create a library and attach the container to it.
Mints(t, i, c, eager, mint) ==
  LET row(u) == [name |-> MintedName(u, <<c.name>>, c.kind), kind |-> c.kind, orphaned |-> FALSE]
      l == Len(t.libs) + 1
  IN  {Outcome(AttachTo([u EXCEPT !.libs = Append(@, row(u))], i, c, l, eager), l, TRUE) :
         u \in {Reclaim(t, <<c.name>>, c.kind, mint)}}

\* FAULT: what has been filed into the library is not counted.
Retypable_Filled(t, prior) ==
  \E l \in prior : /\ prior = {l}
                   /\ \A s, u \in DOMAIN t.sources : s[1] = l /\ u[1] = l => s = u

\* bindProvisional's guards: one library over the container, nothing filed into it,
\* and no other container feeding it.
Retypable(t, prior) ==
  \E l \in prior : /\ prior = {l}
                   /\ \A m \in DOMAIN t.members : m[1] # l
                   /\ \A s, u \in DOMAIN t.sources : s[1] = l /\ u[1] = l => s = u

\* FAULT: a library that was renamed or qualified is not recognised.
SameKind_Named(t, i, c) ==
  {l \in Feeding(t, i, c.ref) : t.libs[l].kind = c.kind /\ t.libs[l].name = <<c.name>>}

\* The library already bound to the container at the kind asked for.
SameKind(t, i, c) == {l \in Feeding(t, i, c.ref) : t.libs[l].kind = c.kind}

\* FAULT: the container list's guess is taken for evidence.
Adopts_Never(t, i, c, eager) == FALSE

\* bindProvisional, eager: a guess does not contradict what an earlier import found.
\* The first library in the order of kinds is adopted; that order is left open.
Adopts(t, i, c, eager) == eager /\ i \in Guessing /\ Feeding(t, i, c.ref) # {}

\* bindProvisional, on evidence: the library minted at a guess takes the kind seen.
Retypes(t, i, c) ==
  {Outcome([t EXCEPT !.libs[l].kind = c.kind], l, FALSE) : l \in Feeding(t, i, c.ref)}

BindOne(t, i, c, eager, mint) ==
  LET prior == Feeding(t, i, c.ref)
      same == SameKind(t, i, c)
      kept == IF same = {} /\ Adopts(t, i, c, eager) THEN prior ELSE same
  IN  IF kept # {}
      THEN {Outcome(Refreshed(t, i, c.ref), l, FALSE) : l \in kept}
      ELSE IF ~ eager /\ i \in Guessing /\ Retypable(t, prior)
      THEN Retypes(t, i, c)
      ELSE IF Joinable(t, c) # {}
      THEN Joins(t, i, c, eager)
      ELSE Mints(t, i, c, eager, mint)

Declines(c) == c.kind = Declined

Binding(b, c) ==
  [lib |-> b.lib, kind |-> b.tables.libs[b.lib].kind, name |-> c.name, created |-> b.created]

Unbound(t) == [tables |-> t, bindings |-> [r \in Refs |-> NoBinding]]

\* One container of the list: a declined one is passed over.
BindNext(i, done, c) ==
  IF Declines(c) THEN {done}
  ELSE {[tables |-> b.tables, bindings |-> [done.bindings EXCEPT ![c.ref] = Binding(b, c)]] :
          b \in BindOne(done.tables, i, c, TRUE, NoMint)}

\* BindContainers: the containers one after another, in one transaction.
BindAll(t, i, cs) ==
  LET bound[n \in 0 .. Len(cs)] ==
        IF n = 0 THEN {Unbound(t)}
        ELSE UNION {BindNext(i, done, cs[n]) : done \in bound[n - 1]}
  IN  bound[Len(cs)]
------------------------------------------------------------------------------
(* Filing, sweeping, deleting.                                              *)

FileInto(t, l, w, kind) ==
  [t EXCEPT !.members = [m \in DOMAIN @ \cup {<<l, w>>} |-> IF m = <<l, w>> THEN kind ELSE @[m]]]

\* applyOneItem's steps on a top-level item: a provisional binding is asked again for
\* the item's kind.
FileItem(t, i, r, b, w, kind) ==
  LET mint == IF b.created THEN [lib |-> b.lib, kind |-> b.kind] ELSE NoMint
      c == [ref |-> r, name |-> b.name, kind |-> kind]
  IN  IF i \in Guessing
      THEN {FileInto(f.tables, f.lib, w, kind) : f \in BindOne(t, i, c, FALSE, mint)}
      ELSE {FileInto(t, b.lib, w, kind)}

\* FAULT: the stamp is never cleared.
SettleOrphans_StampOnly(t, i) ==
  [t EXCEPT !.libs = [l \in Libs(t) |->
     IF \E r \in Refs : l \in Feeding(t, i, r)
     THEN [t.libs[l] EXCEPT !.orphaned = @ \/ ~ Counting(t, l)] ELSE t.libs[l]]]

\* sweepOrphans: stamped when no source counts, cleared when one does, over the
\* libraries the instance feeds.
SettleOrphans(t, i) ==
  [t EXCEPT !.libs = [l \in Libs(t) |->
     IF \E r \in Refs : l \in Feeding(t, i, r)
     THEN [t.libs[l] EXCEPT !.orphaned = ~ Counting(t, l)] ELSE t.libs[l]]]

\* sweepContainers: a source whose container was not listed is missing.
SweepContainers(t, i, reported) ==
  SettleOrphans([t EXCEPT !.sources = [s \in DOMAIN @ |->
                   @[s] /\ (s[2] = i => s[3] \in reported)]], i)

\* FAULT: the deletion leaves the libraries to the next sweep.
SoftDelete_NoOrphans(t, i) == [t EXCEPT !.deleted = @ \cup {i}]

SoftDelete(t, i) == SettleOrphans([t EXCEPT !.deleted = @ \cup {i}], i)
------------------------------------------------------------------------------
NoCard == [r \in {} |-> r]

\* What Containers returns, in any order: a guessing adapter's kind is the fallback.
Listings(i) ==
  {cs \in [1 .. Cardinality(DOMAIN shelves[i]) ->
             {[ref |-> r, name |-> shelves[i][r].name,
               kind |-> IF i \in Guessing THEN Fallback ELSE shelves[i][r].kind] :
                r \in DOMAIN shelves[i]}] :
     \A m, n \in DOMAIN cs : cs[m].ref = cs[n].ref => m = n}

Disturb ==
  /\ disturbances < MaxDisturbances
  /\ disturbances' = disturbances + 1

\* The upstream gains, loses, renames or retypes a container.
Rearrange(i, cards) ==
  /\ Disturb
  /\ shelves[i] # cards
  /\ shelves' = [shelves EXCEPT ![i] = cards]
  /\ UNCHANGED <<tables, importers>>

Stop(i) ==
  /\ phase' = [phase EXCEPT ![i] = "idle"]
  /\ listing' = [listing EXCEPT ![i] = <<>>]
  /\ bindings' = [bindings EXCEPT ![i] = NoBinding]

\* An import begins: the instance is there and enabled, its containers are listed.
Start(i) ==
  /\ phase[i] = "idle"
  /\ i \notin tables.deleted
  /\ phase' = [phase EXCEPT ![i] = "listed"]
  /\ \E cs \in Listings(i) : listing' = [listing EXCEPT ![i] = cs]
  /\ UNCHANGED <<tables, shelves, bindings, unswept, disturbances>>

\* bindPhase.  Nothing asks again whether the instance is deleted.
Bind(i) ==
  /\ phase[i] = "listed"
  /\ \E b \in BindAll(tables, i, listing[i]) :
       /\ Len(b.tables.libs) =< MaxLibraries
       /\ tables' = b.tables
       /\ bindings' = [bindings EXCEPT ![i] = b.bindings]
  /\ phase' = [phase EXCEPT ![i] = "bound"]
  /\ unswept' = unswept \cup {i}
  /\ UNCHANGED <<shelves, listing, disturbances>>

\* A batch with one top-level item of the container; a guessing adapter's items have
\* the kinds the walk sees, another's the kind its container was listed at.
File(i, r, w) ==
  /\ phase[i] = "bound"
  /\ bindings[i][r] # NoBinding
  /\ LET b == bindings[i][r]
         kind == IF i \in Guessing THEN EvidenceKind[w] ELSE b.kind
     IN  tables' \in FileItem(tables, i, r, b, w, kind)
  /\ Len(tables'.libs) =< MaxLibraries
  /\ UNCHANGED <<shelves, importers, disturbances>>

\* The container half of the deletion sweep that ends an import.
Sweep(i) ==
  /\ phase[i] = "bound"
  /\ tables' = SweepContainers(tables, i, {listing[i][n].ref : n \in DOMAIN listing[i]})
  /\ unswept' = unswept \ {i}
  /\ Stop(i)
  /\ UNCHANGED <<shelves, disturbances>>

\* The import fails, is refused its sweep, or is a delta sync and has none.
EndUnswept(i) ==
  /\ phase[i] # "idle"
  /\ Disturb
  /\ Stop(i)
  /\ UNCHANGED <<tables, shelves, unswept>>

\* DELETE /services/{id}, whatever the instance's import is doing.
DeleteInstance(i) ==
  /\ i \notin tables.deleted
  /\ Disturb
  /\ tables' = SoftDelete(tables, i)
  /\ UNCHANGED <<shelves, importers>>
------------------------------------------------------------------------------
LibrariesInit ==
  /\ \E gone \in SUBSET Instances :
       tables = [libs |-> <<>>, sources |-> NoCard, members |-> NoCard,
                 changes |-> {}, deleted |-> gone]
  /\ shelves \in {f \in [Instances -> UNION Range(Shelvings)] : \A i \in Instances : f[i] \in Shelvings[i]}
  /\ phase = [i \in Instances |-> "idle"]
  /\ listing = [i \in Instances |-> <<>>]
  /\ bindings = [i \in Instances |-> NoBinding]
  /\ unswept = {}
  /\ disturbances \in 0 .. MaxDisturbances

Import(i) == Start(i) \/ Bind(i) \/ Sweep(i)

LibrariesNext ==
  \E i \in Instances :
    \/ \E cards \in Shelvings[i] : Rearrange(i, cards)
    \/ Start(i)
    \/ Bind(i)
    \/ \E r \in Refs, w \in Works : File(i, r, w)
    \/ Sweep(i)
    \/ EndUnswept(i)
    \/ DeleteInstance(i)

\* An enabled instance is imported again and again and an import that is not
\* interrupted reaches its sweep.
LibrariesFairness == \A i \in Instances : WF_libraryVars(Import(i))

LibrariesSpec == LibrariesInit /\ [][LibrariesNext]_libraryVars /\ LibrariesFairness
------------------------------------------------------------------------------

\* No two libraries share a name or a slug, and none takes Unfiled's, however names
\* are joined, qualified, numbered and handed back: the unique indexes never refuse
\* a bind, so no container is skipped for its name.
NamesDistinct ==
  \A l \in Libs(tables) :
    /\ SlugOf(tables.libs[l].name) # SlugOf(<<UnfiledName>>)
    /\ \A m \in Libs(tables) \ {l} : SlugOf(tables.libs[l].name) # SlugOf(tables.libs[m].name)

\* A container is bound to at most one library of a kind, so the lookup of
\* bindOneContainer's first step has one answer, through renames, absences, retypes
\* and siblings.
OneLibraryPerKind ==
  \A i \in Instances, r \in Refs : \A l, m \in Feeding(tables, i, r) :
    l # m => tables.libs[l].kind # tables.libs[m].kind

\* A library's kind is the kind of every item filed into it: no retype relabels a
\* library with members and no stale binding files prose into the comics.
FiledByKind ==
  \A m \in DOMAIN tables.members : tables.libs[m[1]].kind = tables.members[m]

\* The "permanently empty Comics (Books) beside the real Comics" of bindProvisional: of
\* two libraries over one container whose kind is a guess, each has something filed in
\* it, unless other containers feed it too.
SiblingsEarned ==
  \A i \in Guessing, r \in Refs : \A l, m \in Feeding(tables, i, r) :
    l # m => \/ \E f \in DOMAIN tables.members : f[1] = l
             \/ \E s \in DOMAIN tables.sources : s[1] = l /\ s # <<l, i, r>>

FedOnlyBy(l, is) == \A i \in Instances, r \in Refs : l \in Feeding(tables, i, r) => i \in is

StampRight(l) == tables.libs[l].orphaned <=> ~ Counting(tables, l)

\* A library is marked orphaned exactly while nothing feeds it, except between the
\* bind and the sweep of an import of one of the instances that feed it.
OrphanStampCurrent ==
  \A l \in Libs(tables) : FedOnlyBy(l, Instances \ unswept) => StampRight(l)

\* What is not deleted is settled in the end: a library whose container came back is
\* restored and one whose containers are gone is stamped.
EventuallySettled ==
  <>[](\A l \in Libs(tables) : FedOnlyBy(l, Instances \ tables.deleted) => StampRight(l))
==============================================================================
