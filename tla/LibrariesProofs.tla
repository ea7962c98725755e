--------------------------- MODULE LibrariesProofs ---------------------------
(***************************************************************************)
(* What holds of the libraries for every set of instances, containers,      *)
(* names and kinds, whatever their adapters guess, however the imports of    *)
(* several instances interleave, and wherever they fail.                    *)
(***************************************************************************)
EXTENDS Libraries, FiniteSetTheorems, SequenceTheorems, TLAPS

\* A set of natural numbers has a least one.
LEMMA LeastNumber ==
  ASSUME NEW S \in SUBSET Nat, S # {}
  PROVE  Min(S) \in S /\ \A n \in S : Min(S) =< n
<1> DEFINE below == {p \in Nat \X Nat : p[1] < p[2]}
<1>1. IsWellFoundedOn(below, Nat)
  <2>1. below = OpToRel(<, Nat)
    BY DEF OpToRel
  <2> QED
    BY <2>1, NatLessThanWellFounded
<1> HIDE DEF below
<1>2. PICK least \in S : \A m \in S : <<m, least>> \notin below
  BY <1>1, WFMin
<1>3. ASSUME NEW n \in S
      PROVE  least =< n
  <2>1. <<n, least>> \in Nat \X Nat /\ ~ (<<n, least>>[1] < <<n, least>>[2])
    BY <1>2 DEF below
  <2> QED
    BY <2>1
<1>4. \A n \in S : least =< n
  BY <1>3
<1> QED
  BY <1>4 DEF Min

\* The names a library can have: a listed name, alone or qualified once.
Labels == {<<n>> : n \in Names} \cup {<<n, q>> : n \in Names, q \in Kinds \cup Nat}

Row == [name : Labels, kind : Kinds, orphaned : BOOLEAN]

\* The tables have their types and refer to libraries that exist.
TablesOK(t) ==
  /\ t = [libs |-> t.libs, sources |-> t.sources, members |-> t.members,
          changes |-> t.changes, deleted |-> t.deleted]
  /\ t.libs \in Seq(Row)
  /\ \A s \in DOMAIN t.sources : /\ s \in Libs(t) \X Instances \X Refs
                                 /\ t.sources[s] \in BOOLEAN
  /\ \A m \in DOMAIN t.members : m \in Libs(t) \X Works

Distinct(t) ==
  \A l \in Libs(t) :
    /\ SlugOf(t.libs[l].name) # SlugOf(<<UnfiledName>>)
    /\ \A m \in Libs(t) \ {l} : SlugOf(t.libs[l].name) # SlugOf(t.libs[m].name)

\* One entry after another.
LEMMA PairAppended ==
  ASSUME NEW a, NEW b
  PROVE  Append(<<a>>, b) = <<a, b>>
<1> DEFINE S == {a, b}
<1>1. <<a>> \in Seq(S) /\ <<a, b>> \in Seq(S)
  OBVIOUS
<1>2. /\ Append(<<a>>, b) \in Seq(S) /\ Len(Append(<<a>>, b)) = 2
      /\ Append(<<a>>, b)[1] = a /\ Append(<<a>>, b)[2] = b
  BY <1>1
<1>3. Len(<<a, b>>) = 2 /\ <<a, b>>[1] = a /\ <<a, b>>[2] = b
  OBVIOUS
<1>4. \A k \in 1 .. 2 : Append(<<a>>, b)[k] = <<a, b>>[k]
  BY <1>2, <1>3
<1> HIDE DEF S
<1> QED
  BY <1>1, <1>2, <1>3, <1>4, SeqEqual

\* Two sequences of one entry make a pair.
LEMMA PairJoined ==
  ASSUME NEW a, NEW b
  PROVE  <<a>> \o <<b>> = <<a, b>>
<1> DEFINE S == {a, b}
<1>1. <<a>> \in Seq(S) /\ <<b>> \in Seq(S) /\ <<a, b>> \in Seq(S)
  OBVIOUS
<1>2. /\ <<a>> \o <<b>> \in Seq(S) /\ Len(<<a>> \o <<b>>) = 2
      /\ (<<a>> \o <<b>>)[1] = a /\ (<<a>> \o <<b>>)[2] = b
  BY <1>1, ConcatProperties
<1>3. Len(<<a, b>>) = 2 /\ <<a, b>>[1] = a /\ <<a, b>>[2] = b
  OBVIOUS
<1>4. \A k \in 1 .. 2 : (<<a>> \o <<b>>)[k] = <<a, b>>[k]
  BY <1>2, <1>3
<1> HIDE DEF S
<1> QED
  BY <1>1, <1>2, <1>3, <1>4, SeqEqual

\* A qualified name keeps the slug of its name and adds the qualifier to it.
LEMMA QualifiedSlug ==
  ASSUME NEW n \in Names, NEW q
  PROVE  /\ Qualified(<<n>>, q) = <<n, q>>
         /\ SlugOf(<<n, q>>) = <<BaseSlug[n], q>>
         /\ SlugOf(<<n>>) = <<BaseSlug[n]>>
<1> DEFINE slug == BaseSlug[n]
<1>1. SlugOf(<<n, q>>) = <<slug>> \o <<q>>
  BY DEF SlugOf
<1>2. SlugOf(<<n>>) = <<slug>>
  BY DEF SlugOf
<1> HIDE DEF slug
<1>3. Append(<<n>>, q) = <<n, q>>
  BY PairAppended
<1>4. <<slug>> \o <<q>> = <<slug, q>>
  BY PairJoined
<1> QED
  BY <1>1, <1>2, <1>3, <1>4 DEF Qualified, slug

\* A name that is free has a slug no library has, nor Unfiled.
LEMMA FreeSlug ==
  ASSUME NEW t, NEW name, Free(t, name)
  PROVE  /\ SlugOf(name) # SlugOf(<<UnfiledName>>)
         /\ \A l \in Libs(t) : SlugOf(name) # SlugOf(t.libs[l].name)
BY DEF Free, TakenNames

\* One of the numbers 2 .. n + 2 qualifies a name freely: n libraries stand in the
\* way of n numbers at most, and Unfiled has no number.
LEMMA NumberFree ==
  ASSUME NEW t, TablesOK(t), NEW n \in Names
  PROVE  \E k \in 2 .. Len(t.libs) + 2 : Free(t, Qualified(<<n>>, k))
<1> DEFINE size == Len(t.libs)
           numbers == 2 .. size + 2
           holder(k) == CHOOSE l \in 1 .. size : SlugOf(t.libs[l].name) = <<BaseSlug[n], k>>
           f == [k \in numbers |-> holder(k)]
<1>1. size \in Nat
  BY DEF TablesOK
<1>2. SUFFICES ASSUME \A k \in numbers : ~ Free(t, Qualified(<<n>>, k))
               PROVE  FALSE
  OBVIOUS
<1>3. \A k \in numbers : holder(k) \in 1 .. size /\ SlugOf(t.libs[holder(k)].name) = <<BaseSlug[n], k>>
  <2> SUFFICES ASSUME NEW k \in numbers
               PROVE  \E l \in 1 .. size : SlugOf(t.libs[l].name) = <<BaseSlug[n], k>>
    OBVIOUS
  <2>1. SlugOf(Qualified(<<n>>, k)) = <<BaseSlug[n], k>>
    BY QualifiedSlug
  <2>2. SlugOf(<<UnfiledName>>) # <<BaseSlug[n], k>>
    <3>1. SlugOf(<<UnfiledName>>) = <<BaseSlug[UnfiledName]>>
      BY QualifiedSlug, LibrariesAssumption
    <3>2. Len(<<BaseSlug[UnfiledName]>>) = 1 /\ Len(<<BaseSlug[n], k>>) = 2
      OBVIOUS
    <3> QED
      BY <3>1, <3>2
  <2>3. \E m \in TakenNames(t) : SlugOf(m) = <<BaseSlug[n], k>>
    BY <1>2, <2>1 DEF Free
  <2> QED
    BY <2>2, <2>3 DEF TakenNames, Libs
<1> HIDE DEF holder
<1>4. f \in [numbers -> 1 .. size]
  BY <1>3
<1>5. /\ IsFiniteSet(numbers) /\ Cardinality(numbers) = size + 1
      /\ IsFiniteSet(1 .. size) /\ Cardinality(1 .. size) = size
  <2> HIDE DEF size
  <2>1. 2 \in Int /\ size + 2 \in Int /\ ~ (2 > size + 2) /\ (size + 2) - 2 + 1 = size + 1
    BY <1>1
  <2>2. IsFiniteSet(2 .. size + 2) /\ Cardinality(2 .. size + 2) = size + 1
    BY <2>1, FS_Interval
  <2>3. IsFiniteSet(1 .. size) /\ Cardinality(1 .. size) = size
    BY <1>1, FS_Interval
  <2> QED
    BY <2>2, <2>3
<1> HIDE DEF size
<1>6. PICK j, k \in numbers : j # k /\ f[j] = f[k]
  <2>1. Cardinality(1 .. size) < Cardinality(numbers)
    BY <1>1, <1>5
  <2> HIDE DEF numbers, f
  <2> QED
    BY <1>4, <1>5, <2>1, FS_PigeonHole
<1>7. <<BaseSlug[n], j>> = <<BaseSlug[n], k>>
  BY <1>3, <1>6
<1> QED
  BY <1>6, <1>7

\* A minted name is free, whatever is taken.
LEMMA MintedFree ==
  ASSUME NEW t, TablesOK(t), NEW n \in Names, NEW kind \in Kinds
  PROVE  MintedName(t, <<n>>, kind) \in Labels /\ Free(t, MintedName(t, <<n>>, kind))
<1> DEFINE free == {k \in 2 .. Len(t.libs) + 2 : Free(t, Qualified(<<n>>, k))}
<1>1. free \in SUBSET Nat /\ free # {}
  BY NumberFree DEF TablesOK
<1>2. Min(free) \in free
  BY <1>1, LeastNumber
<1>3. Min(free) \in Nat /\ Free(t, Qualified(<<n>>, Min(free)))
  BY <1>1, <1>2
<1> HIDE DEF free
<1>4. ASSUME NEW q \in Kinds \cup Nat
      PROVE  Qualified(<<n>>, q) \in Labels
  <2>1. Qualified(<<n>>, q) = <<n, q>>
    BY QualifiedSlug
  <2> QED
    BY <2>1 DEF Labels
<1>5. <<n>> \in Labels
  BY DEF Labels
<1>6. MintedName(t, <<n>>, kind) =
        IF Holders(t, <<n>>) # {} /\ Free(t, Qualified(<<n>>, kind)) THEN Qualified(<<n>>, kind)
        ELSE IF Free(t, <<n>>) THEN <<n>> ELSE Qualified(<<n>>, Min(free))
  BY DEF MintedName, free
<1> QED
  BY <1>3, <1>4, <1>5, <1>6

\* A library over each container at most once per kind; the kind of a library is
\* that of everything filed into it.
OnePerKind(t) ==
  \A i \in Instances, r \in Refs : \A l, m \in Feeding(t, i, r) :
    l # m => t.libs[l].kind # t.libs[m].kind

ByKind(t) == \A m \in DOMAIN t.members : t.libs[m[1]].kind = t.members[m]

\* What every transaction keeps of the tables on their own.
Sound(t) == TablesOK(t) /\ Distinct(t) /\ OnePerKind(t) /\ ByKind(t)

\* Tables that differ in names alone.
Renamed(t, u) ==
  /\ Libs(u) = Libs(t)
  /\ u.sources = t.sources /\ u.members = t.members /\ u.deleted = t.deleted
  /\ \A l \in Libs(t) : /\ u.libs[l].kind = t.libs[l].kind
                        /\ u.libs[l].orphaned = t.libs[l].orphaned

\* What a binding for instance i leaves alone: it adds sources of its own and
\* libraries they feed, and retypes only libraries of guessed kind.
Grown(t, u, i) ==
  /\ Libs(t) \subseteq Libs(u)
  /\ u.members = t.members /\ u.deleted = t.deleted
  /\ DOMAIN t.sources \subseteq DOMAIN u.sources
  /\ \A s \in DOMAIN u.sources :
       s[2] = i \/ (s \in DOMAIN t.sources /\ u.sources[s] = t.sources[s])
  /\ \A l \in Libs(u) : l \in Libs(t) \/ \E r \in Refs : <<l, i, r>> \in DOMAIN u.sources
  /\ \A l \in Libs(t) :
       /\ u.libs[l].orphaned = t.libs[l].orphaned
       /\ (\E s \in DOMAIN t.sources : s[1] = l /\ s[2] \notin Guessing)
            => u.libs[l].kind = t.libs[l].kind

\* A library handed a qualified name keeps everything else, and names stay distinct.
LEMMA ReclaimSound ==
  ASSUME NEW t, Sound(t), NEW n \in Names, NEW kind, NEW mint
  PROVE  LET u == Reclaim(t, <<n>>, kind, mint)
         IN  Sound(u) /\ Renamed(t, u)
<1> DEFINE u == Reclaim(t, <<n>>, kind, mint)
           given(l) == Qualified(<<n>>, t.libs[l].kind)
           held == {l \in Holders(t, <<n>>) : l = mint.lib /\ kind = mint.kind}
           row(l) == IF l \in held /\ Free(t, given(l))
                     THEN [t.libs[l] EXCEPT !.name = given(l)] ELSE t.libs[l]
<1>1. u = [libs |-> [l \in Libs(t) |-> row(l)], sources |-> t.sources,
           members |-> t.members, changes |-> t.changes, deleted |-> t.deleted]
  <2> DEFINE libs == [l \in Libs(t) |-> row(l)]
  <2>1. t = [libs |-> t.libs, sources |-> t.sources, members |-> t.members,
             changes |-> t.changes, deleted |-> t.deleted]
    BY DEF Sound, TablesOK
  <2>2. u = [t EXCEPT !.libs = libs]
    BY DEF Reclaim
  <2> HIDE DEF libs, u
  <2>3. u = [libs |-> libs, sources |-> t.sources, members |-> t.members,
             changes |-> t.changes, deleted |-> t.deleted]
    BY <2>1, <2>2
  <2> QED
    BY <2>3 DEF libs
<1>2. ASSUME NEW l \in Libs(t)
      PROVE  /\ row(l) \in Row
             /\ row(l).kind = t.libs[l].kind /\ row(l).orphaned = t.libs[l].orphaned
             /\ \/ row(l).name = t.libs[l].name
                \/ l = mint.lib /\ row(l).name = given(l) /\ Free(t, given(l))
  <2>1. t.libs[l] \in Row
    BY DEF Sound, TablesOK, Libs
  <2>2. given(l) = <<n, t.libs[l].kind>> /\ t.libs[l].kind \in Kinds
    BY <2>1, QualifiedSlug DEF Row
  <2>3. given(l) \in Labels
    BY <2>2 DEF Labels
  <2> HIDE DEF given, held
  <2> QED
    BY <2>1, <2>3 DEF Row, held
<1>3. Len(t.libs) \in Nat
  BY DEF Sound, TablesOK
<1> HIDE DEF row, u
<1>4. u.libs \in Seq(Row) /\ Len(u.libs) = Len(t.libs)
  <2>1. u.libs \in [1 .. Len(t.libs) -> Row]
    BY <1>1, <1>2 DEF Libs
  <2> QED
    BY <1>3, <2>1, SeqDef
<1>5. \A l \in Libs(t) : u.libs[l] = row(l)
  BY <1>1
<1>6. Libs(u) = Libs(t)
  BY <1>4 DEF Libs
<1>7. TablesOK(u)
  BY <1>1, <1>4, <1>6 DEF Sound, TablesOK
<1>8. Renamed(t, u)
  BY <1>1, <1>2, <1>5, <1>6 DEF Renamed
<1>9. Distinct(u)
  <2>1. ASSUME NEW l \in Libs(t)
        PROVE  SlugOf(row(l).name) # SlugOf(<<UnfiledName>>)
    BY <1>2, FreeSlug DEF Sound, Distinct
  <2>2. ASSUME NEW l \in Libs(t), NEW m \in Libs(t) \ {l}
        PROVE  SlugOf(row(l).name) # SlugOf(row(m).name)
    <3>1. SlugOf(t.libs[l].name) # SlugOf(t.libs[m].name)
      BY DEF Sound, Distinct
    <3>2. Free(t, given(l)) => SlugOf(given(l)) # SlugOf(t.libs[m].name)
      BY FreeSlug
    <3>3. Free(t, given(m)) => SlugOf(given(m)) # SlugOf(t.libs[l].name)
      BY FreeSlug
    <3> HIDE DEF given
    <3> QED
      BY <1>2, <3>1, <3>2, <3>3
  <2> QED
    BY <1>5, <1>6, <2>1, <2>2 DEF Distinct
<1>10. OnePerKind(u) /\ ByKind(u)
  <2>1. \A i \in Instances, r \in Refs : Feeding(u, i, r) = Feeding(t, i, r)
    BY <1>8 DEF Renamed, Feeding
  <2>2. OnePerKind(u)
    BY <1>8, <2>1 DEF Renamed, Sound, OnePerKind, Feeding
  <2>3. ByKind(u)
    <3>1. \A m \in DOMAIN t.members : m[1] \in Libs(t)
      BY DEF Sound, TablesOK
    <3> QED
      BY <1>8, <3>1 DEF Renamed, Sound, ByKind
  <2> QED
    BY <2>2, <2>3
<1> QED
  BY <1>7, <1>8, <1>9, <1>10 DEF Sound, u

\* Attaching a container to a library of the table at the kind asked for, when none
\* over the container has that kind.
LEMMA AttachSound ==
  ASSUME NEW t, Sound(t), NEW i \in Instances, NEW c, c.ref \in Refs,
         NEW l \in Libs(t), NEW eager,
         \A m \in Feeding(t, i, c.ref) : m = l \/ t.libs[m].kind # t.libs[l].kind
  PROVE  LET u == AttachTo(t, i, c, l, eager)
         IN  /\ Sound(u) /\ Grown(t, u, i)
             /\ u.libs = t.libs
             /\ DOMAIN u.sources = DOMAIN t.sources \cup {<<l, i, c.ref>>}
<1> DEFINE s0 == <<l, i, c.ref>>
           u == AttachTo(t, i, c, l, eager)
           more == t.changes \cup Noted(t, i, c.ref, l, eager)
<1>1. u = [libs |-> t.libs, sources |-> WithSource(t.sources, s0), members |-> t.members,
           changes |-> more, deleted |-> t.deleted]
  <2> DEFINE after == WithSource(t.sources, s0)
  <2>1. t = [libs |-> t.libs, sources |-> t.sources, members |-> t.members,
             changes |-> t.changes, deleted |-> t.deleted]
    BY DEF Sound, TablesOK
  <2>2. u = [t EXCEPT !.sources = after, !.changes = more]
    BY <2>1 DEF AttachTo
  <2> HIDE DEF after, more, u
  <2>3. u = [libs |-> t.libs, sources |-> after, members |-> t.members,
             changes |-> more, deleted |-> t.deleted]
    BY <2>1, <2>2
  <2> QED
    BY <2>3 DEF after
<1>2. s0 \in Libs(t) \X Instances \X Refs /\ s0[1] = l /\ s0[2] = i /\ s0[3] = c.ref
  OBVIOUS
<1>3. u.sources = WithSource(t.sources, s0)
  BY <1>1
<1> HIDE DEF s0, u, more
<1>4. /\ DOMAIN u.sources = DOMAIN t.sources \cup {s0}
      /\ \A s \in DOMAIN u.sources : u.sources[s] = (s = s0 \/ t.sources[s])
  BY <1>3 DEF WithSource
<1>5. /\ u.libs = t.libs /\ Libs(u) = Libs(t) /\ u.members = t.members /\ u.deleted = t.deleted
  BY <1>1 DEF Libs
<1>6. \A s \in DOMAIN t.sources : t.sources[s] \in BOOLEAN
  BY DEF Sound, TablesOK
<1>7. TablesOK(u)
  <2>1. \A s \in DOMAIN u.sources : s \in Libs(u) \X Instances \X Refs
    BY <1>2, <1>4, <1>5 DEF Sound, TablesOK
  <2>2. \A s \in DOMAIN u.sources : u.sources[s] \in BOOLEAN
    BY <1>4, <1>6
  <2> QED
    BY <1>1, <1>5, <2>1, <2>2 DEF Sound, TablesOK
<1>8. Grown(t, u, i)
  <2>1. \A s \in DOMAIN u.sources :
          s[2] = i \/ (s \in DOMAIN t.sources /\ u.sources[s] = t.sources[s])
    BY <1>2, <1>4, <1>6
  <2> QED
    BY <1>4, <1>5, <2>1 DEF Grown
<1>9. OnePerKind(u)
  <2> SUFFICES ASSUME NEW j \in Instances, NEW r \in Refs,
                      NEW m \in Feeding(u, j, r), NEW k \in Feeding(u, j, r), m # k
               PROVE  t.libs[m].kind # t.libs[k].kind
    BY <1>5 DEF OnePerKind
  <2>1. \A x \in Libs(t) : x \in Feeding(u, j, r) =>
          x \in Feeding(t, j, r) \/ (x = l /\ j = i /\ r = c.ref)
    <3>1. \A x : <<x, j, r>> = s0 => x = l /\ j = i /\ r = c.ref
      BY DEF s0
    <3> QED
      BY <1>4, <1>5, <3>1 DEF Feeding
  <2>2. m \in Libs(t) /\ k \in Libs(t)
    BY <1>5 DEF Feeding
  <2> QED
    BY <2>1, <2>2 DEF Sound, OnePerKind
<1>10. Distinct(u) /\ ByKind(u)
  BY <1>5 DEF Sound, Distinct, ByKind
<1> QED
  BY <1>4, <1>5, <1>7, <1>8, <1>9, <1>10 DEF Sound, u, s0

\* What an outcome of binding container c of instance i to a library is, whichever
\* arm it comes from.
Bound(t, i, c, o) ==
  /\ Sound(o.tables) /\ Grown(t, o.tables, i)
  /\ o.lib \in Libs(o.tables)
  /\ DOMAIN o.tables.sources = DOMAIN t.sources \cup {<<o.lib, i, c.ref>>}
  /\ o.created \in BOOLEAN

\* The outcome's library has the kind asked for.
AtKind(c, o) == o.tables.libs[o.lib].kind = c.kind

\* A container a binding can be asked for.
Container == [ref : Refs, name : Names, kind : Kinds]

\* A new library of a free name.
LEMMA AddSound ==
  ASSUME NEW t, Sound(t), NEW row \in Row, Free(t, row.name)
  PROVE  LET u == [t EXCEPT !.libs = Append(@, row)]
             l == Len(t.libs) + 1
         IN  /\ Sound(u)
             /\ Libs(u) = Libs(t) \cup {l} /\ l \notin Libs(t)
             /\ u.libs[l] = row /\ \A m \in Libs(t) : u.libs[m] = t.libs[m]
             /\ u.sources = t.sources /\ u.members = t.members /\ u.deleted = t.deleted
<1> DEFINE u == [t EXCEPT !.libs = Append(@, row)]
           l == Len(t.libs) + 1
<1>1. u = [libs |-> Append(t.libs, row), sources |-> t.sources, members |-> t.members,
           changes |-> t.changes, deleted |-> t.deleted]
  BY DEF Sound, TablesOK
<1>2. t.libs \in Seq(Row) /\ Len(t.libs) \in Nat
  BY DEF Sound, TablesOK
<1> HIDE DEF u
<1>3. /\ u.libs \in Seq(Row) /\ Len(u.libs) = l
      /\ u.libs[l] = row /\ \A m \in 1 .. Len(t.libs) : u.libs[m] = t.libs[m]
  BY <1>1, <1>2, AppendProperties
<1>4. Libs(u) = Libs(t) \cup {l} /\ l \notin Libs(t)
  BY <1>2, <1>3 DEF Libs
<1>5. \A m \in Libs(t) : u.libs[m] = t.libs[m]
  BY <1>3 DEF Libs
<1>6. u.sources = t.sources /\ u.members = t.members /\ u.deleted = t.deleted
  BY <1>1
<1>7. TablesOK(u)
  <2>1. \A s \in DOMAIN u.sources : /\ s \in Libs(u) \X Instances \X Refs
                                    /\ u.sources[s] \in BOOLEAN
    BY <1>4, <1>6 DEF Sound, TablesOK
  <2>2. \A m \in DOMAIN u.members : m \in Libs(u) \X Works
    BY <1>4, <1>6 DEF Sound, TablesOK
  <2> QED
    BY <1>1, <1>3, <2>1, <2>2 DEF TablesOK
<1>8. Distinct(u)
  <2>1. /\ SlugOf(row.name) # SlugOf(<<UnfiledName>>)
        /\ \A m \in Libs(t) : SlugOf(row.name) # SlugOf(t.libs[m].name)
    BY FreeSlug
  <2>2. Distinct(t)
    BY DEF Sound
  <2> QED
    BY <1>3, <1>4, <1>5, <2>1, <2>2 DEF Distinct
<1>9. \A j \in Instances, r \in Refs : Feeding(u, j, r) = Feeding(t, j, r)
  <2>1. \A s \in DOMAIN t.sources : s[1] \in Libs(t)
    BY DEF Sound, TablesOK
  <2>2. \A j \in Instances, r \in Refs : <<l, j, r>> \notin DOMAIN t.sources
    BY <1>4, <2>1
  <2> HIDE DEF l
  <2> QED
    BY <1>4, <1>6, <2>2 DEF Feeding
<1>10. OnePerKind(u)
  BY <1>5, <1>9 DEF Sound, OnePerKind, Feeding
<1>11. ByKind(u)
  <2>1. \A m \in DOMAIN t.members : m[1] \in Libs(t)
    BY DEF Sound, TablesOK
  <2> QED
    BY <1>5, <1>6, <2>1 DEF Sound, ByKind
<1> QED
  BY <1>3, <1>4, <1>5, <1>6, <1>7, <1>8, <1>10, <1>11 DEF Sound, u

\* Creating a library for a container none of whose libraries has the kind.
LEMMA MintBound ==
  ASSUME NEW t, Sound(t), NEW i \in Instances, NEW c \in Container, NEW eager, NEW mint,
         \A m \in Feeding(t, i, c.ref) : t.libs[m].kind # c.kind,
         NEW o \in Mints(t, i, c, eager, mint)
  PROVE  Bound(t, i, c, o) /\ AtKind(c, o)
<1> DEFINE u == Reclaim(t, <<c.name>>, c.kind, mint)
           row == [name |-> MintedName(u, <<c.name>>, c.kind), kind |-> c.kind, orphaned |-> FALSE]
           v == [u EXCEPT !.libs = Append(@, row)]
           l == Len(t.libs) + 1
           w == AttachTo(v, i, c, l, eager)
<1>1. o = [tables |-> w, lib |-> l, created |-> TRUE]
  BY DEF Mints, Outcome
<1>2. c.name \in Names /\ c.kind \in Kinds /\ c.ref \in Refs
  BY DEF Container
<1>3. Sound(u) /\ Renamed(t, u)
  BY <1>2, ReclaimSound
<1>4. Len(u.libs) = Len(t.libs)
  <2>1. Len(t.libs) \in Nat /\ Len(u.libs) \in Nat /\ 1 .. Len(u.libs) = 1 .. Len(t.libs)
    BY <1>3 DEF Sound, TablesOK, Renamed, Libs
  <2> HIDE DEF u
  <2>2. ASSUME NEW m \in Nat, NEW n \in Nat, 1 .. m = 1 .. n
        PROVE  m =< n
    <3>1. m = 0 \/ m \in 1 .. n
      BY <2>2
    <3> QED
      BY <3>1
  <2> QED
    BY <2>1, <2>2
<1> HIDE DEF u
<1>5. row.name \in Labels /\ Free(u, row.name)
  BY <1>2, <1>3, MintedFree DEF Sound
<1>6. row \in Row
  BY <1>2, <1>5 DEF Row
<1>7. row.kind = c.kind
  OBVIOUS
<1> HIDE DEF row
<1>8. /\ Sound(v)
      /\ Libs(v) = Libs(u) \cup {l} /\ l \notin Libs(u)
      /\ v.libs[l] = row /\ \A m \in Libs(u) : v.libs[m] = u.libs[m]
      /\ v.sources = u.sources /\ v.members = u.members /\ v.deleted = u.deleted
  <2> DEFINE next == Len(u.libs) + 1
  <2>1. next = l
    BY <1>4
  <2>2. /\ Sound(v)
        /\ Libs(v) = Libs(u) \cup {next} /\ next \notin Libs(u)
        /\ v.libs[next] = row /\ \A m \in Libs(u) : v.libs[m] = u.libs[m]
        /\ v.sources = u.sources /\ v.members = u.members /\ v.deleted = u.deleted
    BY <1>3, <1>5, <1>6, AddSound
  <2> HIDE DEF v, l, next
  <2> QED
    BY <2>1, <2>2
<1> HIDE DEF v, l
<1>9. \A m \in Feeding(v, i, c.ref) : v.libs[m].kind # v.libs[l].kind
  <2>1. \A s \in DOMAIN t.sources : s[1] \in Libs(t)
    BY DEF Sound, TablesOK
  <2>2. ASSUME NEW m \in Feeding(v, i, c.ref)
        PROVE  m \in Libs(t) /\ m \in Feeding(t, i, c.ref)
    <3>1. <<m, i, c.ref>> \in DOMAIN t.sources
      BY <1>3, <1>8 DEF Feeding, Renamed
    <3>2. m \in Libs(t)
      BY <2>1, <3>1
    <3> QED
      BY <3>1, <3>2 DEF Feeding
  <2>3. \A m \in Libs(t) : v.libs[m].kind = t.libs[m].kind
    BY <1>3, <1>8 DEF Renamed
  <2> QED
    BY <1>7, <1>8, <2>2, <2>3
<1>10. /\ Sound(w) /\ Grown(v, w, i) /\ w.libs = v.libs
       /\ DOMAIN w.sources = DOMAIN v.sources \cup {<<l, i, c.ref>>}
  BY <1>2, <1>8, <1>9, AttachSound
<1> HIDE DEF w
<1>11. Libs(w) = Libs(v)
  BY <1>10 DEF Libs
<1>12. Grown(t, w, i)
  <2>1. /\ Libs(t) \subseteq Libs(w)
        /\ w.members = t.members /\ w.deleted = t.deleted
        /\ DOMAIN t.sources \subseteq DOMAIN w.sources
    BY <1>3, <1>8, <1>10, <1>11 DEF Renamed, Grown
  <2>2. \A s \in DOMAIN w.sources :
          s[2] = i \/ (s \in DOMAIN t.sources /\ w.sources[s] = t.sources[s])
    BY <1>3, <1>8, <1>10 DEF Renamed, Grown
  <2>3. \A m \in Libs(w) : m \in Libs(t) \/ <<m, i, c.ref>> \in DOMAIN w.sources
    BY <1>3, <1>8, <1>10, <1>11 DEF Renamed
  <2>4. \A m \in Libs(t) : /\ w.libs[m].orphaned = t.libs[m].orphaned
                           /\ w.libs[m].kind = t.libs[m].kind
    BY <1>3, <1>8, <1>10 DEF Renamed
  <2> QED
    BY <1>2, <2>1, <2>2, <2>3, <2>4 DEF Grown
<1>13. l \in Libs(w) /\ w.libs[l].kind = c.kind
  BY <1>7, <1>8, <1>10, <1>11
<1>14. DOMAIN w.sources = DOMAIN t.sources \cup {<<l, i, c.ref>>}
  BY <1>3, <1>8, <1>10 DEF Renamed
<1> QED
  BY <1>1, <1>10, <1>12, <1>13, <1>14 DEF Bound, AtKind

\* Joining the library of the name and kind.
LEMMA JoinBound ==
  ASSUME NEW t, Sound(t), NEW i \in Instances, NEW c \in Container, NEW eager,
         \A m \in Feeding(t, i, c.ref) : t.libs[m].kind # c.kind,
         NEW o \in Joins(t, i, c, eager)
  PROVE  Bound(t, i, c, o) /\ AtKind(c, o)
<1>1. PICK l \in Joinable(t, c) : o = Outcome(AttachTo(t, i, c, l, eager), l, FALSE)
  BY DEF Joins
<1> DEFINE u == AttachTo(t, i, c, l, eager)
<1>2. o = [tables |-> u, lib |-> l, created |-> FALSE]
  BY <1>1 DEF Outcome
<1>3. l \in Libs(t) /\ t.libs[l].kind = c.kind /\ c.ref \in Refs
  BY DEF Joinable, Holders, Container
<1>4. /\ Sound(u) /\ Grown(t, u, i) /\ u.libs = t.libs
      /\ DOMAIN u.sources = DOMAIN t.sources \cup {<<l, i, c.ref>>}
  BY <1>3, AttachSound
<1> HIDE DEF u
<1> QED
  BY <1>2, <1>3, <1>4 DEF Bound, AtKind, Libs

\* A container bound already is seen again.
LEMMA RefreshBound ==
  ASSUME NEW t, Sound(t), NEW i \in Instances, NEW c \in Container,
         NEW l \in Feeding(t, i, c.ref)
  PROVE  Bound(t, i, c, Outcome(Refreshed(t, i, c.ref), l, FALSE))
<1> DEFINE r == c.ref
           again == [s \in DOMAIN t.sources |-> (s[2] = i /\ s[3] = r) \/ t.sources[s]]
           u == Refreshed(t, i, r)
<1>1. u = [libs |-> t.libs, sources |-> again, members |-> t.members,
           changes |-> t.changes, deleted |-> t.deleted]
  BY DEF Refreshed, Sound, TablesOK
<1>2. /\ DOMAIN again = DOMAIN t.sources
      /\ \A s \in DOMAIN t.sources : again[s] \in BOOLEAN
      /\ \A s \in DOMAIN t.sources : s[2] = i \/ again[s] = t.sources[s]
  <2>1. \A s \in DOMAIN t.sources : t.sources[s] \in BOOLEAN
    BY DEF Sound, TablesOK
  <2> QED
    BY <2>1
<1> HIDE DEF again, u
<1>3. /\ u.libs = t.libs /\ Libs(u) = Libs(t) /\ u.sources = again
      /\ u.members = t.members /\ u.deleted = t.deleted
  BY <1>1 DEF Libs
<1>4. TablesOK(u)
  BY <1>1, <1>2, <1>3 DEF Sound, TablesOK
<1>5. \A j \in Instances, q \in Refs : Feeding(u, j, q) = Feeding(t, j, q)
  BY <1>2, <1>3 DEF Feeding
<1>6. Sound(u)
  BY <1>3, <1>4, <1>5 DEF Sound, Distinct, OnePerKind, ByKind
<1>7. Grown(t, u, i)
  BY <1>2, <1>3 DEF Grown
<1>8. l \in Libs(u) /\ DOMAIN u.sources = DOMAIN t.sources \cup {<<l, i, r>>}
  BY <1>2, <1>3 DEF Feeding
<1> DEFINE o == Outcome(u, l, FALSE)
<1>9. o.tables = u /\ o.lib = l /\ o.created = FALSE
  BY DEF Outcome
<1> HIDE DEF o
<1>10. Bound(t, i, c, o)
  BY <1>6, <1>7, <1>8, <1>9 DEF Bound
<1> QED
  BY <1>10 DEF o, u

\* Retyping the one library over a container of guessed kind: nothing is filed into
\* it and nothing else feeds it, so no row elsewhere spoke of its kind.
LEMMA RetypeBound ==
  ASSUME NEW t, Sound(t), NEW i \in Guessing, NEW c \in Container,
         Retypable(t, Feeding(t, i, c.ref)), NEW o \in Retypes(t, i, c)
  PROVE  Bound(t, i, c, o) /\ AtKind(c, o)
<1>1. PICK l \in Feeding(t, i, c.ref) :
        o = Outcome([t EXCEPT !.libs[l].kind = c.kind], l, FALSE)
  BY DEF Retypes
<1>2. /\ Feeding(t, i, c.ref) = {l}
      /\ \A m \in DOMAIN t.members : m[1] # l
      /\ \A s, x \in DOMAIN t.sources : s[1] = l /\ x[1] = l => s = x
  BY <1>1 DEF Retypable
<1> DEFINE row == [t.libs[l] EXCEPT !.kind = c.kind]
           libs == [t.libs EXCEPT ![l] = row]
           u == [t EXCEPT !.libs[l].kind = c.kind]
<1>3. /\ l \in Libs(t) /\ <<l, i, c.ref>> \in DOMAIN t.sources
      /\ i \in Instances /\ c.kind \in Kinds /\ c.ref \in Refs
  BY <1>1, LibrariesAssumption DEF Feeding, Container
<1>4. /\ row \in Row /\ row.kind = c.kind
      /\ row.name = t.libs[l].name /\ row.orphaned = t.libs[l].orphaned
  <2>1. t.libs[l] \in Row
    BY <1>3 DEF Sound, TablesOK, Libs
  <2> QED
    BY <1>3, <2>1 DEF Row
<1>5. u = [libs |-> libs, sources |-> t.sources, members |-> t.members,
           changes |-> t.changes, deleted |-> t.deleted]
  <2>1. t = [libs |-> t.libs, sources |-> t.sources, members |-> t.members,
             changes |-> t.changes, deleted |-> t.deleted]
    BY DEF Sound, TablesOK
  <2>2. u = [t EXCEPT !.libs = libs]
    BY <1>3, <2>1 DEF Sound, TablesOK, Libs
  <2> HIDE DEF libs, u
  <2> QED
    BY <2>1, <2>2
<1> HIDE DEF row, u
<1>6. /\ libs \in Seq(Row) /\ Len(libs) = Len(t.libs)
      /\ libs[l] = row /\ \A m \in Libs(t) \ {l} : libs[m] = t.libs[m]
  <2>1. t.libs \in Seq(Row)
    BY DEF Sound, TablesOK
  <2> QED
    BY <1>3, <1>4, <2>1 DEF Libs
<1> HIDE DEF libs
<1>7. /\ u.libs = libs /\ Libs(u) = Libs(t) /\ u.sources = t.sources
      /\ u.members = t.members /\ u.deleted = t.deleted
  BY <1>5, <1>6 DEF Libs
<1>8. TablesOK(u)
  BY <1>5, <1>6, <1>7 DEF Sound, TablesOK
<1>9. \A m \in Libs(t) : u.libs[m].name = t.libs[m].name
                         /\ u.libs[m].orphaned = t.libs[m].orphaned
  BY <1>4, <1>6, <1>7
<1>10. Distinct(u)
  BY <1>7, <1>9 DEF Sound, Distinct
<1>11. \A j \in Instances, r \in Refs : l \in Feeding(t, j, r) => Feeding(t, j, r) = {l}
  <2> SUFFICES ASSUME NEW j \in Instances, NEW r \in Refs, l \in Feeding(t, j, r)
               PROVE  j = i /\ r = c.ref
    BY <1>2
  <2>1. <<l, j, r>> \in DOMAIN t.sources
    BY DEF Feeding
  <2>2. <<l, j, r>> = <<l, i, c.ref>>
    BY <1>2, <1>3, <2>1
  <2> QED
    BY <2>2
<1>12. OnePerKind(u)
  <2> SUFFICES ASSUME NEW j \in Instances, NEW r \in Refs,
                      NEW m \in Feeding(t, j, r), NEW k \in Feeding(t, j, r), m # k
               PROVE  u.libs[m].kind # u.libs[k].kind
    BY <1>7 DEF OnePerKind, Feeding
  <2>1. m # l /\ k # l
    BY <1>11
  <2>2. u.libs[m] = t.libs[m] /\ u.libs[k] = t.libs[k]
    BY <1>6, <1>7, <2>1 DEF Feeding
  <2> QED
    BY <2>2 DEF Sound, OnePerKind
<1>13. ByKind(u)
  <2>1. \A m \in DOMAIN t.members : m[1] \in Libs(t) \ {l}
    BY <1>2 DEF Sound, TablesOK
  <2> QED
    BY <1>6, <1>7, <2>1 DEF Sound, ByKind
<1>14. Grown(t, u, i)
  <2>1. ASSUME NEW m \in Libs(t), NEW s \in DOMAIN t.sources, s[1] = m, s[2] \notin Guessing
        PROVE  u.libs[m].kind = t.libs[m].kind
    <3>1. m # l
      BY <1>2, <1>3, <2>1
    <3> QED
      BY <1>6, <1>7, <3>1
  <2> QED
    BY <1>7, <1>9, <2>1 DEF Grown
<1>15. o = [tables |-> u, lib |-> l, created |-> FALSE]
  BY <1>1 DEF Outcome, u
<1>16. u.libs[l].kind = c.kind /\ DOMAIN u.sources = DOMAIN t.sources \cup {<<l, i, c.ref>>}
  BY <1>3, <1>4, <1>6, <1>7
<1> QED
  BY <1>3, <1>7, <1>8, <1>10, <1>12, <1>13, <1>14, <1>15, <1>16 DEF Bound, AtKind, Sound

\* Every arm binds: the tables stay sound, and evidence, or a kind that is no guess,
\* is bound to a library of that kind.
LEMMA BindOneBound ==
  ASSUME NEW t, Sound(t), NEW i \in Instances, NEW c \in Container,
         NEW eager \in BOOLEAN, NEW mint, NEW o \in BindOne(t, i, c, eager, mint)
  PROVE  /\ Bound(t, i, c, o)
         /\ ~ eager \/ i \notin Guessing => AtKind(c, o)
<1> DEFINE prior == Feeding(t, i, c.ref)
           same == SameKind(t, i, c)
           kept == IF same = {} /\ Adopts(t, i, c, eager) THEN prior ELSE same
<1>1. CASE kept # {}
  <2>1. PICK l \in kept : o = Outcome(Refreshed(t, i, c.ref), l, FALSE)
    BY <1>1 DEF BindOne
  <2>2. l \in prior
    BY <2>1 DEF SameKind
  <2>3. Bound(t, i, c, o)
    BY <2>1, <2>2, RefreshBound
  <2>4. ASSUME ~ eager \/ i \notin Guessing
        PROVE  AtKind(c, o)
    <3>1. l \in same
      BY <2>1, <2>4 DEF Adopts
    <3>2. t.libs[l].kind = c.kind
      BY <3>1 DEF SameKind
    <3>3. o.lib = l /\ o.tables.libs = t.libs
      BY <2>1 DEF Outcome, Refreshed, Sound, TablesOK
    <3> QED
      BY <3>2, <3>3 DEF AtKind
  <2> QED
    BY <2>3, <2>4
<1>2. CASE kept = {}
  <2>1. \A m \in prior : t.libs[m].kind # c.kind
    <3>1. same = {}
      BY <1>2 DEF SameKind
    <3> QED
      BY <3>1 DEF SameKind
  <2>2. CASE ~ eager /\ i \in Guessing /\ Retypable(t, prior)
    <3>1. o \in Retypes(t, i, c)
      BY <1>2, <2>2 DEF BindOne
    <3> QED
      BY <2>2, <3>1, RetypeBound
  <2>3. CASE ~ (~ eager /\ i \in Guessing /\ Retypable(t, prior)) /\ Joinable(t, c) # {}
    <3>1. o \in Joins(t, i, c, eager)
      BY <1>2, <2>3 DEF BindOne
    <3> QED
      BY <2>1, <3>1, JoinBound
  <2>4. CASE ~ (~ eager /\ i \in Guessing /\ Retypable(t, prior)) /\ Joinable(t, c) = {}
    <3>1. o \in Mints(t, i, c, eager, mint)
      BY <1>2, <2>4 DEF BindOne
    <3> QED
      BY <2>1, <3>1, MintBound
  <2> QED
    BY <2>2, <2>3, <2>4
<1> QED
  BY <1>1, <1>2

\* A library earns its place beside a sibling over container r of instance i.
Earned(t, l, i, r) ==
  \/ \E f \in DOMAIN t.members : f[1] = l
  \/ \E s \in DOMAIN t.sources : s[1] = l /\ s # <<l, i, r>>

\* Of two libraries over a guessed container each is earned, but for library x.
SiblingsBut(t, x) ==
  \A i \in Guessing, r \in Refs : \A l, m \in Feeding(t, i, r) :
    l # m /\ l # x => Earned(t, l, i, r)

Siblings(t) ==
  \A i \in Guessing, r \in Refs : \A l, m \in Feeding(t, i, r) : l # m => Earned(t, l, i, r)

\* What was earned stays earned, and a binding disturbs one container's siblings.
LEMMA BoundSiblings ==
  ASSUME NEW t, Sound(t), Siblings(t), NEW i \in Instances, NEW c \in Container,
         NEW o, Bound(t, i, c, o)
  PROVE  /\ (i \notin Guessing \/ Feeding(t, i, c.ref) = {} \/ o.lib \in Feeding(t, i, c.ref))
              => Siblings(o.tables)
         /\ ~ Retypable(t, Feeding(t, i, c.ref)) => SiblingsBut(o.tables, o.lib)
<1> DEFINE u == o.tables
           x == o.lib
           q == c.ref
<1>1. /\ u.members = t.members
      /\ DOMAIN u.sources = DOMAIN t.sources \cup {<<x, i, q>>}
  BY DEF Bound, Grown
<1>2. \A s \in DOMAIN t.sources : s[1] \in Libs(t)
  BY DEF Sound, TablesOK
<1> HIDE DEF u, x, q
<1>3. ASSUME NEW j \in Instances, NEW r \in Refs, NEW l \in Feeding(u, j, r)
      PROVE  l \in Feeding(t, j, r) \/ (l = x /\ j = i /\ r = q)
  <2>1. <<l, j, r>> \in DOMAIN t.sources \cup {<<x, i, q>>}
    BY <1>1, <1>3 DEF Feeding
  <2>2. CASE <<l, j, r>> \in DOMAIN t.sources
    BY <1>2, <2>2 DEF Feeding
  <2> QED
    BY <2>1, <2>2
<1>4. \A l, j, r : Earned(t, l, j, r) => Earned(u, l, j, r)
  BY <1>1 DEF Earned
<1>5. ASSUME i \notin Guessing \/ Feeding(t, i, q) = {} \/ x \in Feeding(t, i, q)
      PROVE  Siblings(u)
  <2> SUFFICES ASSUME NEW j \in Guessing, NEW r \in Refs,
                      NEW l \in Feeding(u, j, r), NEW m \in Feeding(u, j, r), l # m
               PROVE  Earned(u, l, j, r)
    BY DEF Siblings
  <2>0. j \in Instances
    BY LibrariesAssumption
  <2>1. l \in Feeding(t, j, r) /\ m \in Feeding(t, j, r)
    BY <1>3, <1>5, <2>0
  <2> QED
    BY <1>4, <2>1 DEF Siblings
<1>6. ASSUME ~ Retypable(t, Feeding(t, i, q))
      PROVE  SiblingsBut(u, x)
  <2> SUFFICES ASSUME NEW j \in Guessing, NEW r \in Refs,
                      NEW l \in Feeding(u, j, r), NEW m \in Feeding(u, j, r), l # m, l # x
               PROVE  Earned(u, l, j, r)
    BY DEF SiblingsBut
  <2>0. j \in Instances
    BY LibrariesAssumption
  <2>1. l \in Feeding(t, j, r)
    BY <1>3, <2>0
  <2>2. CASE m \in Feeding(t, j, r)
    BY <1>4, <2>1, <2>2 DEF Siblings
  <2>3. CASE \E k \in Feeding(t, j, r) : k # l
    BY <1>4, <2>1, <2>3 DEF Siblings
  <2>4. CASE m \notin Feeding(t, j, r) /\ Feeding(t, j, r) = {l}
    <3>1. j = i /\ r = q
      BY <1>3, <2>0, <2>4
    <3>2. \/ \E f \in DOMAIN t.members : f[1] = l
          \/ \E s, y \in DOMAIN t.sources : s[1] = l /\ y[1] = l /\ s # y
      BY <1>6, <2>4, <3>1 DEF Retypable
    <3>3. Earned(t, l, j, r)
      BY <3>2 DEF Earned
    <3> QED
      BY <1>4, <3>3
  <2> QED
    BY <2>1, <2>2, <2>3, <2>4
<1> QED
  BY <1>5, <1>6 DEF u, x, q

\* The container list binds a container of a guessing instance anew only when no
\* library is over it: its guess contradicts no earlier finding.
LEMMA EagerSiblings ==
  ASSUME NEW t, Sound(t), Siblings(t), NEW i \in Instances, NEW c \in Container,
         NEW mint, NEW o \in BindOne(t, i, c, TRUE, mint)
  PROVE  Siblings(o.tables)
<1>1. Bound(t, i, c, o)
  BY BindOneBound
<1> DEFINE prior == Feeding(t, i, c.ref)
           same == SameKind(t, i, c)
           kept == IF same = {} /\ Adopts(t, i, c, TRUE) THEN prior ELSE same
<1>2. CASE kept # {}
  <2>1. PICK l \in kept : o = Outcome(Refreshed(t, i, c.ref), l, FALSE)
    BY <1>2 DEF BindOne
  <2>2. o.lib \in prior
    BY <2>1 DEF SameKind, Outcome
  <2> QED
    BY <1>1, <2>2, BoundSiblings
<1>3. CASE kept = {}
  <2>1. i \notin Guessing \/ prior = {}
    BY <1>3 DEF Adopts
  <2> QED
    BY <1>1, <2>1, BoundSiblings
<1> QED
  BY <1>2, <1>3

\* Evidence leaves at most the library it files into unearned.
LEMMA EvidenceSiblings ==
  ASSUME NEW t, Sound(t), Siblings(t), NEW i \in Guessing, NEW c \in Container,
         NEW mint, NEW o \in BindOne(t, i, c, FALSE, mint)
  PROVE  SiblingsBut(o.tables, o.lib)
<1>0. i \in Instances
  BY LibrariesAssumption
<1>1. Bound(t, i, c, o)
  BY <1>0, BindOneBound
<1> DEFINE prior == Feeding(t, i, c.ref)
           same == SameKind(t, i, c)
<1>2. CASE same # {}
  <2>1. PICK l \in same : o = Outcome(Refreshed(t, i, c.ref), l, FALSE)
    BY <1>2 DEF BindOne, Adopts
  <2>2. o.lib \in prior
    BY <2>1 DEF SameKind, Outcome
  <2>3. Siblings(o.tables)
    BY <1>0, <1>1, <2>2, BoundSiblings
  <2> QED
    BY <2>3 DEF Siblings, SiblingsBut
<1>3. CASE same = {} /\ Retypable(t, prior)
  <2>1. o \in Retypes(t, i, c)
    BY <1>3 DEF BindOne, Adopts
  <2>2. o.lib \in prior
    BY <2>1 DEF Retypes, Outcome
  <2>3. Siblings(o.tables)
    BY <1>0, <1>1, <2>2, BoundSiblings
  <2> QED
    BY <2>3 DEF Siblings, SiblingsBut
<1>4. CASE ~ Retypable(t, prior)
  BY <1>0, <1>1, <1>4, BoundSiblings
<1> QED
  BY <1>2, <1>3, <1>4

\* What a container list names: the containers, those of a declined kind included.
Listed == [ref : Refs, name : Names, kind : Kinds \cup {Declined}]

\* A binding in hand still leads to a library its container feeds, and, when the kind
\* was no guess, to one of the kind it was made at.
BindingOK(t, i, r, b) ==
  /\ b.lib \in Libs(t) /\ <<b.lib, i, r>> \in DOMAIN t.sources
  /\ b.name \in Names
  /\ i \notin Guessing => t.libs[b.lib].kind = b.kind

BindingsOK(t, i, bs) ==
  /\ DOMAIN bs = Refs
  /\ \A r \in Refs : bs[r] = NoBinding \/ BindingOK(t, i, r, bs[r])

\* How far a transaction that binds containers one after another has come.
Done(t, i, done) ==
  /\ Sound(done.tables) /\ Siblings(done.tables) /\ Grown(t, done.tables, i)
  /\ BindingsOK(done.tables, i, done.bindings)

\* Bindings for one instance follow one another.
LEMMA GrownOn ==
  ASSUME NEW t, NEW u, NEW v, NEW i, Sound(t), Sound(u), Grown(t, u, i), Grown(u, v, i)
  PROVE  Grown(t, v, i)
<1>1. /\ Libs(t) \subseteq Libs(v) /\ v.members = t.members /\ v.deleted = t.deleted
      /\ DOMAIN t.sources \subseteq DOMAIN v.sources
  BY DEF Grown
<1>2. \A s \in DOMAIN v.sources :
        s[2] = i \/ (s \in DOMAIN t.sources /\ v.sources[s] = t.sources[s])
  BY DEF Grown
<1>3. \A l \in Libs(v) : l \in Libs(t) \/ \E r \in Refs : <<l, i, r>> \in DOMAIN v.sources
  BY DEF Grown
<1>4. \A l \in Libs(t) : v.libs[l].orphaned = t.libs[l].orphaned
  BY DEF Grown
<1>5. ASSUME NEW l \in Libs(t), NEW s \in DOMAIN t.sources, s[1] = l, s[2] \notin Guessing
      PROVE  v.libs[l].kind = t.libs[l].kind
  <2>1. u.libs[l].kind = t.libs[l].kind
    BY <1>5 DEF Grown
  <2>2. l \in Libs(u) /\ s \in DOMAIN u.sources
    BY <1>5 DEF Grown
  <2>3. v.libs[l].kind = u.libs[l].kind
    BY <1>5, <2>2 DEF Grown
  <2> QED
    BY <2>1, <2>3
<1> QED
  BY <1>1, <1>2, <1>3, <1>4, <1>5 DEF Grown

\* A binding survives what is bound after it, for any instance.
LEMMA BindingKept ==
  ASSUME NEW t, NEW u, NEW i \in Instances, NEW j, NEW r \in Refs, NEW b,
         BindingOK(t, i, r, b), Grown(t, u, j)
  PROVE  BindingOK(u, i, r, b)
<1>1. b.lib \in Libs(u) /\ <<b.lib, i, r>> \in DOMAIN u.sources
  BY DEF BindingOK, Grown
<1>2. ASSUME i \notin Guessing
      PROVE  u.libs[b.lib].kind = t.libs[b.lib].kind
  <2> DEFINE s == <<b.lib, i, r>>
  <2>1. s \in DOMAIN t.sources /\ s[1] = b.lib /\ s[2] \notin Guessing
    BY <1>2 DEF BindingOK
  <2> QED
    BY <2>1 DEF BindingOK, Grown
<1> QED
  BY <1>1, <1>2 DEF BindingOK

\* One container of a list.
LEMMA NextDone ==
  ASSUME NEW t, Sound(t), NEW i \in Instances, NEW done, Done(t, i, done),
         NEW c \in Listed, NEW next \in BindNext(i, done, c)
  PROVE  Done(t, i, next)
<1>1. CASE Declines(c)
  BY <1>1 DEF BindNext
<1>2. CASE ~ Declines(c)
  <2> DEFINE d == done.tables
  <2>1. PICK o \in BindOne(d, i, c, TRUE, NoMint) :
          next = [tables |-> o.tables,
                  bindings |-> [done.bindings EXCEPT ![c.ref] = Binding(o, c)]]
    BY <1>2 DEF BindNext
  <2>2. c \in Container /\ c.ref \in Refs /\ c.name \in Names
    BY <1>2 DEF Listed, Container, Declines
  <2>3. Sound(d) /\ Siblings(d) /\ Grown(t, d, i)
    BY DEF Done
  <2>4. /\ Bound(d, i, c, o)
        /\ i \notin Guessing => AtKind(c, o)
    <3>1. TRUE \in BOOLEAN /\ o \in BindOne(d, i, c, TRUE, NoMint)
      BY <2>1
    <3> HIDE DEF d
    <3> QED
      BY <2>2, <2>3, <3>1, BindOneBound
  <2>5. Siblings(o.tables)
    BY <2>1, <2>2, <2>3, EagerSiblings
  <2> DEFINE u == o.tables
  <2>6. Sound(u) /\ Grown(d, u, i)
    BY <2>4 DEF Bound
  <2>7. Grown(t, u, i)
    BY <2>3, <2>6, GrownOn
  <2> DEFINE b == Binding(o, c)
             bs == [done.bindings EXCEPT ![c.ref] = b]
  <2>8. BindingOK(u, i, c.ref, b)
    BY <2>2, <2>4 DEF Bound, AtKind, Binding, BindingOK
  <2>9. BindingsOK(u, i, bs)
    <3>1. DOMAIN bs = Refs /\ bs[c.ref] = b /\ \A r \in Refs \ {c.ref} : bs[r] = done.bindings[r]
      BY <2>2 DEF Done, BindingsOK
    <3> HIDE DEF bs, b, u
    <3>2. \A r \in Refs \ {c.ref} : bs[r] = NoBinding \/ BindingOK(u, i, r, bs[r])
      BY <2>6, <3>1, BindingKept DEF Done, BindingsOK
    <3> QED
      BY <2>8, <3>1, <3>2 DEF BindingsOK
  <2>10. next.tables = u /\ next.bindings = bs
    BY <2>1
  <2> HIDE DEF u, bs
  <2> QED
    BY <2>5, <2>6, <2>7, <2>9, <2>10 DEF Done, u
<1> QED
  BY <1>1, <1>2

\* The outcomes of the n-th container after those of the ones before it, and of the
\* first n containers, for n up to k, as a function.
After(i, cs, f, n) == UNION {BindNext(i, done, cs[n]) : done \in f[n - 1]}

Prefixes(t, i, cs, k, f) ==
  f = [n \in 0 .. k |-> IF n = 0 THEN {Unbound(t)} ELSE After(i, cs, f, n)]

\* There is one: it is extended by one container at a time.
LEMMA PrefixesExist ==
  ASSUME NEW t, NEW i, NEW cs, NEW k \in Nat
  PROVE  \E f : Prefixes(t, i, cs, k, f)
<1> DEFINE without == {n \in Nat : ~ \E f : Prefixes(t, i, cs, n, f)}
<1>1. SUFFICES ASSUME without # {} PROVE FALSE
  OBVIOUS
<1>2. PICK n \in without : \A m \in without : n =< m
  BY <1>1, LeastNumber
<1>3. n # 0
  <2> DEFINE f == [m \in 0 .. 0 |-> IF m = 0 THEN {Unbound(t)} ELSE After(i, cs, m, m)]
  <2>1. f = [m \in 0 .. 0 |-> IF m = 0 THEN {Unbound(t)} ELSE After(i, cs, f, m)]
    OBVIOUS
  <2>2. Prefixes(t, i, cs, 0, f)
    BY <2>1 DEF Prefixes
  <2> QED
    BY <1>2, <2>2
<1>4. n \in Nat /\ n - 1 \in Nat /\ n - 1 \notin without
  BY <1>2, <1>3
<1>5. PICK f : Prefixes(t, i, cs, n - 1, f)
  BY <1>4
<1> DEFINE g == [m \in 0 .. n |-> IF m = n THEN After(i, cs, f, n) ELSE f[m]]
<1>6. \A m \in 0 .. n - 1 : m \in 0 .. n /\ m # n /\ g[m] = f[m]
  BY <1>4
<1>7. \A m \in 0 .. n - 1 : f[m] = IF m = 0 THEN {Unbound(t)} ELSE After(i, cs, f, m)
  BY <1>5 DEF Prefixes
<1>8. g[n] = After(i, cs, f, n) /\ DOMAIN g = 0 .. n /\ g = [m \in 0 .. n |-> g[m]]
  BY <1>4
<1> HIDE DEF g
<1>9. ASSUME NEW m \in 0 .. n
      PROVE  g[m] = IF m = 0 THEN {Unbound(t)} ELSE After(i, cs, g, m)
  <2>1. CASE m = 0
    <3>1. 0 \in 0 .. n - 1
      BY <1>3, <1>4
    <3> QED
      BY <1>6, <1>7, <2>1, <3>1
  <2>2. CASE m # 0
    <3>1. m - 1 \in 0 .. n - 1
      BY <1>4, <2>2
    <3>2. After(i, cs, g, m) = After(i, cs, f, m)
      BY <1>6, <3>1 DEF After
    <3>3. m = n \/ m \in 0 .. n - 1
      BY <1>4
    <3>4. g[m] = After(i, cs, f, m)
      BY <1>6, <1>7, <1>8, <2>2, <3>3
    <3> QED
      BY <2>2, <3>2, <3>4
  <2> QED
    BY <2>1, <2>2
<1>10. Prefixes(t, i, cs, n, g)
  BY <1>8, <1>9 DEF Prefixes
<1> QED
  BY <1>2, <1>10

\* A transaction that has bound nothing yet.
LEMMA UnboundDone ==
  ASSUME NEW t, Sound(t), Siblings(t), NEW i \in Instances
  PROVE  Done(t, i, Unbound(t))
<1> DEFINE none == [r \in Refs |-> NoBinding]
<1>1. BindingsOK(t, i, none)
  BY DEF BindingsOK
<1>2. Grown(t, t, i)
  BY DEF Grown
<1>3. Unbound(t).tables = t /\ Unbound(t).bindings = none
  BY DEF Unbound
<1> HIDE DEF none
<1> QED
  BY <1>1, <1>2, <1>3 DEF Done

\* Every outcome of binding a list, container after container.
LEMMA BindAllDone ==
  ASSUME NEW t, Sound(t), Siblings(t), NEW i \in Instances, NEW cs \in Seq(Listed),
         NEW done \in BindAll(t, i, cs)
  PROVE  Done(t, i, done)
<1> DEFINE bound == CHOOSE f : Prefixes(t, i, cs, Len(cs), f)
<1>1. Len(cs) \in Nat
  OBVIOUS
<1>2. Prefixes(t, i, cs, Len(cs), bound)
  <2>1. \E f : Prefixes(t, i, cs, Len(cs), f)
    BY <1>1, PrefixesExist
  <2> QED
    BY <2>1
<1>3. BindAll(t, i, cs) = bound[Len(cs)]
  BY DEF BindAll, Prefixes, After
<1> HIDE DEF bound
<1>4. \A n \in 0 .. Len(cs) :
        bound[n] = IF n = 0 THEN {Unbound(t)} ELSE After(i, cs, bound, n)
  BY <1>2 DEF Prefixes
<1> DEFINE off == {n \in 0 .. Len(cs) : \E d \in bound[n] : ~ Done(t, i, d)}
<1>5. ASSUME off # {} PROVE FALSE
  <2>1. off \in SUBSET Nat
    BY <1>1
  <2>2. PICK n \in off : \A m \in off : n =< m
    BY <1>5, <2>1, LeastNumber
  <2>3. n \in 0 .. Len(cs)
    OBVIOUS
  <2>4. PICK d \in bound[n] : ~ Done(t, i, d)
    OBVIOUS
  <2>5. n # 0
    <3>1. CASE n = 0
      <4>1. d = Unbound(t)
        BY <1>4, <2>3, <2>4, <3>1
      <4> QED
        BY <2>4, <4>1, UnboundDone
    <3> QED
      BY <3>1
  <2>6. n - 1 \in 0 .. Len(cs) /\ n - 1 \notin off /\ cs[n] \in Listed
    BY <1>1, <2>2, <2>3, <2>5
  <2>7. PICK e \in bound[n - 1] : d \in BindNext(i, e, cs[n])
    <3>1. d \in After(i, cs, bound, n)
      <4>1. bound[n] = After(i, cs, bound, n)
        BY <1>4, <2>3, <2>5
      <4> QED
        BY <2>4, <4>1
    <3> QED
      BY <3>1 DEF After
  <2>8. Done(t, i, e)
    BY <2>6
  <2> QED
    BY <2>4, <2>6, <2>7, <2>8, NextDone
<1>6. Len(cs) \in 0 .. Len(cs) /\ Len(cs) \notin off
  BY <1>1, <1>5
<1>7. done \in bound[Len(cs)]
  BY <1>3
<1> QED
  BY <1>6, <1>7

\* Filing an item into a library of its kind.
LEMMA FileIntoSound ==
  ASSUME NEW t, Sound(t), NEW l \in Libs(t), NEW w \in Works, NEW kind, t.libs[l].kind = kind
  PROVE  LET u == FileInto(t, l, w, kind)
         IN  /\ Sound(u)
             /\ u.libs = t.libs /\ u.sources = t.sources /\ u.deleted = t.deleted
             /\ DOMAIN u.members = DOMAIN t.members \cup {<<l, w>>}
<1> DEFINE f0 == <<l, w>>
           more == [m \in DOMAIN t.members \cup {f0} |-> IF m = f0 THEN kind ELSE t.members[m]]
           u == FileInto(t, l, w, kind)
<1>1. u = [libs |-> t.libs, sources |-> t.sources, members |-> more,
           changes |-> t.changes, deleted |-> t.deleted]
  <2>1. t = [libs |-> t.libs, sources |-> t.sources, members |-> t.members,
             changes |-> t.changes, deleted |-> t.deleted]
    BY DEF Sound, TablesOK
  <2>2. u = [t EXCEPT !.members = more]
    BY DEF FileInto
  <2> HIDE DEF more, u
  <2> QED
    BY <2>1, <2>2
<1>2. /\ DOMAIN more = DOMAIN t.members \cup {f0} /\ more[f0] = kind
      /\ \A m \in DOMAIN t.members : m # f0 => more[m] = t.members[m]
  OBVIOUS
<1>3. f0 \in Libs(t) \X Works /\ f0[1] = l
  OBVIOUS
<1> HIDE DEF more, f0, u
<1>4. /\ u.libs = t.libs /\ Libs(u) = Libs(t) /\ u.sources = t.sources
      /\ u.members = more /\ u.deleted = t.deleted
  BY <1>1 DEF Libs
<1>5. TablesOK(u)
  <2>1. \A m \in DOMAIN u.members : m \in Libs(u) \X Works
    BY <1>2, <1>3, <1>4 DEF Sound, TablesOK
  <2> QED
    BY <1>1, <1>4, <2>1 DEF Sound, TablesOK
<1>6. Distinct(u) /\ OnePerKind(u)
  BY <1>4 DEF Sound, Distinct, OnePerKind, Feeding
<1>7. ByKind(u)
  BY <1>2, <1>3, <1>4 DEF Sound, ByKind
<1> QED
  BY <1>2, <1>4, <1>5, <1>6, <1>7 DEF Sound, u, f0

\* Filing into the library that was left unearned earns it.
LEMMA FiledSiblings ==
  ASSUME NEW t, NEW l, NEW w, NEW kind, SiblingsBut(t, l), NEW u,
         u.libs = t.libs, u.sources = t.sources, DOMAIN u.members = DOMAIN t.members \cup {<<l, w>>}
  PROVE  Siblings(u)
<1>1. \A j, r : Feeding(u, j, r) = Feeding(t, j, r)
  BY DEF Feeding, Libs
<1>2. \A k, j, r : Earned(t, k, j, r) => Earned(u, k, j, r)
  BY DEF Earned
<1>3. \A j, r : Earned(u, l, j, r)
  <2>1. <<l, w>> \in DOMAIN u.members /\ <<l, w>>[1] = l
    OBVIOUS
  <2> QED
    BY <2>1 DEF Earned
<1> QED
  BY <1>1, <1>2, <1>3 DEF Siblings, SiblingsBut

\* An item of a bound container is filed into a library of its kind, and leaves
\* everything of other instances alone.
LEMMA FileItemSound ==
  ASSUME NEW t, Sound(t), Siblings(t), NEW i \in Instances, NEW r \in Refs,
         NEW b, BindingOK(t, i, r, b), NEW w \in Works, NEW kind \in Kinds,
         i \notin Guessing => kind = b.kind,
         NEW u \in FileItem(t, i, r, b, w, kind)
  PROVE  \E v : /\ Grown(t, v, i) /\ Sound(v)
                /\ Sound(u) /\ Siblings(u)
                /\ u.libs = v.libs /\ u.sources = v.sources /\ u.deleted = v.deleted
<1>1. CASE i \in Guessing
  <2> DEFINE mint == IF b.created THEN [lib |-> b.lib, kind |-> b.kind] ELSE NoMint
             c == [ref |-> r, name |-> b.name, kind |-> kind]
  <2>1. PICK f \in BindOne(t, i, c, FALSE, mint) : u = FileInto(f.tables, f.lib, w, kind)
    BY <1>1 DEF FileItem
  <2>2. c \in Container /\ c.kind = kind
    BY DEF BindingOK, Container
  <2> HIDE DEF c, mint
  <2>3. Bound(t, i, c, f) /\ AtKind(c, f)
    BY <2>1, <2>2, BindOneBound
  <2>4. SiblingsBut(f.tables, f.lib)
    BY <1>1, <2>1, <2>2, EvidenceSiblings
  <2>5. Sound(f.tables) /\ Grown(t, f.tables, i) /\ f.lib \in Libs(f.tables)
        /\ f.tables.libs[f.lib].kind = kind
    BY <2>2, <2>3 DEF Bound, AtKind
  <2>6. /\ Sound(u)
        /\ u.libs = f.tables.libs /\ u.sources = f.tables.sources
        /\ u.deleted = f.tables.deleted
        /\ DOMAIN u.members = DOMAIN f.tables.members \cup {<<f.lib, w>>}
    BY <2>1, <2>5, FileIntoSound
  <2>7. Siblings(u)
    BY <2>4, <2>6, FiledSiblings
  <2> QED
    BY <2>5, <2>6, <2>7
<1>2. CASE i \notin Guessing
  <2>1. u = FileInto(t, b.lib, w, kind)
    BY <1>2 DEF FileItem
  <2>2. b.lib \in Libs(t) /\ t.libs[b.lib].kind = kind
    BY <1>2 DEF BindingOK
  <2>3. /\ Sound(u) /\ u.libs = t.libs /\ u.sources = t.sources /\ u.deleted = t.deleted
        /\ DOMAIN u.members = DOMAIN t.members \cup {<<b.lib, w>>}
    BY <2>1, <2>2, FileIntoSound
  <2>4. SiblingsBut(t, b.lib)
    BY DEF Siblings, SiblingsBut
  <2>5. Siblings(u)
    BY <2>3, <2>4, FiledSiblings
  <2>6. Grown(t, t, i)
    BY DEF Grown
  <2> QED
    BY <2>3, <2>5, <2>6
<1> QED
  BY <1>1, <1>2

\* A library's stamp is right while no instance between its bind and its sweep feeds it.
StampOK(t, is) ==
  \A l \in Libs(t) :
    (\A j \in Instances, r \in Refs : l \in Feeding(t, j, r) => j \notin is)
      => (t.libs[l].orphaned <=> ~ Counting(t, l))

LibrariesTypeOK ==
  /\ shelves \in [Instances -> UNION Range(Shelvings)]
  /\ \A i \in Instances : shelves[i] \in Shelvings[i]
  /\ phase \in [Instances -> {"idle", "listed", "bound"}]
  /\ listing \in [Instances -> Seq(Listed)]
  /\ DOMAIN bindings = Instances
  /\ unswept \subseteq Instances

\* What an import past its bind has in hand still fits the tables, whatever others
\* bound, filed, swept and deleted since.
ImportsFit ==
  \A i \in Instances : phase[i] = "bound" => i \in unswept /\ BindingsOK(tables, i, bindings[i])

LibrariesInv ==
  /\ LibrariesTypeOK
  /\ Sound(tables)
  /\ Siblings(tables)
  /\ ImportsFit
  /\ StampOK(tables, unswept)

\* What a settling changes: missing_since and the orphan stamps, no library's kind,
\* name, source or member.
Settled(t, u, i) ==
  /\ Libs(u) = Libs(t) /\ u.members = t.members
  /\ DOMAIN u.sources = DOMAIN t.sources
  /\ \A s \in DOMAIN t.sources : s[2] = i \/ u.sources[s] = t.sources[s]
  /\ u.deleted \cup {i} = t.deleted \cup {i}
  /\ \A l \in Libs(t) : u.libs[l].name = t.libs[l].name /\ u.libs[l].kind = t.libs[l].kind
  /\ \A l \in Libs(t) :
       IF \E r \in Refs : l \in Feeding(t, i, r)
       THEN u.libs[l].orphaned <=> ~ Counting(u, l)
       ELSE u.libs[l].orphaned = t.libs[l].orphaned

\* Tables with the libraries, sources and members of others are as sound.
LEMMA SettledSound ==
  ASSUME NEW t, Sound(t), NEW i, NEW u, TablesOK(u), Settled(t, u, i)
  PROVE  Sound(u) /\ (Siblings(t) => Siblings(u))
<1>1. \A j, r : Feeding(u, j, r) = Feeding(t, j, r)
  BY DEF Settled, Feeding
<1>2. Distinct(u)
  BY DEF Settled, Sound, Distinct
<1>3. OnePerKind(u)
  BY <1>1 DEF Settled, Sound, OnePerKind, Feeding
<1>4. ByKind(u)
  <2>1. \A m \in DOMAIN t.members : m[1] \in Libs(t)
    BY DEF Sound, TablesOK
  <2> QED
    BY <2>1 DEF Settled, Sound, ByKind
<1>5. \A l, j, r : Earned(u, l, j, r) <=> Earned(t, l, j, r)
  BY DEF Settled, Earned
<1>6. Siblings(t) => Siblings(u)
  BY <1>1, <1>5 DEF Siblings
<1> QED
  BY <1>2, <1>3, <1>4, <1>6 DEF Sound

\* sweepOrphans over tables whose sources and deletions were just changed.
LEMMA SettleOrphansSound ==
  ASSUME NEW t, Sound(t), NEW i, NEW v, TablesOK(v),
         v.libs = t.libs, v.members = t.members,
         DOMAIN v.sources = DOMAIN t.sources,
         \A s \in DOMAIN t.sources : s[2] = i \/ v.sources[s] = t.sources[s],
         v.deleted \cup {i} = t.deleted \cup {i}
  PROVE  LET u == SettleOrphans(v, i)
         IN  TablesOK(u) /\ Settled(t, u, i) /\ u.deleted = v.deleted
<1> DEFINE fed(l) == \E r \in Refs : l \in Feeding(v, i, r)
           row(l) == IF fed(l) THEN [v.libs[l] EXCEPT !.orphaned = ~ Counting(v, l)] ELSE v.libs[l]
           libs == [l \in Libs(v) |-> row(l)]
           u == SettleOrphans(v, i)
<1>1. u = [libs |-> libs, sources |-> v.sources, members |-> v.members,
           changes |-> v.changes, deleted |-> v.deleted]
  <2>1. v = [libs |-> v.libs, sources |-> v.sources, members |-> v.members,
             changes |-> v.changes, deleted |-> v.deleted]
    BY DEF TablesOK
  <2>2. u = [v EXCEPT !.libs = libs]
    BY DEF SettleOrphans
  <2> HIDE DEF libs, u
  <2> QED
    BY <2>1, <2>2
<1>2. ASSUME NEW l \in Libs(v)
      PROVE  /\ row(l) \in Row
             /\ row(l).name = v.libs[l].name /\ row(l).kind = v.libs[l].kind
             /\ fed(l) => row(l).orphaned = ~ Counting(v, l)
             /\ ~ fed(l) => row(l) = v.libs[l]
  <2>1. v.libs[l] \in Row
    BY DEF TablesOK, Libs
  <2>2. (~ Counting(v, l)) \in BOOLEAN
    OBVIOUS
  <2> HIDE DEF fed
  <2> QED
    BY <2>1, <2>2 DEF Row
<1>3. Len(v.libs) \in Nat
  BY DEF TablesOK
<1>4. libs \in [1 .. Len(v.libs) -> Row]
  BY <1>2 DEF Libs
<1>5. \A l \in Libs(v) : libs[l] = row(l)
  OBVIOUS
<1> HIDE DEF row, libs, u, fed
<1>6. libs \in Seq(Row) /\ Len(libs) = Len(v.libs)
  BY <1>3, <1>4, SeqDef
<1>7. /\ u.libs = libs /\ u.sources = v.sources /\ u.members = v.members
      /\ u.deleted = v.deleted
  BY <1>1
<1>8. Libs(u) = Libs(v) /\ Libs(v) = Libs(t)
  BY <1>6, <1>7 DEF Libs
<1>9. TablesOK(u)
  BY <1>1, <1>6, <1>7, <1>8 DEF TablesOK
<1>10. \A l : Counting(u, l) <=> Counting(v, l)
  BY <1>7 DEF Counting
<1>11. \A r : Feeding(v, i, r) = Feeding(t, i, r)
  BY <1>8 DEF Feeding
<1>12. \A l \in Libs(t) : fed(l) <=> \E r \in Refs : l \in Feeding(t, i, r)
  BY <1>11 DEF fed
<1>13. \A l \in Libs(t) : u.libs[l].name = t.libs[l].name /\ u.libs[l].kind = t.libs[l].kind
  BY <1>2, <1>5, <1>7, <1>8
<1>14. ASSUME NEW l \in Libs(t)
       PROVE  IF \E r \in Refs : l \in Feeding(t, i, r)
              THEN u.libs[l].orphaned <=> ~ Counting(u, l)
              ELSE u.libs[l].orphaned = t.libs[l].orphaned
  <2>1. CASE fed(l)
    BY <1>2, <1>5, <1>7, <1>8, <1>10, <1>12, <2>1
  <2>2. CASE ~ fed(l)
    BY <1>2, <1>5, <1>7, <1>8, <1>12, <2>2
  <2> QED
    BY <2>1, <2>2
<1>15. Settled(t, u, i)
  BY <1>7, <1>8, <1>13, <1>14 DEF Settled
<1> QED
  BY <1>7, <1>9, <1>15 DEF u

\* The deletion sweep of an import.
LEMMA SweepSettles ==
  ASSUME NEW t, Sound(t), NEW i, NEW reported
  PROVE  LET u == SweepContainers(t, i, reported)
         IN  TablesOK(u) /\ Settled(t, u, i) /\ u.deleted = t.deleted
<1> DEFINE seen == [s \in DOMAIN t.sources |-> t.sources[s] /\ (s[2] = i => s[3] \in reported)]
           v == [t EXCEPT !.sources = seen]
<1>1. v = [libs |-> t.libs, sources |-> seen, members |-> t.members,
           changes |-> t.changes, deleted |-> t.deleted]
  <2> HIDE DEF seen
  <2> QED
    BY DEF Sound, TablesOK
<1>2. SweepContainers(t, i, reported) = SettleOrphans(v, i)
  BY DEF SweepContainers
<1>3. \A s \in DOMAIN t.sources : t.sources[s] \in BOOLEAN
  BY DEF Sound, TablesOK
<1>4. /\ DOMAIN seen = DOMAIN t.sources
      /\ \A s \in DOMAIN t.sources : seen[s] \in BOOLEAN
      /\ \A s \in DOMAIN t.sources : s[2] = i \/ seen[s] = t.sources[s]
  BY <1>3
<1> HIDE DEF seen, v
<1>5. /\ v.libs = t.libs /\ v.sources = seen /\ v.members = t.members /\ v.deleted = t.deleted
  BY <1>1
<1>6. TablesOK(v)
  BY <1>1, <1>4, <1>5 DEF Sound, TablesOK, Libs
<1>7. /\ DOMAIN v.sources = DOMAIN t.sources
      /\ \A s \in DOMAIN t.sources : s[2] = i \/ v.sources[s] = t.sources[s]
      /\ v.deleted \cup {i} = t.deleted \cup {i}
  BY <1>4, <1>5
<1> QED
  BY <1>2, <1>5, <1>6, <1>7, SettleOrphansSound

\* The deletion of an instance.
LEMMA DeletionSettles ==
  ASSUME NEW t, Sound(t), NEW i
  PROVE  LET u == SoftDelete(t, i)
         IN  TablesOK(u) /\ Settled(t, u, i)
<1> DEFINE v == [t EXCEPT !.deleted = @ \cup {i}]
<1>1. v = [libs |-> t.libs, sources |-> t.sources, members |-> t.members,
           changes |-> t.changes, deleted |-> t.deleted \cup {i}]
  <2>1. t = [libs |-> t.libs, sources |-> t.sources, members |-> t.members,
             changes |-> t.changes, deleted |-> t.deleted]
    BY DEF Sound, TablesOK
  <2> QED
    BY <2>1
<1>2. SoftDelete(t, i) = SettleOrphans(v, i)
  BY DEF SoftDelete
<1> HIDE DEF v
<1>3. /\ v.libs = t.libs /\ v.sources = t.sources /\ v.members = t.members
      /\ v.deleted \cup {i} = t.deleted \cup {i}
  BY <1>1
<1>4. TablesOK(v)
  BY <1>1, <1>3 DEF Sound, TablesOK, Libs
<1> QED
  BY <1>2, <1>3, <1>4, SettleOrphansSound

\* A library an instance does not feed counts the same sources after the instance's
\* own sources, or its deletion, changed.
LEMMA CountingKept ==
  ASSUME NEW t, NEW u, NEW i, NEW l,
         \A s \in DOMAIN t.sources \cup DOMAIN u.sources : s[1] = l => s[2] # i,
         \A s : s[2] # i => /\ s \in DOMAIN u.sources <=> s \in DOMAIN t.sources
                            /\ s \in DOMAIN t.sources => u.sources[s] = t.sources[s]
                            /\ s[2] \in u.deleted <=> s[2] \in t.deleted
  PROVE  Counting(u, l) <=> Counting(t, l)
BY DEF Counting

\* No source of an instance is a source of a library it does not feed.
LEMMA NotFed ==
  ASSUME NEW t, TablesOK(t), NEW i, NEW l, \A r \in Refs : l \notin Feeding(t, i, r)
  PROVE  \A s \in DOMAIN t.sources : s[1] = l => s[2] # i
<1> SUFFICES ASSUME NEW s \in DOMAIN t.sources, s[1] = l, s[2] = i
             PROVE  FALSE
  OBVIOUS
<1>1. s \in Libs(t) \X Instances \X Refs
  BY DEF TablesOK
<1>2. s = <<l, i, s[3]>> /\ s[3] \in Refs /\ l \in Libs(t)
  BY <1>1
<1> QED
  BY <1>2 DEF Feeding

\* A settling over an instance leaves every stamp right that need be, the instance's
\* own included.
LEMMA SettledStamps ==
  ASSUME NEW t, Sound(t), NEW i, NEW u, TablesOK(u), Settled(t, u, i),
         NEW is, StampOK(t, is)
  PROVE  StampOK(u, is \ {i})
<1> SUFFICES ASSUME NEW l \in Libs(u),
                    \A j \in Instances, r \in Refs : l \in Feeding(u, j, r) => j \notin is \ {i}
             PROVE  u.libs[l].orphaned <=> ~ Counting(u, l)
  BY DEF StampOK
<1>0. l \in Libs(t)
  BY DEF Settled
<1>1. \A j, r : Feeding(u, j, r) = Feeding(t, j, r)
  BY DEF Settled, Feeding
<1>2. CASE \E r \in Refs : l \in Feeding(t, i, r)
  BY <1>0, <1>2 DEF Settled
<1>3. CASE \A r \in Refs : l \notin Feeding(t, i, r)
  <2>1. u.libs[l].orphaned = t.libs[l].orphaned
    BY <1>0, <1>3 DEF Settled
  <2>2. t.libs[l].orphaned <=> ~ Counting(t, l)
    BY <1>0, <1>1, <1>3 DEF StampOK
  <2>3. Counting(u, l) <=> Counting(t, l)
    <3>1. \A s \in DOMAIN t.sources \cup DOMAIN u.sources : s[1] = l => s[2] # i
      <4>1. \A s \in DOMAIN t.sources : s[1] = l => s[2] # i
        BY <1>3, NotFed DEF Sound
      <4> QED
        BY <4>1 DEF Settled
    <3>2. \A s : s[2] # i => /\ s \in DOMAIN u.sources <=> s \in DOMAIN t.sources
                             /\ s \in DOMAIN t.sources => u.sources[s] = t.sources[s]
                             /\ s[2] \in u.deleted <=> s[2] \in t.deleted
      <4>1. \A x : x # i => (x \in u.deleted <=> x \in t.deleted)
        BY DEF Settled
      <4> QED
        BY <4>1 DEF Settled
    <3> QED
      BY <3>1, <3>2, CountingKept
  <2> QED
    BY <2>1, <2>2, <2>3
<1> QED
  BY <1>2, <1>3

\* A binding or a filing for an instance before its sweep disturbs no stamp that need
\* be right.
LEMMA GrownStamps ==
  ASSUME NEW t, Sound(t), NEW i \in Instances, NEW v, Sound(v), Grown(t, v, i),
         NEW is, StampOK(t, is)
  PROVE  StampOK(v, is \cup {i})
<1> SUFFICES ASSUME NEW l \in Libs(v),
                    \A j \in Instances, r \in Refs :
                      l \in Feeding(v, j, r) => j \notin is \cup {i}
             PROVE  v.libs[l].orphaned <=> ~ Counting(v, l)
  BY DEF StampOK
<1>1. \A r \in Refs : l \notin Feeding(v, i, r)
  OBVIOUS
<1>2. \A s \in DOMAIN v.sources : s[1] = l => s[2] # i
  BY <1>1, NotFed DEF Sound
<1>3. l \in Libs(t)
  BY <1>1 DEF Grown, Feeding
<1>4. \A j, r : Feeding(t, j, r) \subseteq Feeding(v, j, r)
  BY DEF Grown, Feeding
<1>5. t.libs[l].orphaned <=> ~ Counting(t, l)
  BY <1>3, <1>4 DEF StampOK
<1>6. v.libs[l].orphaned = t.libs[l].orphaned
  BY <1>3 DEF Grown
<1>7. Counting(v, l) <=> Counting(t, l)
  <2>1. \A s \in DOMAIN t.sources \cup DOMAIN v.sources : s[1] = l => s[2] # i
    BY <1>2 DEF Grown
  <2>2. \A s : s[2] # i => /\ s \in DOMAIN v.sources <=> s \in DOMAIN t.sources
                           /\ s \in DOMAIN t.sources => v.sources[s] = t.sources[s]
                           /\ s[2] \in v.deleted <=> s[2] \in t.deleted
    BY DEF Grown
  <2> QED
    BY <2>1, <2>2, CountingKept
<1> QED
  BY <1>5, <1>6, <1>7

\* A binding in hand fits whatever keeps its source and its library's kind.
LEMMA BindingsMove ==
  ASSUME NEW t, NEW u, NEW j \in Instances, NEW bs, BindingsOK(t, j, bs),
         Libs(t) \subseteq Libs(u), DOMAIN t.sources \subseteq DOMAIN u.sources,
         \A l \in Libs(t) : (\E s \in DOMAIN t.sources : s[1] = l /\ s[2] \notin Guessing)
                              => u.libs[l].kind = t.libs[l].kind
  PROVE  BindingsOK(u, j, bs)
<1> SUFFICES ASSUME NEW r \in Refs, bs[r] # NoBinding
             PROVE  BindingOK(u, j, r, bs[r])
  BY DEF BindingsOK
<1> DEFINE b == bs[r]
           s == <<b.lib, j, r>>
<1>1. BindingOK(t, j, r, b)
  BY DEF BindingsOK
<1> HIDE DEF b
<1>2. s \in DOMAIN t.sources /\ s[1] = b.lib /\ s[2] = j
  BY <1>1 DEF BindingOK
<1>3. j \notin Guessing => u.libs[b.lib].kind = t.libs[b.lib].kind
  BY <1>1, <1>2 DEF BindingOK
<1>4. BindingOK(u, j, r, b)
  BY <1>1, <1>3 DEF BindingOK
<1> QED
  BY <1>4 DEF b

\* What a transaction of instance i leaves of the imports and the stamps.
LEMMA TransactionKeeps ==
  ASSUME LibrariesInv, NEW i \in Instances, NEW v, Sound(v), Grown(tables, v, i),
         NEW u, u.libs = v.libs, u.sources = v.sources, u.deleted = v.deleted
  PROVE  /\ \A j \in Instances : phase[j] = "bound" => BindingsOK(u, j, bindings[j])
         /\ StampOK(u, unswept \cup {i})
<1>1. Sound(tables) /\ StampOK(tables, unswept) /\ ImportsFit
  BY DEF LibrariesInv
<1>2. Libs(u) = Libs(v)
  BY DEF Libs
<1>3. \A j \in Instances : phase[j] = "bound" => BindingsOK(u, j, bindings[j])
  <2>1. /\ Libs(tables) \subseteq Libs(u) /\ DOMAIN tables.sources \subseteq DOMAIN u.sources
        /\ \A l \in Libs(tables) :
             (\E s \in DOMAIN tables.sources : s[1] = l /\ s[2] \notin Guessing)
               => u.libs[l].kind = tables.libs[l].kind
    BY <1>2 DEF Grown
  <2> QED
    BY <1>1, <2>1, BindingsMove DEF ImportsFit
<1>4. StampOK(v, unswept \cup {i})
  BY <1>1, GrownStamps
<1>5. /\ \A l : Counting(u, l) <=> Counting(v, l)
      /\ \A j, r : Feeding(u, j, r) = Feeding(v, j, r)
  BY <1>2 DEF Counting, Feeding
<1>6. StampOK(u, unswept \cup {i})
  BY <1>2, <1>4, <1>5 DEF StampOK
<1> QED
  BY <1>3, <1>6

\* The more instances are between bind and sweep, the fewer stamps need be right.
LEMMA StampsWeaken ==
  ASSUME NEW t, NEW is, NEW more, is \subseteq more, StampOK(t, is)
  PROVE  StampOK(t, more)
BY DEF StampOK

\* The database starts without libraries.
LEMMA InitLibraries ==
  ASSUME LibrariesInit
  PROVE  LibrariesInv
<1>1. PICK gone \in SUBSET Instances :
        tables = [libs |-> <<>>, sources |-> NoCard, members |-> NoCard,
                  changes |-> {}, deleted |-> gone]
  BY DEF LibrariesInit
<1>2. /\ tables.libs = <<>> /\ tables.sources = NoCard /\ tables.members = NoCard
      /\ tables = [libs |-> tables.libs, sources |-> tables.sources,
                   members |-> tables.members, changes |-> tables.changes,
                   deleted |-> tables.deleted]
  BY <1>1
<1>3. DOMAIN tables.sources = {} /\ DOMAIN tables.members = {}
  BY <1>2 DEF NoCard
<1>4. Libs(tables) = {}
  BY <1>2 DEF Libs
<1>5. TablesOK(tables)
  <2>1. tables.libs \in Seq(Row)
    BY <1>2
  <2> QED
    BY <1>2, <1>3, <2>1 DEF TablesOK
<1>6. Sound(tables) /\ Siblings(tables) /\ StampOK(tables, unswept)
  BY <1>3, <1>4, <1>5
  DEF Sound, Distinct, OnePerKind, ByKind, Siblings, StampOK, Feeding
<1>7. LibrariesTypeOK
  <2>1. \A i \in Instances : shelves[i] \in Shelvings[i]
    BY DEF LibrariesInit
  <2>2. shelves \in [Instances -> UNION Range(Shelvings)]
    BY DEF LibrariesInit
  <2>3. <<>> \in Seq(Listed)
    OBVIOUS
  <2> QED
    BY <2>1, <2>2, <2>3 DEF LibrariesInit, LibrariesTypeOK
<1>8. ImportsFit
  BY DEF LibrariesInit, ImportsFit
<1> QED
  BY <1>6, <1>7, <1>8 DEF LibrariesInv

\* A service arranges its shelves anew; no table knows.
LEMMA RearrangeKeeps ==
  ASSUME LibrariesInv, NEW i \in Instances, NEW cards \in Shelvings[i], Rearrange(i, cards)
  PROVE  LibrariesInv'
<1>1. /\ shelves' = [shelves EXCEPT ![i] = cards]
      /\ UNCHANGED <<tables, phase, listing, bindings, unswept>>
  BY DEF Rearrange, importers
<1>2. cards \in UNION Range(Shelvings)
  BY LibrariesAssumption DEF Range
<1>3. LibrariesTypeOK'
  <2>1. shelves' \in [Instances -> UNION Range(Shelvings)]
    BY <1>1, <1>2 DEF LibrariesInv, LibrariesTypeOK
  <2>2. \A j \in Instances : shelves'[j] \in Shelvings[j]
    BY <1>1 DEF LibrariesInv, LibrariesTypeOK
  <2> QED
    BY <1>1, <2>1, <2>2 DEF LibrariesInv, LibrariesTypeOK
<1>4. Sound(tables') /\ Siblings(tables') /\ StampOK(tables', unswept')
  BY <1>1 DEF LibrariesInv
<1>5. ImportsFit'
  BY <1>1 DEF LibrariesInv, ImportsFit
<1> QED
  BY <1>3, <1>4, <1>5 DEF LibrariesInv

\* An import lists the shelves of its service.
LEMMA StartKeeps ==
  ASSUME LibrariesInv, NEW i \in Instances, Start(i)
  PROVE  LibrariesInv'
<1>1. PICK cs \in Listings(i) : listing' = [listing EXCEPT ![i] = cs]
  BY DEF Start
<1>2. /\ phase' = [phase EXCEPT ![i] = "listed"]
      /\ UNCHANGED <<tables, shelves, bindings, unswept>>
  BY DEF Start
<1>3. cs \in Seq(Listed)
  <2> DEFINE held == DOMAIN shelves[i]
             entries == {[ref |-> r, name |-> shelves[i][r].name,
                          kind |-> IF i \in Guessing THEN Fallback ELSE shelves[i][r].kind] :
                           r \in held}
  <2>1. shelves[i] \in Shelvings[i]
    BY DEF LibrariesInv, LibrariesTypeOK
  <2>2. /\ held \subseteq Refs /\ IsFiniteSet(held)
        /\ \A r \in held : shelves[i][r] \in [name : Names, kind : Kinds \cup {Declined}]
        /\ Fallback \in Kinds
    BY <2>1, LibrariesAssumption
  <2>3. cs \in [1 .. Cardinality(held) -> entries]
    BY <1>1 DEF Listings
  <2>4. entries \subseteq Listed
    BY <2>2 DEF Listed
  <2>5. Cardinality(held) \in Nat
    BY <2>2, FS_CardinalityType
  <2> HIDE DEF entries, held
  <2>6. cs \in Seq(entries)
    BY <2>3, <2>5, SeqDef
  <2>7. cs \in [1 .. Cardinality(held) -> Listed]
    BY <2>3, <2>4
  <2> QED
    BY <2>5, <2>7, SeqDef
<1>4. LibrariesTypeOK'
  BY <1>1, <1>2, <1>3 DEF LibrariesInv, LibrariesTypeOK
<1>5. Sound(tables') /\ Siblings(tables') /\ StampOK(tables', unswept')
  BY <1>2 DEF LibrariesInv
<1>6. ImportsFit'
  BY <1>2 DEF LibrariesInv, LibrariesTypeOK, ImportsFit
<1> QED
  BY <1>4, <1>5, <1>6 DEF LibrariesInv

\* An import binds what it listed to libraries.
LEMMA BindKeeps ==
  ASSUME LibrariesInv, NEW i \in Instances, Bind(i)
  PROVE  LibrariesInv'
<1>1. PICK b \in BindAll(tables, i, listing[i]) :
        tables' = b.tables /\ bindings' = [bindings EXCEPT ![i] = b.bindings]
  BY DEF Bind
<1>2. /\ phase' = [phase EXCEPT ![i] = "bound"] /\ unswept' = unswept \cup {i}
      /\ UNCHANGED <<shelves, listing>>
  BY DEF Bind
<1>3. Sound(tables) /\ Siblings(tables) /\ LibrariesTypeOK /\ ImportsFit
  BY DEF LibrariesInv
<1>4. listing[i] \in Seq(Listed)
  BY <1>3 DEF LibrariesTypeOK
<1>5. Done(tables, i, b)
  BY <1>1, <1>3, <1>4, BindAllDone
<1> DEFINE u == b.tables
<1>6. Sound(u) /\ Siblings(u) /\ Grown(tables, u, i) /\ BindingsOK(u, i, b.bindings)
  BY <1>5 DEF Done
<1> HIDE DEF u
<1>7. /\ \A j \in Instances : phase[j] = "bound" => BindingsOK(u, j, bindings[j])
      /\ StampOK(u, unswept \cup {i})
  BY <1>6, TransactionKeeps
<1>8. tables' = u
  BY <1>1 DEF u
<1>9. LibrariesTypeOK'
  BY <1>1, <1>2, <1>3 DEF LibrariesTypeOK
<1>10. ImportsFit'
  <2>1. ASSUME NEW j \in Instances, phase'[j] = "bound"
        PROVE  j \in unswept' /\ BindingsOK(u, j, bindings'[j])
    <3>1. CASE j = i
      BY <1>1, <1>2, <1>3, <1>6, <3>1 DEF LibrariesTypeOK
    <3>2. CASE j # i
      <4>1. phase[j] = "bound" /\ bindings'[j] = bindings[j]
        BY <1>1, <1>2, <1>3, <2>1, <3>2 DEF LibrariesTypeOK
      <4> QED
        BY <1>2, <1>3, <1>7, <4>1 DEF ImportsFit
    <3> QED
      BY <3>1, <3>2
  <2> QED
    BY <1>8, <2>1 DEF ImportsFit
<1> QED
  BY <1>2, <1>6, <1>7, <1>8, <1>9, <1>10 DEF LibrariesInv

\* An import files a work in the library of its container.
LEMMA FileKeeps ==
  ASSUME LibrariesInv, NEW i \in Instances, NEW r \in Refs, NEW w \in Works, File(i, r, w)
  PROVE  LibrariesInv'
<1> DEFINE b == bindings[i][r]
           kind == IF i \in Guessing THEN EvidenceKind[w] ELSE b.kind
           u == tables'
<1>1. /\ phase[i] = "bound" /\ b # NoBinding
      /\ u \in FileItem(tables, i, r, b, w, kind)
      /\ UNCHANGED <<shelves, phase, listing, bindings, unswept>>
  BY DEF File, importers
<1>2. Sound(tables) /\ Siblings(tables) /\ LibrariesTypeOK /\ ImportsFit
  BY DEF LibrariesInv
<1>3. i \in unswept /\ BindingOK(tables, i, r, b)
  BY <1>1, <1>2 DEF ImportsFit, BindingsOK
<1>4. kind \in Kinds /\ (i \notin Guessing => kind = b.kind)
  <2>1. CASE i \in Guessing
    BY <2>1, LibrariesAssumption
  <2>2. CASE i \notin Guessing
    <3>1. tables.libs[b.lib] \in Row
      BY <1>2, <1>3 DEF BindingOK, Sound, TablesOK, Libs
    <3> QED
      BY <1>3, <2>2, <3>1 DEF BindingOK, Row
  <2> QED
    BY <2>1, <2>2
<1> HIDE DEF b, kind, u
<1>5. PICK v : /\ Grown(tables, v, i) /\ Sound(v)
               /\ Sound(u) /\ Siblings(u)
               /\ u.libs = v.libs /\ u.sources = v.sources /\ u.deleted = v.deleted
  BY <1>1, <1>2, <1>3, <1>4, FileItemSound
<1>6. /\ \A j \in Instances : phase[j] = "bound" => BindingsOK(u, j, bindings[j])
      /\ StampOK(u, unswept \cup {i})
  BY <1>5, TransactionKeeps
<1>7. unswept \cup {i} = unswept
  BY <1>3
<1>8. LibrariesTypeOK'
  BY <1>1, <1>2 DEF LibrariesTypeOK
<1>9. ImportsFit'
  BY <1>1, <1>2, <1>6 DEF ImportsFit, u
<1>10. Sound(tables') /\ Siblings(tables') /\ StampOK(tables', unswept')
  BY <1>1, <1>5, <1>6, <1>7 DEF u
<1> QED
  BY <1>8, <1>9, <1>10 DEF LibrariesInv

\* What a settling leaves of the imports and the stamps.
LEMMA SettlingKeeps ==
  ASSUME LibrariesInv, NEW i \in Instances, NEW u, TablesOK(u), Settled(tables, u, i)
  PROVE  /\ Sound(u) /\ Siblings(u) /\ StampOK(u, unswept \ {i})
         /\ \A j \in Instances : phase[j] = "bound" => BindingsOK(u, j, bindings[j])
<1>1. Sound(tables) /\ Siblings(tables) /\ StampOK(tables, unswept) /\ ImportsFit
  BY DEF LibrariesInv
<1>2. Sound(u) /\ Siblings(u)
  BY <1>1, SettledSound
<1>3. StampOK(u, unswept \ {i})
  BY <1>1, SettledStamps
<1>4. /\ Libs(tables) \subseteq Libs(u) /\ DOMAIN tables.sources \subseteq DOMAIN u.sources
      /\ \A l \in Libs(tables) : u.libs[l].kind = tables.libs[l].kind
  BY DEF Settled
<1>5. \A j \in Instances : phase[j] = "bound" => BindingsOK(u, j, bindings[j])
  BY <1>1, <1>4, BindingsMove DEF ImportsFit
<1> QED
  BY <1>2, <1>3, <1>5

\* An import sweeps the containers that were not listed.
LEMMA SweepKeeps ==
  ASSUME LibrariesInv, NEW i \in Instances, Sweep(i)
  PROVE  LibrariesInv'
<1> DEFINE reported == {listing[i][n].ref : n \in DOMAIN listing[i]}
           u == SweepContainers(tables, i, reported)
<1>1. /\ tables' = u /\ unswept' = unswept \ {i}
      /\ phase' = [phase EXCEPT ![i] = "idle"]
      /\ listing' = [listing EXCEPT ![i] = <<>>]
      /\ bindings' = [bindings EXCEPT ![i] = NoBinding]
      /\ shelves' = shelves
  BY DEF Sweep, Stop
<1>2. Sound(tables) /\ LibrariesTypeOK /\ ImportsFit
  BY DEF LibrariesInv
<1> HIDE DEF reported
<1>3. TablesOK(u) /\ Settled(tables, u, i)
  BY <1>2, SweepSettles
<1> HIDE DEF u
<1>4. /\ Sound(u) /\ Siblings(u) /\ StampOK(u, unswept \ {i})
      /\ \A j \in Instances : phase[j] = "bound" => BindingsOK(u, j, bindings[j])
  BY <1>3, SettlingKeeps
<1>5. LibrariesTypeOK'
  <2>1. <<>> \in Seq(Listed)
    OBVIOUS
  <2> QED
    BY <1>1, <1>2, <2>1 DEF LibrariesTypeOK
<1>6. ImportsFit'
  <2>1. ASSUME NEW j \in Instances, phase'[j] = "bound"
        PROVE  j \in unswept' /\ BindingsOK(u, j, bindings'[j])
    <3>1. j # i /\ phase[j] = "bound" /\ bindings'[j] = bindings[j]
      BY <1>1, <1>2, <2>1 DEF LibrariesTypeOK
    <3> QED
      BY <1>1, <1>2, <1>4, <3>1 DEF ImportsFit
  <2> QED
    BY <1>1, <2>1 DEF ImportsFit
<1> QED
  BY <1>1, <1>4, <1>5, <1>6 DEF LibrariesInv

\* An import ends without its sweep.
LEMMA EndUnsweptKeeps ==
  ASSUME LibrariesInv, NEW i \in Instances, EndUnswept(i)
  PROVE  LibrariesInv'
<1>1. /\ phase' = [phase EXCEPT ![i] = "idle"]
      /\ listing' = [listing EXCEPT ![i] = <<>>]
      /\ bindings' = [bindings EXCEPT ![i] = NoBinding]
      /\ UNCHANGED <<tables, shelves, unswept>>
  BY DEF EndUnswept, Stop
<1>2. Sound(tables) /\ LibrariesTypeOK /\ ImportsFit
  BY DEF LibrariesInv
<1>3. LibrariesTypeOK'
  <2>1. <<>> \in Seq(Listed)
    OBVIOUS
  <2> QED
    BY <1>1, <1>2, <2>1 DEF LibrariesTypeOK
<1>4. ImportsFit'
  <2>1. ASSUME NEW j \in Instances, phase'[j] = "bound"
        PROVE  j \in unswept /\ BindingsOK(tables, j, bindings'[j])
    <3>1. j # i /\ phase[j] = "bound" /\ bindings'[j] = bindings[j]
      BY <1>1, <1>2, <2>1 DEF LibrariesTypeOK
    <3> QED
      BY <1>2, <3>1 DEF ImportsFit
  <2> QED
    BY <1>1, <2>1 DEF ImportsFit
<1>5. Sound(tables') /\ Siblings(tables') /\ StampOK(tables', unswept')
  BY <1>1 DEF LibrariesInv
<1> QED
  BY <1>3, <1>4, <1>5 DEF LibrariesInv

\* A service is deleted, and the libraries left without a source are orphans from then on.
LEMMA DeleteInstanceKeeps ==
  ASSUME LibrariesInv, NEW i \in Instances, DeleteInstance(i)
  PROVE  LibrariesInv'
<1> DEFINE u == SoftDelete(tables, i)
<1>1. tables' = u /\ UNCHANGED <<shelves, phase, listing, bindings, unswept>>
  BY DEF DeleteInstance, importers
<1>2. Sound(tables) /\ LibrariesTypeOK /\ ImportsFit
  BY DEF LibrariesInv
<1>3. TablesOK(u) /\ Settled(tables, u, i)
  BY <1>2, DeletionSettles
<1> HIDE DEF u
<1>4. /\ Sound(u) /\ Siblings(u) /\ StampOK(u, unswept \ {i})
      /\ \A j \in Instances : phase[j] = "bound" => BindingsOK(u, j, bindings[j])
  BY <1>3, SettlingKeeps
<1>5. StampOK(u, unswept)
  BY <1>4, StampsWeaken
<1>6. LibrariesTypeOK' /\ ImportsFit'
  BY <1>1, <1>2, <1>4 DEF LibrariesTypeOK, ImportsFit
<1> QED
  BY <1>1, <1>4, <1>5, <1>6 DEF LibrariesInv

\* Every step keeps what holds of the libraries.
LEMMA LibrariesStep ==
  ASSUME LibrariesInv, [LibrariesNext]_libraryVars
  PROVE  LibrariesInv'
<1>1. CASE LibrariesNext
  <2>1. PICK i \in Instances :
          \/ \E cards \in Shelvings[i] : Rearrange(i, cards)
          \/ Start(i)
          \/ Bind(i)
          \/ \E r \in Refs, w \in Works : File(i, r, w)
          \/ Sweep(i)
          \/ EndUnswept(i)
          \/ DeleteInstance(i)
    BY <1>1 DEF LibrariesNext
  <2>2. CASE \E cards \in Shelvings[i] : Rearrange(i, cards)
    BY <2>2, RearrangeKeeps
  <2>3. CASE Start(i)
    BY <2>3, StartKeeps
  <2>4. CASE Bind(i)
    BY <2>4, BindKeeps
  <2>5. CASE \E r \in Refs, w \in Works : File(i, r, w)
    BY <2>5, FileKeeps
  <2>6. CASE Sweep(i)
    BY <2>6, SweepKeeps
  <2>7. CASE EndUnswept(i)
    BY <2>7, EndUnsweptKeeps
  <2>8. CASE DeleteInstance(i)
    BY <2>8, DeleteInstanceKeeps
  <2> QED
    BY <2>1, <2>2, <2>3, <2>4, <2>5, <2>6, <2>7, <2>8
<1>2. CASE UNCHANGED libraryVars
  <2>1. UNCHANGED <<tables, shelves, phase, listing, bindings, unswept>>
    BY <1>2 DEF libraryVars, importers
  <2>2. LibrariesTypeOK' /\ ImportsFit'
    BY <2>1 DEF LibrariesInv, LibrariesTypeOK, ImportsFit
  <2>3. Sound(tables') /\ Siblings(tables') /\ StampOK(tables', unswept')
    BY <2>1 DEF LibrariesInv
  <2> QED
    BY <2>2, <2>3 DEF LibrariesInv
<1> QED
  BY <1>1, <1>2

\* Binds, filings, sweeps and deletions, however they interleave, keep the tables sound
\* and every import's bindings fitting them.
THEOREM LibrariesCorrect == LibrariesSpec => []LibrariesInv
<1>1. LibrariesInit => LibrariesInv
  BY InitLibraries
<1>2. LibrariesInv /\ [LibrariesNext]_libraryVars => LibrariesInv'
  BY LibrariesStep
<1> QED
  BY <1>1, <1>2, PTL DEF LibrariesSpec

\* No two libraries share a name or a slug, for any names and slugs: a bind is never
\* refused by the unique indexes, whatever it joins, qualifies, numbers or hands back.
THEOREM NamesDistinctCorrect == LibrariesSpec => []NamesDistinct
<1>1. LibrariesInv => NamesDistinct
  BY DEF LibrariesInv, Sound, Distinct, NamesDistinct
<1> QED
  BY <1>1, LibrariesCorrect, PTL

\* A container feeds at most one library of a kind, so the lookup that begins
\* bindOneContainer has one answer.
THEOREM OneLibraryPerKindCorrect == LibrariesSpec => []OneLibraryPerKind
<1>1. LibrariesInv => OneLibraryPerKind
  BY DEF LibrariesInv, Sound, OnePerKind, OneLibraryPerKind
<1> QED
  BY <1>1, LibrariesCorrect, PTL

\* Every item was filed at the kind its library has now: a retype relabels nothing and
\* a binding made before it is asked again.
THEOREM FiledByKindCorrect == LibrariesSpec => []FiledByKind
<1>1. LibrariesInv => FiledByKind
  BY DEF LibrariesInv, Sound, ByKind, FiledByKind
<1> QED
  BY <1>1, LibrariesCorrect, PTL

\* No guess leaves an empty library beside the one its container's items are in.
THEOREM SiblingsEarnedCorrect == LibrariesSpec => []SiblingsEarned
<1>1. LibrariesInv => SiblingsEarned
  BY DEF LibrariesInv, Siblings, Earned, SiblingsEarned
<1> QED
  BY <1>1, LibrariesCorrect, PTL

\* The orphan stamp is right outside the time between an import's bind and its sweep,
\* though two transactions of two instances set it.
THEOREM OrphanStampCurrentCorrect == LibrariesSpec => []OrphanStampCurrent
<1>1. LibrariesInv => OrphanStampCurrent
  BY DEF LibrariesInv, StampOK, OrphanStampCurrent, FedOnlyBy, StampRight
<1> QED
  BY <1>1, LibrariesCorrect, PTL

=============================================================================
