--------------------------- MODULE SelectingProofs ---------------------------
(***************************************************************************)
(* What loops leave and what orders give.  A loop that passes over some     *)
(* entries of a sequence leaves exactly the others, in their order.  A      *)
(* strict total order of a finite set gives every place to one member, so   *)
(* sorting the set lists each member once.  A fold over a finite set adds   *)
(* its members up one by one, in any order, so a sum over two disjoint      *)
(* parts is the sum of the sums, and a greatest member exists.              *)
(***************************************************************************)
EXTENDS Selecting, SequencesExt, SequenceTheorems, FiniteSetTheorems, WellFoundedInduction, TLAPS

\* One more entry of a sequence, chosen or passed over.
Extended(s, S, f, k) == IF s[k] \in S THEN Append(f[k - 1], s[k]) ELSE f[k - 1]

\* What is chosen of the first n entries, for n up to k, as a function.
ChoiceFunction(s, S, k, f) ==
  f = [n \in 0 .. k |-> IF n = 0 THEN <<>> ELSE Extended(s, S, f, n)]

\* A set of natural numbers has a least one.
LEMMA LeastOne ==
  ASSUME NEW S \in SUBSET Nat, S # {}
  PROVE  \E n \in S : \A m \in S : n =< m
<1> DEFINE less == {p \in Nat \X Nat : p[1] < p[2]}
<1>1. less = OpToRel(<, Nat)
  BY DEF OpToRel
<1>2. IsWellFoundedOn(less, Nat)
  BY <1>1, NatLessThanWellFounded
<1> HIDE DEF less
<1>3. PICK n \in S : \A m \in S : <<m, n>> \notin less
  BY <1>2, WFMin
<1>4. ASSUME NEW m \in S
      PROVE  n =< m
  <2>1. <<m, n>> \in Nat \X Nat /\ ~ (<<m, n>>[1] < <<m, n>>[2])
    BY <1>3 DEF less
  <2> QED
    BY <2>1
<1> QED
  BY <1>4

\* The function is there for every k: it is extended by one entry at a time.
LEMMA ChoiceFunctionExists ==
  ASSUME NEW s, NEW S, NEW k \in Nat
  PROVE  \E f : ChoiceFunction(s, S, k, f)
<1> DEFINE without == {n \in Nat : ~ \E f : ChoiceFunction(s, S, n, f)}
<1>1. SUFFICES ASSUME without # {} PROVE FALSE
  OBVIOUS
<1>2. PICK n \in without : \A m \in without : n =< m
  BY <1>1, LeastOne
<1>3. n # 0
  <2> DEFINE f == [m \in 0 .. 0 |-> IF m = 0 THEN <<>> ELSE Extended(s, S, m, m)]
  <2>1. f = [m \in 0 .. 0 |-> IF m = 0 THEN <<>> ELSE Extended(s, S, f, m)]
    OBVIOUS
  <2>2. ChoiceFunction(s, S, 0, f)
    BY <2>1 DEF ChoiceFunction
  <2> QED
    BY <1>2, <2>2
<1>4. n \in Nat /\ n - 1 \in Nat /\ n - 1 \notin without
  BY <1>2, <1>3
<1>5. PICK f : ChoiceFunction(s, S, n - 1, f)
  BY <1>4
<1> DEFINE g == [m \in 0 .. n |-> IF m = n THEN Extended(s, S, f, n) ELSE f[m]]
<1>6. \A m \in 0 .. n - 1 : m \in 0 .. n /\ m # n /\ g[m] = f[m]
  BY <1>4
<1>7. \A m \in 0 .. n - 1 : f[m] = IF m = 0 THEN <<>> ELSE Extended(s, S, f, m)
  BY <1>5 DEF ChoiceFunction
<1>8. g[n] = Extended(s, S, f, n) /\ DOMAIN g = 0 .. n /\ g = [m \in 0 .. n |-> g[m]]
  BY <1>4
<1> HIDE DEF g
<1>9. ASSUME NEW m \in 0 .. n
      PROVE  g[m] = IF m = 0 THEN <<>> ELSE Extended(s, S, g, m)
  <2>1. CASE m = 0
    <3>1. 0 \in 0 .. n - 1
      BY <1>3, <1>4
    <3> QED
      BY <1>6, <1>7, <2>1, <3>1
  <2>2. CASE m # 0
    <3>1. m - 1 \in 0 .. n - 1
      BY <1>4, <2>2
    <3>2. Extended(s, S, g, m) = Extended(s, S, f, m)
      BY <1>6, <3>1 DEF Extended
    <3>3. m = n \/ m \in 0 .. n - 1
      BY <1>4
    <3>4. g[m] = Extended(s, S, f, m)
      BY <1>6, <1>7, <1>8, <2>2, <3>3
    <3> QED
      BY <2>2, <3>2, <3>4
  <2> QED
    BY <2>1, <2>2
<1>10. ChoiceFunction(s, S, n, g)
  BY <1>8, <1>9 DEF ChoiceFunction
<1> QED
  BY <1>2, <1>10

\* The entries of q are those of the first k of s that are in S.
Chosen(s, S, k, q) ==
  \A x : (\E m \in DOMAIN q : q[m] = x) <=> x \in S /\ \E m \in 1 .. k : s[m] = x

\* Any two entries of q are among the first k of s, in the same order.
InOrder(s, k, q) ==
  \A j, l \in DOMAIN q : j < l => \E a, b \in 1 .. k : a < b /\ q[j] = s[a] /\ q[l] = s[b]

\* Selecting drops what is not in the set, and nothing else, and keeps the order.
LEMMA SelectedEntries ==
  ASSUME NEW T, NEW s \in Seq(T), NEW S
  PROVE  /\ Selected(s, S) \in Seq(T)
         /\ Chosen(s, S, Len(s), Selected(s, S))
         /\ InOrder(s, Len(s), Selected(s, S))
<1> DEFINE chosen == CHOOSE f : ChoiceFunction(s, S, Len(s), f)
<1>1. Len(s) \in Nat
  OBVIOUS
<1>2. ChoiceFunction(s, S, Len(s), chosen)
  <2>1. \E f : ChoiceFunction(s, S, Len(s), f)
    BY <1>1, ChoiceFunctionExists
  <2> QED
    BY <2>1
<1>3. Selected(s, S) = chosen[Len(s)]
  BY DEF Selected, ChoiceFunction, Extended
<1> HIDE DEF chosen
<1>4. \A n \in 0 .. Len(s) : chosen[n] = IF n = 0 THEN <<>> ELSE Extended(s, S, chosen, n)
  BY <1>2 DEF ChoiceFunction
<1> DEFINE good(n) == chosen[n] \in Seq(T) /\ Chosen(s, S, n, chosen[n]) /\ InOrder(s, n, chosen[n])
           off == {n \in 0 .. Len(s) : ~ good(n)}
<1>5. ASSUME off # {} PROVE FALSE
  <2>1. off \in SUBSET Nat
    BY <1>1
  <2> HIDE DEF good
  <2>2. PICK n \in off : \A m \in off : n =< m
    BY <1>5, <2>1, LeastOne
  <2>3. n \in 0 .. Len(s) /\ ~ good(n)
    OBVIOUS
  <2>4. n # 0
    <3>1. CASE n = 0
      <4>1. chosen[0] = <<>>
        BY <1>4, <2>3, <3>1
      <4>2. chosen[0] \in Seq(T)
        BY <4>1
      <4>3. Chosen(s, S, 0, chosen[0])
        BY <4>1 DEF Chosen
      <4>4. InOrder(s, 0, chosen[0])
        BY <4>1 DEF InOrder
      <4> QED
        BY <2>3, <3>1, <4>2, <4>3, <4>4 DEF good
    <3> QED
      BY <3>1
  <2>5. n \in 1 .. Len(s) /\ n - 1 \in 0 .. Len(s) /\ n - 1 \notin off
    BY <1>1, <2>2, <2>3, <2>4
  <2>6. good(n - 1)
    BY <2>5
  <2> DEFINE q == chosen[n - 1]
  <2>7. q \in Seq(T) /\ Chosen(s, S, n - 1, q) /\ InOrder(s, n - 1, q)
    BY <2>6 DEF good
  <2>8. chosen[n] = IF s[n] \in S THEN Append(q, s[n]) ELSE q
    BY <1>4, <2>3, <2>4 DEF Extended
  <2>9. s[n] \in T
    BY <2>5
  <2> HIDE DEF q
  <2>10. \A x : (\E m \in 1 .. n : s[m] = x) <=> (s[n] = x \/ \E m \in 1 .. n - 1 : s[m] = x)
    BY <1>1, <2>5
  <2>11. CASE s[n] \notin S
    <3>1. Chosen(s, S, n, q)
      BY <2>7, <2>10, <2>11 DEF Chosen
    <3>2. InOrder(s, n, q)
      BY <1>1, <2>5, <2>7 DEF InOrder
    <3> QED
      BY <2>3, <2>7, <2>8, <2>11, <3>1, <3>2 DEF good
  <2>12. CASE s[n] \in S
    <3> DEFINE p == Append(q, s[n])
    <3>1. /\ p \in Seq(T) /\ DOMAIN p = 1 .. Len(q) + 1 /\ DOMAIN q = 1 .. Len(q)
          /\ Len(q) \in Nat
          /\ p[Len(q) + 1] = s[n] /\ \A m \in 1 .. Len(q) : p[m] = q[m]
      BY <2>7, <2>9
    <3> HIDE DEF p
    <3>2. ASSUME NEW x
          PROVE  (\E m \in DOMAIN p : p[m] = x) <=> (s[n] = x \/ \E m \in DOMAIN q : q[m] = x)
      <4>1. \A m \in DOMAIN p : m = Len(q) + 1 \/ m \in DOMAIN q
        BY <3>1
      <4>2. Len(q) + 1 \in DOMAIN p /\ DOMAIN q \subseteq DOMAIN p
        BY <3>1
      <4>3. \A m \in DOMAIN q : p[m] = q[m]
        BY <3>1
      <4> QED
        BY <3>1, <4>1, <4>2, <4>3
    <3>3. Chosen(s, S, n, p)
      BY <2>7, <2>10, <2>12, <3>2 DEF Chosen
    <3>4. ASSUME NEW j \in DOMAIN p, NEW l \in DOMAIN p, j < l
          PROVE  \E a, b \in 1 .. n : a < b /\ p[j] = s[a] /\ p[l] = s[b]
      <4>1. j \in DOMAIN q /\ p[j] = q[j]
        BY <3>1, <3>4
      <4>2. CASE l \in DOMAIN q
        <5>1. p[l] = q[l]
          BY <3>1, <4>2
        <5>2. PICK a \in 1 .. n - 1, b \in 1 .. n - 1 : a < b /\ q[j] = s[a] /\ q[l] = s[b]
          BY <2>7, <3>4, <4>1, <4>2 DEF InOrder
        <5>3. a \in 1 .. n /\ b \in 1 .. n
          BY <2>5
        <5> QED
          BY <4>1, <5>1, <5>2, <5>3
      <4>3. CASE l \notin DOMAIN q
        <5>1. l = Len(q) + 1 /\ p[l] = s[n]
          BY <3>1, <4>3
        <5>2. PICK a \in 1 .. n - 1 : s[a] = q[j]
          BY <2>7, <4>1 DEF Chosen
        <5>3. a \in 1 .. n /\ n \in 1 .. n /\ a < n
          BY <2>5
        <5> QED
          BY <4>1, <5>1, <5>2, <5>3
      <4> QED
        BY <4>2, <4>3
    <3>5. InOrder(s, n, p)
      BY <3>4 DEF InOrder
    <3> QED
      BY <2>3, <2>8, <2>12, <3>1, <3>3, <3>5 DEF good, p
  <2> QED
    BY <2>11, <2>12
<1>6. Len(s) \in 0 .. Len(s) /\ Len(s) \notin off
  BY <1>1, <1>5
<1> QED
  BY <1>3, <1>6
------------------------------------------------------------------------------
\* What comes before a member of S.
Orders(S, before) ==
  /\ before \in [S -> SUBSET S]
  /\ \A x \in S : x \notin before[x]
  /\ \A x, y \in S : x # y => x \in before[y] \/ y \in before[x]
  /\ \A x, y, z \in S : x \in before[y] /\ y \in before[z] => x \in before[z]

\* In a strict total order the members before a member count its place, and every place is
\* taken.
LEMMA Ranks ==
  ASSUME NEW S, IsFiniteSet(S), NEW before, Orders(S, before)
  PROVE  /\ Cardinality(S) \in Nat
         /\ \A x \in S : Cardinality(before[x]) \in 0 .. Cardinality(S) - 1
         /\ \A x, y \in S : x \in before[y] <=> Cardinality(before[x]) < Cardinality(before[y])
         /\ \A n \in 1 .. Cardinality(S) : \E x \in S : Cardinality(before[x]) = n - 1
<1>1. Cardinality(S) \in Nat
  BY FS_CardinalityType
<1>2. \A x \in S : before[x] \in SUBSET S /\ IsFiniteSet(before[x]) /\ Cardinality(before[x]) \in Nat
  BY FS_Subset, FS_CardinalityType DEF Orders
<1>3. ASSUME NEW x \in S  PROVE Cardinality(before[x]) \in 0 .. Cardinality(S) - 1
  <2>1. before[x] # S
    BY DEF Orders
  <2>2. Cardinality(before[x]) <= Cardinality(S) /\ Cardinality(before[x]) # Cardinality(S)
    BY <1>2, <2>1, FS_Subset
  <2> QED
    BY <1>1, <1>2, <2>2
<1>4. ASSUME NEW x \in S, NEW y \in S, x \in before[y]
      PROVE  Cardinality(before[x]) < Cardinality(before[y])
  <2>1. before[x] \in SUBSET before[y]
    BY <1>2, <1>4 DEF Orders
  <2>2. before[x] # before[y]
    BY <1>4 DEF Orders
  <2>3. /\ Cardinality(before[x]) <= Cardinality(before[y])
        /\ Cardinality(before[x]) # Cardinality(before[y])
    BY <1>2, <2>1, <2>2, FS_Subset
  <2> QED
    BY <1>2, <2>3
<1>5. ASSUME NEW x \in S, NEW y \in S, Cardinality(before[x]) < Cardinality(before[y])
      PROVE  x \in before[y]
  <2>1. x # y /\ y \notin before[x]
    BY <1>2, <1>4, <1>5
  <2> QED
    BY <2>1 DEF Orders
<1>6. ASSUME NEW n \in 1 .. Cardinality(S)  PROVE \E x \in S : Cardinality(before[x]) = n - 1
  <2> DEFINE places == 0 .. Cardinality(S) - 1
             f == [x \in S |-> Cardinality(before[x])]
  <2>1. IsFiniteSet(places) /\ Cardinality(places) = Cardinality(S)
    <3>1. /\ 0 \in Int /\ Cardinality(S) - 1 \in Int /\ ~ (0 > Cardinality(S) - 1)
          /\ (Cardinality(S) - 1) - 0 + 1 = Cardinality(S)
      BY <1>1
    <3> QED
      BY <3>1, FS_Interval
  <2>2. f \in [S -> places]
    BY <1>3
  <2>3. \A x, y \in S : f[x] = f[y] => x = y
    <3> SUFFICES ASSUME NEW x \in S, NEW y \in S, x # y  PROVE f[x] # f[y]
      OBVIOUS
    <3>1. f[x] < f[y] \/ f[y] < f[x]
      BY <1>4 DEF Orders
    <3> QED
      BY <1>2, <3>1
  <2>4. f \in Injection(S, places)
    BY <2>2, <2>3 DEF Injection, IsInjective
  <2>5. f \in Surjection(S, places)
    BY <2>1, <2>4, FS_Injection
  <2>6. n - 1 \in places
    BY <1>1
  <2> QED
    BY <2>5, <2>6 DEF Surjection
<1> QED
  BY <1>1, <1>3, <1>4, <1>5, <1>6

\* Every entry of q is at its place.
Placed(q, S, before) ==
  /\ q \in [1 .. Cardinality(S) -> S]
  /\ \A n \in 1 .. Cardinality(S) : Cardinality(before[q[n]]) = n - 1

\* q is the members of S in the order, each once.
IsListOf(q, S, before) ==
  /\ q \in Seq(S) /\ Len(q) = Cardinality(S) /\ DOMAIN q = 1 .. Cardinality(S)
  /\ Cardinality(S) \in Nat
  /\ \A m, n \in DOMAIN q : m < n <=> q[m] \in before[q[n]]
  /\ \A x \in S : \E n \in DOMAIN q : q[n] = x

\* A sequence with every member at its place is the set in that order.
LEMMA Listed ==
  ASSUME NEW S, NEW before, NEW q, IsFiniteSet(S), Orders(S, before), Placed(q, S, before)
  PROVE  IsListOf(q, S, before)
<1>0. q \in [1 .. Cardinality(S) -> S]
  BY DEF Placed
<1>1. Cardinality(S) \in Nat
  BY Ranks
<1>2. q \in Seq(S) /\ Len(q) = Cardinality(S) /\ DOMAIN q = 1 .. Cardinality(S)
  BY <1>0, <1>1, IsASeq, LenProperties
<1>3. ASSUME NEW m \in 1 .. Cardinality(S), NEW n \in 1 .. Cardinality(S)
      PROVE  m < n <=> q[m] \in before[q[n]]
  <2>1. /\ q[m] \in S /\ q[n] \in S
        /\ Cardinality(before[q[m]]) = m - 1 /\ Cardinality(before[q[n]]) = n - 1
    BY <1>0 DEF Placed
  <2>2. q[m] \in before[q[n]] <=> m - 1 < n - 1
    BY <2>1, Ranks
  <2> QED
    BY <1>1, <2>2
<1>4. ASSUME NEW x \in S  PROVE \E n \in 1 .. Cardinality(S) : q[n] = x
  <2> DEFINE n == Cardinality(before[x]) + 1
  <2>1. Cardinality(before[x]) \in 0 .. Cardinality(S) - 1
    BY Ranks
  <2>2. n \in 1 .. Cardinality(S) /\ n - 1 = Cardinality(before[x])
    BY <1>1, <2>1
  <2> HIDE DEF n
  <2>3. q[n] \in S /\ Cardinality(before[q[n]]) = Cardinality(before[x])
    BY <1>0, <2>2 DEF Placed
  <2>4. q[n] \notin before[x] /\ x \notin before[q[n]]
    BY <1>1, <2>1, <2>3, Ranks
  <2>5. q[n] = x
    BY <2>3, <2>4 DEF Orders
  <2> QED
    BY <2>2, <2>5
<1> QED
  BY <1>1, <1>2, <1>3, <1>4 DEF IsListOf
------------------------------------------------------------------------------
(* What is folded, and what is summed.                                       *)

\* What holds of a part of a finite set whenever it holds of the part without any one member
\* holds of every part.
LEMMA PartByPart ==
  ASSUME NEW S, IsFiniteSet(S), NEW G,
         \A s \in SUBSET S : (\A x \in s : s \ {x} \in G) => s \in G
  PROVE  \A s \in SUBSET S : s \in G
<1> DEFINE off == {n \in Nat : \E s \in SUBSET S : s \notin G /\ Cardinality(s) = n}
<1>1. \A s \in SUBSET S : IsFiniteSet(s) /\ Cardinality(s) \in Nat
  BY FS_Subset, FS_CardinalityType
<1>2. SUFFICES ASSUME off # {}  PROVE FALSE
  BY <1>1
<1>3. PICK n \in off : \A m \in off : n =< m
  BY <1>2, LeastOne
<1>4. PICK s \in SUBSET S : s \notin G /\ Cardinality(s) = n
  BY <1>3
<1>5. PICK x \in s : s \ {x} \notin G
  BY <1>4
<1>6. s \ {x} \in SUBSET S /\ Cardinality(s \ {x}) = n - 1
  BY <1>1, <1>4, <1>5, FS_RemoveElement
<1>7. n \in Nat /\ n - 1 \in Nat
  BY <1>1, <1>3, <1>6
<1>8. n - 1 \in off
  BY <1>5, <1>6, <1>7
<1> QED
  BY <1>3, <1>7, <1>8

\* A function on the parts of S folds it: from base, by a step for a picked member and what
\* the part without it gave.
IsFold(S, V, base, pick, step, iter) ==
  /\ iter \in [SUBSET S -> V]
  /\ \A s \in SUBSET S : iter[s] = IF s = {} THEN base ELSE step[pick[s]][iter[s \ {pick[s]}]]

\* The same for the parts of at most n members.
IsFoldUpTo(S, V, base, pick, step, n, iter) ==
  /\ iter \in [{s \in SUBSET S : Cardinality(s) <= n} -> V]
  /\ \A s \in SUBSET S : Cardinality(s) <= n =>
       iter[s] = IF s = {} THEN base ELSE step[pick[s]][iter[s \ {pick[s]}]]

\* There is such a function.
LEMMA FoldExists ==
  ASSUME NEW S, IsFiniteSet(S), NEW V, NEW base \in V, NEW pick, NEW step \in [S -> [V -> V]],
         \A s \in SUBSET S : s # {} => pick[s] \in s
  PROVE  \E iter : IsFold(S, V, base, pick, step, iter)
<1> DEFINE part(n) == {s \in SUBSET S : Cardinality(s) <= n}
           without == {n \in Nat : ~ \E f : IsFoldUpTo(S, V, base, pick, step, n, f)}
<1>1. \A s \in SUBSET S : IsFiniteSet(s) /\ Cardinality(s) \in Nat
  BY FS_Subset, FS_CardinalityType
<1>2. ASSUME without # {}  PROVE FALSE
  <2>1. PICK n \in without : \A m \in without : n =< m
    BY <1>2, LeastOne
  <2>2. n # 0
    <3> DEFINE f == [s \in part(0) |-> base]
    <3>1. \A s \in SUBSET S : Cardinality(s) <= 0 => s = {}
      BY <1>1, FS_EmptySet
    <3>2. IsFoldUpTo(S, V, base, pick, step, 0, f)
      BY <3>1 DEF IsFoldUpTo
    <3> QED
      BY <2>1, <3>2
  <2>3. n \in Nat /\ n - 1 \in Nat /\ n - 1 \notin without
    BY <2>1, <2>2
  <2>4. PICK f : IsFoldUpTo(S, V, base, pick, step, n - 1, f)
    BY <2>3
  <2> DEFINE g == [s \in part(n) |-> IF Cardinality(s) = n THEN step[pick[s]][f[s \ {pick[s]}]]
                                     ELSE f[s]]
  <2>5. ASSUME NEW s \in SUBSET S, Cardinality(s) <= n, s # {}
        PROVE  /\ pick[s] \in S /\ s \ {pick[s]} \in SUBSET S
               /\ Cardinality(s \ {pick[s]}) = Cardinality(s) - 1
               /\ Cardinality(s \ {pick[s]}) <= n - 1 /\ Cardinality(s \ {pick[s]}) <= n
               /\ Cardinality(s \ {pick[s]}) # n
               /\ f[s \ {pick[s]}] \in V
               /\ step[pick[s]][f[s \ {pick[s]}]] \in V
    <3>1. pick[s] \in s /\ pick[s] \in S
      BY <2>5
    <3>2. s \ {pick[s]} \in SUBSET S /\ Cardinality(s \ {pick[s]}) = Cardinality(s) - 1
      BY <1>1, <3>1, FS_RemoveElement
    <3>3. /\ Cardinality(s \ {pick[s]}) <= n - 1 /\ Cardinality(s \ {pick[s]}) <= n
          /\ Cardinality(s \ {pick[s]}) # n
      BY <1>1, <2>3, <2>5, <3>2
    <3>4. f[s \ {pick[s]}] \in V
      BY <2>4, <3>2, <3>3 DEF IsFoldUpTo
    <3>5. step[pick[s]] \in [V -> V]
      BY <3>1
    <3>6. step[pick[s]][f[s \ {pick[s]}]] \in V
      BY <3>4, <3>5
    <3> QED
      BY <3>1, <3>2, <3>3, <3>4, <3>6
  <2>6. ASSUME NEW s \in SUBSET S, Cardinality(s) <= n, Cardinality(s) # n
        PROVE  /\ Cardinality(s) <= n - 1 /\ g[s] = f[s] /\ f[s] \in V
               /\ f[s] = IF s = {} THEN base ELSE step[pick[s]][f[s \ {pick[s]}]]
    <3>1. Cardinality(s) <= n - 1
      BY <1>1, <2>3, <2>6
    <3> QED
      BY <2>4, <2>6, <3>1 DEF IsFoldUpTo
  <2>7. ASSUME NEW s \in SUBSET S, Cardinality(s) = n
        PROVE  s # {} /\ g[s] = step[pick[s]][f[s \ {pick[s]}]]
    <3>1. s # {}
      BY <2>2, <2>7, FS_EmptySet
    <3>2. Cardinality(s) <= n
      BY <2>3, <2>7
    <3> QED
      BY <2>7, <3>1, <3>2
  <2>8. g \in [part(n) -> V]
    <3>1. \A s \in part(n) : g[s] \in V
      <4> TAKE s \in part(n)
      <4>1. s \in SUBSET S /\ Cardinality(s) <= n
        OBVIOUS
      <4> HIDE DEF g, part
      <4>2. CASE Cardinality(s) = n
        BY <2>5, <2>7, <4>1, <4>2
      <4>3. CASE Cardinality(s) # n
        BY <2>6, <4>1, <4>3
      <4> QED
        BY <4>2, <4>3
    <3> QED
      BY <3>1
  <2> HIDE DEF g, part
  <2>9. ASSUME NEW s \in SUBSET S, Cardinality(s) <= n
        PROVE  g[s] = IF s = {} THEN base ELSE step[pick[s]][g[s \ {pick[s]}]]
    <3>1. s # {} => g[s \ {pick[s]}] = f[s \ {pick[s]}]
      BY <2>5, <2>6, <2>9
    <3>2. CASE Cardinality(s) = n
      BY <2>7, <3>1, <3>2
    <3>3. CASE Cardinality(s) # n
      BY <2>6, <2>9, <3>1, <3>3
    <3> QED
      BY <3>2, <3>3
  <2>10. IsFoldUpTo(S, V, base, pick, step, n, g)
    BY <2>8, <2>9 DEF IsFoldUpTo, part
  <2> QED
    BY <2>1, <2>10
<1>3. Cardinality(S) \in Nat /\ Cardinality(S) \notin without
  BY <1>2, FS_CardinalityType
<1>4. PICK f : IsFoldUpTo(S, V, base, pick, step, Cardinality(S), f)
  BY <1>3
<1>5. \A s \in SUBSET S : Cardinality(s) <= Cardinality(S)
  BY FS_Subset
<1>6. {s \in SUBSET S : Cardinality(s) <= Cardinality(S)} = SUBSET S
  BY <1>5
<1>7. IsFold(S, V, base, pick, step, f)
  BY <1>4, <1>5, <1>6 DEF IsFoldUpTo, IsFold
<1> QED
  BY <1>7

\* The places from one to another.
LEMMA SpanFinite ==
  ASSUME NEW n \in Nat
  PROVE  /\ IsFiniteSet(1 .. n) /\ Cardinality(1 .. n) = n
         /\ \A m \in 0 .. n : IsFiniteSet((m + 1) .. n) /\ Cardinality((m + 1) .. n) = n - m
<1>1. 1 \in Int /\ n \in Int
  OBVIOUS
<1>2. IsFiniteSet(1 .. n) /\ Cardinality(1 .. n) = IF 1 > n THEN 0 ELSE n - 1 + 1
  BY <1>1, FS_Interval
<1>3. ASSUME NEW m \in 0 .. n
      PROVE  IsFiniteSet((m + 1) .. n) /\ Cardinality((m + 1) .. n) = n - m
  <2>1. m + 1 \in Int
    OBVIOUS
  <2>2. /\ IsFiniteSet((m + 1) .. n)
        /\ Cardinality((m + 1) .. n) = IF m + 1 > n THEN 0 ELSE n - (m + 1) + 1
    BY <1>1, <2>1, FS_Interval
  <2>3. (IF m + 1 > n THEN 0 ELSE n - (m + 1) + 1) = n - m
    OBVIOUS
  <2> QED
    BY <2>2, <2>3
<1>4. (IF 1 > n THEN 0 ELSE n - 1 + 1) = n
  OBVIOUS
<1> QED
  BY <1>2, <1>3, <1>4

\* What a sum over a function adds up, part by part.
SumsOf(f, D, iter) ==
  iter = [s \in SUBSET D |-> IF s = {} THEN 0
                             ELSE f[CHOOSE x \in s : TRUE] + iter[s \ {CHOOSE x \in s : TRUE}]]

\* A sum of natural numbers is one.
LEMMA SumsTyped ==
  ASSUME NEW D, IsFiniteSet(D), NEW f, \A x \in D : f[x] \in Nat
  PROVE  /\ SumsOf(f, D, CHOOSE iter : SumsOf(f, D, iter))
         /\ (CHOOSE iter : SumsOf(f, D, iter)) \in [SUBSET D -> Nat]
<1> DEFINE pick == [s \in SUBSET D |-> CHOOSE x \in s : TRUE]
           step == [x \in D |-> [v \in Nat |-> f[x] + v]]
           sums == CHOOSE iter : SumsOf(f, D, iter)
<1>1. \A s \in SUBSET D : s # {} => pick[s] \in s /\ pick[s] \in D
  OBVIOUS
<1>2. step \in [D -> [Nat -> Nat]] /\ \A x \in D, v \in Nat : step[x][v] = f[x] + v
  OBVIOUS
<1>3. \A s \in SUBSET D : pick[s] = CHOOSE x \in s : TRUE
  OBVIOUS
<1> HIDE DEF pick, step
<1>4. PICK iter : IsFold(D, Nat, 0, pick, step, iter)
  BY <1>1, <1>2, FoldExists
<1>5. ASSUME NEW s \in SUBSET D
      PROVE  iter[s] = IF s = {} THEN 0 ELSE f[pick[s]] + iter[s \ {pick[s]}]
  <2>1. CASE s = {}
    BY <1>4, <2>1 DEF IsFold
  <2>2. CASE s # {}
    <3>1. pick[s] \in D /\ s \ {pick[s]} \in SUBSET D
      BY <1>1, <2>2
    <3>2. iter[s \ {pick[s]}] \in Nat
      BY <1>4, <3>1 DEF IsFold
    <3>3. iter[s] = step[pick[s]][iter[s \ {pick[s]}]]
      BY <1>4, <2>2 DEF IsFold
    <3> QED
      BY <1>2, <2>2, <3>1, <3>2, <3>3
  <2> QED
    BY <2>1, <2>2
<1>6. iter = [s \in SUBSET D |-> IF s = {} THEN 0 ELSE f[pick[s]] + iter[s \ {pick[s]}]]
  BY <1>4, <1>5 DEF IsFold
<1>7. SumsOf(f, D, iter)
  BY <1>3, <1>6 DEF SumsOf
<1>8. SumsOf(f, D, sums)
  BY <1>7
<1> HIDE DEF sums
<1>9. \A s \in SUBSET D : sums[s] = IF s = {} THEN 0 ELSE f[pick[s]] + sums[s \ {pick[s]}]
  BY <1>3, <1>8 DEF SumsOf
<1> DEFINE good == {s \in SUBSET D : sums[s] \in Nat}
<1>10. ASSUME NEW s \in SUBSET D, \A x \in s : s \ {x} \in good  PROVE s \in good
  <2>1. CASE s = {}
    BY <1>9, <2>1
  <2>2. CASE s # {}
    <3>1. pick[s] \in s /\ pick[s] \in D
      BY <1>1, <2>2
    <3>2. sums[s \ {pick[s]}] \in Nat
      BY <1>10, <3>1
    <3>3. sums[s] = f[pick[s]] + sums[s \ {pick[s]}] /\ f[pick[s]] \in Nat
      BY <1>9, <2>2, <3>1
    <3>4. sums[s] \in Nat
      BY <3>2, <3>3
    <3> QED
      BY <3>4
  <2> QED
    BY <2>1, <2>2
<1> HIDE DEF good
<1>11. \A s \in SUBSET D : s \in good
  BY <1>10, PartByPart
<1>12. sums \in [SUBSET D -> Nat]
  <2>1. \A s \in SUBSET D : sums[s] \in Nat
    BY <1>11 DEF good
  <2>2. sums = [s \in SUBSET D |-> sums[s]]
    BY <1>8 DEF SumsOf
  <2> QED
    BY <2>1, <2>2
<1> QED
  BY <1>8, <1>12 DEF sums

\* So the sum over a function's values is a natural number.
LEMMA SumTyped ==
  ASSUME NEW D, IsFiniteSet(D), NEW f \in [D -> Nat]
  PROVE  SumFunction(f) \in Nat
<1>1. SumFunction(f) = (CHOOSE iter : SumsOf(f, D, iter))[D]
  BY DEF SumFunction, SumFunctionOnSet, FoldFunctionOnSet, MapThenFoldSet, SumsOf
<1>2. D \in SUBSET D /\ \A x \in D : f[x] \in Nat
  OBVIOUS
<1>3. (CHOOSE iter : SumsOf(f, D, iter)) \in [SUBSET D -> Nat]
  BY <1>2, SumsTyped
<1> QED
  BY <1>1, <1>2, <1>3

\* Taking any term off a part takes its value off the sum.
TermByTerm(f, D, sums) ==
  /\ sums[{}] = 0
  /\ \A s \in SUBSET D : \A x \in s : sums[s] = f[x] + sums[s \ {x}]

\* A sum does not depend on the order its terms are taken in: any of them can be the last.
LEMMA AnyTermLast ==
  ASSUME NEW D, IsFiniteSet(D), NEW f, \A x \in D : f[x] \in Nat,
         NEW sums, sums \in [SUBSET D -> Nat], SumsOf(f, D, sums)
  PROVE  TermByTerm(f, D, sums)
<1> DEFINE pick == [s \in SUBSET D |-> CHOOSE x \in s : TRUE]
           good == {s \in SUBSET D : \A x \in s : sums[s] = f[x] + sums[s \ {x}]}
<1>1. \A s \in SUBSET D : s # {} => pick[s] \in s /\ pick[s] \in D
  OBVIOUS
<1>2. \A s \in SUBSET D : sums[s] = IF s = {} THEN 0 ELSE f[pick[s]] + sums[s \ {pick[s]}]
  BY DEF SumsOf
<1> HIDE DEF pick
<1>3. ASSUME NEW s \in SUBSET D, \A x \in s : s \ {x} \in good  PROVE s \in good
  <2>1. SUFFICES ASSUME NEW x \in s  PROVE sums[s] = f[x] + sums[s \ {x}]
    OBVIOUS
  <2> DEFINE p == pick[s]
             without == (s \ {x}) \ {p}
  <2>2. p \in s /\ p \in D /\ x \in D /\ sums[s] = f[p] + sums[s \ {p}]
    BY <1>1, <1>2, <2>1
  <2> HIDE DEF p
  <2>3. CASE x = p
    BY <2>2, <2>3
  <2>4. CASE x # p
    <3>1. p \in s \ {x} /\ x \in s \ {p} /\ (s \ {p}) \ {x} = without
      BY <2>1, <2>2, <2>4
    <3>2. s \ {x} \in good /\ s \ {p} \in good
      BY <1>3, <2>1, <2>2
    <3>3. sums[s \ {x}] = f[p] + sums[without]
      BY <3>1, <3>2
    <3>4. sums[s \ {p}] = f[x] + sums[without]
      BY <3>1, <3>2
    <3>5. f[p] \in Nat /\ f[x] \in Nat /\ sums[without] \in Nat
      BY <2>2
    <3> QED
      BY <2>2, <3>3, <3>4, <3>5
  <2> QED
    BY <2>3, <2>4
<1> HIDE DEF good
<1>4. \A s \in SUBSET D : s \in good
  BY <1>3, PartByPart
<1>5. sums[{}] = 0
  BY <1>2
<1> QED
  BY <1>4, <1>5 DEF good, TermByTerm

\* The sums of the first terms of a sequence, and that the last is the sum over the sequence.
RunningSums(f, n, g) ==
  /\ g \in [0 .. n -> Nat] /\ g[0] = 0
  /\ \A k \in 1 .. n : g[k] = g[k - 1] + f[k]
  /\ g[n] = SumFunction(f)

\* There are such sums.
LEMMA SumsRun ==
  ASSUME NEW n \in Nat, NEW f \in [1 .. n -> Nat]
  PROVE  \E g : RunningSums(f, n, g)
<1> DEFINE D == 1 .. n
           sums == CHOOSE iter : SumsOf(f, D, iter)
           g == [k \in 0 .. n |-> sums[1 .. k]]
<1>1. IsFiniteSet(D) /\ \A x \in D : f[x] \in Nat
  BY SpanFinite
<1>2. SumFunction(f) = sums[D]
  BY DEF SumFunction, SumFunctionOnSet, FoldFunctionOnSet, MapThenFoldSet, SumsOf
<1>3. SumsOf(f, D, sums) /\ sums \in [SUBSET D -> Nat]
  BY <1>1, SumsTyped
<1> HIDE DEF sums, D
<1>4. TermByTerm(f, D, sums)
  BY <1>1, <1>3, AnyTermLast
<1>5. \A k \in 0 .. n : 1 .. k \in SUBSET D
  BY DEF D
<1>6. g \in [0 .. n -> Nat]
  BY <1>3, <1>5
<1>7. 1 .. 0 = {} /\ g[0] = sums[1 .. 0] /\ g[n] = sums[D]
  BY DEF D
<1>8. ASSUME NEW k \in 1 .. n  PROVE g[k] = g[k - 1] + f[k]
  <2>1. k \in Nat /\ k \in 1 .. k /\ k \in 0 .. n /\ k - 1 \in 0 .. n
    OBVIOUS
  <2>2. (1 .. k) \ {k} = 1 .. (k - 1)
    BY <2>1
  <2>3. sums[1 .. k] = f[k] + sums[1 .. (k - 1)]
    <3>1. 1 .. k \in SUBSET D
      BY <1>5, <2>1
    <3>2. sums[1 .. k] = f[k] + sums[(1 .. k) \ {k}]
      BY <1>4, <2>1, <3>1 DEF TermByTerm
    <3> QED
      BY <2>2, <3>2
  <2>4. g[k] = sums[1 .. k] /\ g[k - 1] = sums[1 .. (k - 1)] /\ g[k - 1] \in Nat /\ f[k] \in Nat
    BY <1>6, <2>1
  <2> HIDE DEF g
  <2> QED
    BY <2>3, <2>4
<1>9. RunningSums(f, n, g)
  <2>1. g[0] = 0 /\ g[n] = SumFunction(f)
    BY <1>2, <1>4, <1>7 DEF TermByTerm
  <2> HIDE DEF g
  <2> QED
    BY <1>6, <1>8, <2>1 DEF RunningSums
<1> QED
  BY <1>9

\* The greatest of finitely many natural numbers.
LEMMA GreatestOf ==
  ASSUME NEW n \in Nat
  PROVE  /\ \A s \in SUBSET (1 .. n) : s # {} => Max(s) \in s
         /\ \A k \in 1 .. n : Max(1 .. k) = k
<1>1. ASSUME NEW s \in SUBSET (1 .. n), s # {}  PROVE Max(s) \in s
  <2> DEFINE off == {m \in 0 .. n : n - m \in s}
  <2>1. PICK z \in s : TRUE
    BY <1>1
  <2>2. \A y \in s : y \in Nat /\ y <= n /\ n - y \in 0 .. n /\ n - (n - y) = y
    BY <1>1
  <2>3. off \in SUBSET Nat /\ \A y \in s : n - y \in off
    BY <2>2
  <2>4. PICK m \in off : \A x \in off : m <= x
    BY <2>1, <2>3, LeastOne
  <2>5. PICK x \in s : m = n - x
    BY <2>2, <2>4
  <2> HIDE DEF off
  <2>6. \A y \in s : n - x <= n - y
    BY <2>3, <2>4, <2>5
  <2>7. \A y \in s : x >= y
    BY <2>2, <2>6
  <2> QED
    BY <2>7 DEF Max
<1>2. ASSUME NEW k \in 1 .. n  PROVE Max(1 .. k) = k
  <2>1. k \in 1 .. k /\ \A y \in 1 .. k : k >= y
    OBVIOUS
  <2>2. \A x \in 1 .. k : (\A y \in 1 .. k : x >= y) => x = k
    OBVIOUS
  <2> QED
    BY <2>1, <2>2 DEF Max
<1> QED
  BY <1>1, <1>2
------------------------------------------------------------------------------
(* Lists of a set, and sequences one after another.                          *)

\* A sequence with every member of a set once.
Enumerates(q, S) ==
  /\ q \in Seq(S) /\ Len(q) = Cardinality(S) /\ DOMAIN q = 1 .. Cardinality(S)
  /\ Cardinality(S) \in Nat
  /\ \A m, n \in DOMAIN q : q[m] = q[n] => m = n
  /\ \A x \in S : \E n \in DOMAIN q : q[n] = x

\* A list of the members in an order is one.
LEMMA ListEnumerates ==
  ASSUME NEW S, NEW before, NEW q, Orders(S, before), IsListOf(q, S, before)
  PROVE  Enumerates(q, S)
<1>1. ASSUME NEW m \in DOMAIN q, NEW n \in DOMAIN q, q[m] = q[n]  PROVE m = n
  <2>1. m \in Nat /\ n \in Nat /\ q[m] \in S /\ q[n] \in S
    BY DEF IsListOf
  <2>2. q[m] \notin before[q[n]] /\ q[n] \notin before[q[m]]
    BY <1>1, <2>1 DEF Orders
  <2> QED
    BY <2>1, <2>2 DEF IsListOf
<1> QED
  BY <1>1 DEF IsListOf, Enumerates

\* Rows by a number, the greater first, and by id where it is the same.
LEMMA RankOrders ==
  ASSUME NEW S, NEW before, NEW val \in [S -> Nat], NEW id \in [S -> Nat],
         \A x, y \in S : id[x] = id[y] => x = y,
         before \in [S -> SUBSET S],
         \A x, y \in S : y \in before[x] <=> (val[y] > val[x] \/ (val[y] = val[x] /\ id[y] < id[x]))
  PROVE  Orders(S, before)
<1>1. \A x \in S : val[x] \in Nat /\ id[x] \in Nat
  OBVIOUS
<1>2. \A x \in S : x \notin before[x]
  BY <1>1
<1>3. \A x, y \in S : x # y => x \in before[y] \/ y \in before[x]
  BY <1>1
<1>4. \A x, y, z \in S : x \in before[y] /\ y \in before[z] => x \in before[z]
  BY <1>1
<1> QED
  BY <1>2, <1>3, <1>4 DEF Orders

\* One sequence after another has the entries of both.
LEMMA BothParts ==
  ASSUME NEW T, NEW a \in Seq(T), NEW b \in Seq(T)
  PROVE  /\ a \o b \in Seq(T) /\ Len(a) \in Nat /\ Len(b) \in Nat /\ Len(a \o b) = Len(a) + Len(b)
         /\ \A i \in 1 .. Len(a) : (a \o b)[i] = a[i]
         /\ \A i \in 1 .. Len(b) : (a \o b)[Len(a) + i] = b[i]
         /\ ToSet(a \o b) = ToSet(a) \cup ToSet(b)
<1> DEFINE c == a \o b
<1>1. /\ c \in Seq(T) /\ Len(a) \in Nat /\ Len(b) \in Nat /\ Len(c) = Len(a) + Len(b)
      /\ DOMAIN a = 1 .. Len(a) /\ DOMAIN b = 1 .. Len(b) /\ DOMAIN c = 1 .. (Len(a) + Len(b))
      /\ \A i \in 1 .. Len(a) : c[i] = a[i]
      /\ \A i \in 1 .. Len(b) : c[Len(a) + i] = b[i]
  OBVIOUS
<1> HIDE DEF c
<1>2. ASSUME NEW x \in ToSet(c)  PROVE x \in ToSet(a) \cup ToSet(b)
  <2>1. PICK i \in DOMAIN c : c[i] = x
    BY <1>2 DEF ToSet
  <2>2. CASE i <= Len(a)
    <3>1. i \in 1 .. Len(a)
      BY <1>1, <2>1, <2>2
    <3> QED
      BY <1>1, <2>1, <3>1 DEF ToSet
  <2>3. CASE i > Len(a)
    <3>1. i - Len(a) \in 1 .. Len(b) /\ Len(a) + (i - Len(a)) = i
      BY <1>1, <2>1, <2>3
    <3>2. b[i - Len(a)] = x
      BY <1>1, <2>1, <3>1
    <3> QED
      BY <1>1, <3>1, <3>2 DEF ToSet
  <2> QED
    BY <1>1, <2>1, <2>2, <2>3
<1>3. ASSUME NEW x \in ToSet(a)  PROVE x \in ToSet(c)
  <2>1. PICK i \in 1 .. Len(a) : a[i] = x
    BY <1>1, <1>3 DEF ToSet
  <2>2. i \in DOMAIN c
    BY <1>1
  <2> QED
    BY <1>1, <2>1, <2>2 DEF ToSet
<1>4. ASSUME NEW x \in ToSet(b)  PROVE x \in ToSet(c)
  <2>1. PICK i \in 1 .. Len(b) : b[i] = x
    BY <1>1, <1>4 DEF ToSet
  <2>2. Len(a) + i \in DOMAIN c
    BY <1>1
  <2> QED
    BY <1>1, <2>1, <2>2 DEF ToSet
<1>5. ToSet(c) = ToSet(a) \cup ToSet(b)
  BY <1>2, <1>3, <1>4
<1> QED
  BY <1>1, <1>5 DEF c
==============================================================================
