---------------------------- MODULE LibrarySearch -----------------------------
(***************************************************************************)
(* GET /search over the replica: two retrieval legs fused by rank, the       *)
(* survivors scored, sorted and diversified.  What SQLite's full-text index  *)
(* finds for the query, and how similar a title is to it, are constants; the *)
(* code's fractions are counted in parts of a Unity.                         *)
(***************************************************************************)
EXTENDS Browse, Functions

CONSTANTS
  Legs,            \* a sequence of legs, each the works it matches, best bm25 first
  Resemblance,     \* per work: how much its title resembles the query, at most Unity
  RetrievalLimit,  \* rows a leg retrieves, and rows of the fused statement
  Window           \* diversifyWindow

\* The index holds one document per work.
ASSUME LibrarySearchAssumption ==
  /\ Legs \in Seq(Seq(Works)) /\ \A n \in DOMAIN Legs : IsInjective(Legs[n])
  /\ Resemblance \in [Works -> Nat]
  /\ RetrievalLimit \in Nat \ {0} /\ Window \in Nat \ {0}

Least(a, b) == IF a < b THEN a ELSE b
First(n, s) == SubSeq(s, 1, Least(n, Len(s)))

\* A document is in scope when it is filed under a searchable library, by its own rows.
InScope(d, libs, w) == d[w].filed \cap libs # {}

\* A leg: the matching documents in scope, the best first.  A document outlives the
\* deletion of its work, and takes a place here.
Retrieved(d, leg, libs) ==
  First(RetrievalLimit, Selected(leg, {w \in Works : InScope(d, libs, w)}))

\* One, in the units fractions are counted in, and so many of so many.
Unity == 10000
Share(n, of) == (Unity * n) \div of

rrfK == 60

\* Reciprocal-rank fusion: a document counts for more the higher each leg ranks it, and
\* for the sum of the legs that found it.
Fused(d, libs) ==
  LET found == [n \in DOMAIN Legs |-> Retrieved(d, Legs[n], libs)]
      legs(w) == {n \in DOMAIN Legs : w \in ToSet(found[n])}
      rank(n, w) == CHOOSE r \in DOMAIN found[n] : found[n][r] = w
  IN  [w \in UNION {ToSet(found[n]) : n \in DOMAIN Legs} |->
         SumFunction([n \in legs(w) |-> Share(1, rrfK + rank(n, w))])]

ByRank(rows) == Sorted(rows, LAMBDA a, b : a.rrf > b.rrf \/ (a.rrf = b.rrf /\ a.id < b.id))

\* The fused statement's rows: deletion and visibility are asked of the work here.
Candidates(d, owner, libs) ==
  LET fused == Fused(d, libs)
      rows == {[id |-> w, rrf |-> fused[w]] : w \in {u \in DOMAIN fused : Visible(d, owner, u)}}
  IN  ToSet(First(RetrievalLimit, ByRank(rows)))

\* How far a dated candidate is from the oldest; an undated one is not recent at all, and
\* one that is alone is as recent as can be.
Recency(d, candidates, c) ==
  LET dated == {b \in candidates : d[b.id].added # Undated}
      older == {b \in dated : \/ d[b.id].added < d[c.id].added
                              \/ d[b.id].added = d[c.id].added /\ (b.rrf < c.rrf
                                   \/ (b.rrf = c.rrf /\ b.id > c.id))}
  IN  IF c \notin dated THEN 0
      ELSE IF dated = {c} THEN Unity ELSE Share(Cardinality(older), Cardinality(dated) - 1)

\* The weights of retrieval, resemblance and recency; fusion counts by the best of it.
Score(d, candidates, c) ==
  LET best == ByRank(candidates)[1].rrf
  IN  55 * Share(c.rrf, IF best = 0 THEN 1 ELSE best)
        + 35 * Resemblance[c.id] + 10 * Recency(d, candidates, c)

ByScore(hits) ==
  Sorted(hits, LAMBDA a, b : a.score > b.score \/ (a.score = b.score /\ a.id < b.id))

rerank(d, candidates) ==
  ByScore({[id |-> c.id, type |-> mediaTypeOf(d, c.id), score |-> Score(d, candidates, c)] :
             c \in candidates})

TypesIn(hits) == {hits[n].type : n \in DOMAIN hits}

\* The best row of each media type the window missed.
Promoted(hits) ==
  {n \in (Window + 1) .. Len(hits) :
     \A m \in 1 .. (n - 1) : hits[m].type # hits[n].type}

Ascending(ns) == Sorted(ns, <)

\* FAULT: a promoted row pushes one off the list.
diversify_Dropping(hits) ==
  LET promoted == Promoted(hits)
      head == Window - Least(Window, Cardinality(promoted))
      pick(ns) == [n \in 1 .. Cardinality(ns) |-> hits[Ascending(ns)[n]]]
  IN  IF Len(hits) <= Window \/ promoted = {} THEN hits
      ELSE pick(1 .. head) \o pick(promoted) \o pick((Window + 1 .. Len(hits)) \ promoted)

\* They move up to the window's edge; nothing is dropped.
diversify(hits) ==
  LET promoted == Promoted(hits)
      head == Window - Least(Window, Cardinality(promoted))
      pick(ns) == [n \in 1 .. Cardinality(ns) |-> hits[Ascending(ns)[n]]]
  IN  IF Len(hits) <= Window \/ promoted = {} THEN hits
      ELSE pick(1 .. head) \o pick(promoted) \o pick(((head + 1) .. Len(hits)) \ promoted)
==============================================================================
