---------------------------- MODULE ReleaseProofs ----------------------------
(***************************************************************************)
(* What a browser is told of releases, for any number of searches, indexers *)
(* and releases, of grabs, restarts of Prowlarr and deadlines.              *)
(*                                                                          *)
(* A search: the page and what is still to be told to it are taken as one   *)
(* stream. Along it the copies of a release are told apart, each supersedes *)
(* the one before it, and while nothing was dropped the last of them is the *)
(* best stored (its slot); the report counts the answers collected. When    *)
(* every leg is in, the stream is the page and the slots are its best       *)
(* copies.                                                                  *)
(*                                                                          *)
(* A grab: what may still be sent, and what was, at every place of a handler.*)
(***************************************************************************)
EXTENDS Search, Grab, FiniteSetTheorems, SequenceTheorems, TLAPS

\* The copies of releases, and what a search tells of.
Results == [cand : Nat \ {0}, guid : Guids, indexer : Indexers, supersedes : Nat]

Events == [kind : {"indexer_started", "indexer_done", "results", "done"}, results : SUBSET Results]

\* What a search has to tell and has not told yet.
Stream(s) == out[s] \o fan[s].pend

\* A copy is on the page, or on its way before the event at place k.
Before(sh, q, k, c) == c \in sh \/ \E j \in DOMAIN q : j < k /\ c \in q[j].results

\* A copy is on the page or on its way.
Shows(sh, q, c) == c \in sh \/ \E j \in DOMAIN q : c \in q[j].results

\* Copies are told apart by their candidates; the page has one of a release at most, and so
\* has an event.
Apart(sh, q) ==
  /\ \A c, d \in Results : Shows(sh, q, c) /\ Shows(sh, q, d) /\ c.cand = d.cand => c = d
  /\ \A c, d \in sh : c.guid = d.guid => c = d
  /\ \A k \in DOMAIN q : \A c, d \in q[k].results : c.guid = d.guid => c = d

\* A copy supersedes the last one before it.
Chained(sh, q) ==
  \A k \in DOMAIN q : \A r \in q[k].results :
    /\ r.supersedes < r.cand
    /\ \A p \in Results : Before(sh, q, k, p) /\ p.guid = r.guid => p.cand <= r.supersedes
    /\ r.supersedes # 0 =>
         \E p \in Results : Before(sh, q, k, p) /\ p.guid = r.guid /\ p.cand = r.supersedes

\* No copy is later than the slot of its release, nor than the last row stored.
Bounded(sh, q, em, n) ==
  /\ \A g \in DOMAIN em : em[g].cand <= n
  /\ \A c \in Results : Shows(sh, q, c) => c.guid \in DOMAIN em /\ c.cand <= em[c.guid].cand

\* The copy in the slot of every release is on the page or on its way.
Latest(sh, q, em) ==
  \A g \in DOMAIN em : \E c \in Results :
    /\ Shows(sh, q, c) /\ c.guid = g /\ c.cand = em[g].cand
    /\ PriorityOf[c.indexer] = em[g].priority

\* The dedupe slots of a search.
Slotted(em) ==
  /\ DOMAIN em \subseteq Guids
  /\ \A g \in DOMAIN em : em[g] \in [cand : Nat \ {0}, priority : Nat]

\* What a page shows, what is on its way to it and what was stored agree.
Consistent(sh, q, em, n) == Apart(sh, q) /\ Chained(sh, q) /\ Bounded(sh, q, em, n)

\* The page after an event.
Shown(sh, ev) == {c \in sh : \A r \in ev.results : r.supersedes # c.cand} \cup ev.results
------------------------------------------------------------------------------
\* A copy that an event takes off the page is one of the release of the copy that takes it
\* off.
LEMMA Superseded ==
  ASSUME NEW sh \in SUBSET Results, NEW q \in Seq(Events), q # <<>>,
         Apart(sh, q), Chained(sh, q),
         NEW c \in sh, NEW r \in q[1].results, r.supersedes = c.cand
  PROVE  r \in Results /\ r.guid = c.guid /\ c.cand < r.cand
<1>1. 1 \in DOMAIN q /\ q[1] \in Events
  BY EmptySeq, LenProperties, ElementOfSeq
<1>2. r \in Results /\ c \in Results
  BY <1>1 DEF Events
<1>3. r.supersedes # 0 /\ r.supersedes < r.cand
  BY <1>1, <1>2 DEF Chained, Results
<1>4. PICK p \in Results : Before(sh, q, 1, p) /\ p.guid = r.guid /\ p.cand = r.supersedes
  BY <1>1, <1>3 DEF Chained
<1>5. p \in sh
  BY <1>4, LenProperties DEF Before
<1>6. p = c
  BY <1>2, <1>4, <1>5 DEF Apart, Shows
<1> QED
  BY <1>2, <1>3, <1>4, <1>6

\* The page takes the first event in: what is left still agrees.
LEMMA TakesIn ==
  ASSUME NEW sh \in SUBSET Results, NEW q \in Seq(Events), q # <<>>,
         NEW em, Slotted(em), NEW n \in Nat,
         Consistent(sh, q, em, n),
         NEW r \in Seq(Events), r = Tail(q)
  PROVE  /\ Consistent(Shown(sh, q[1]), r, em, n)
         /\ Latest(sh, q, em) => Latest(Shown(sh, q[1]), r, em)
<1> DEFINE now == Shown(sh, q[1])
<1>1. /\ DOMAIN q = 1 .. Len(q) /\ Len(q) \in Nat \ {0}
      /\ DOMAIN r = 1 .. Len(r) /\ Len(r) = Len(q) - 1
      /\ \A k \in DOMAIN r : r[k] = q[k + 1] /\ k + 1 \in DOMAIN q
  BY EmptySeq, LenProperties, HeadTailProperties
<1>2. \A k \in DOMAIN q : q[k] \in Events
  BY <1>1, ElementOfSeq
<1>3. now \in SUBSET Results
  BY <1>1, <1>2 DEF Shown, Events
<1>4. Apart(sh, q) /\ Chained(sh, q) /\ Bounded(sh, q, em, n)
  BY DEF Consistent
<1>5. ASSUME NEW c \in Results, Shows(now, r, c)  PROVE Shows(sh, q, c)
  BY <1>1, <1>5 DEF Shows, Shown
<1>6. ASSUME NEW k \in DOMAIN r, NEW c \in Results, Before(now, r, k, c)
      PROVE  Before(sh, q, k + 1, c)
  BY <1>1, <1>6 DEF Before, Shown
<1>7. ASSUME NEW c \in sh, c \notin now
      PROVE  \E y \in q[1].results : /\ y \in Results /\ y.guid = c.guid
                                     /\ y.supersedes = c.cand /\ c.cand < y.cand
  <2>1. PICK y \in q[1].results : y.supersedes = c.cand
    BY <1>7 DEF Shown
  <2> QED
    BY <1>4, <2>1, Superseded
<1>8. Apart(now, r)
  <2>1. ASSUME NEW c \in now, NEW d \in now, c.guid = d.guid, c \in sh, d \notin sh
        PROVE  FALSE
    <3>1. d \in q[1].results /\ c \in Results /\ d \in Results
      BY <1>3, <2>1 DEF Shown
    <3>2. Before(sh, q, 1, c)
      BY <2>1 DEF Before
    <3>3. c.cand <= d.supersedes
      BY <1>1, <1>4, <2>1, <3>1, <3>2 DEF Chained
    <3>4. d.supersedes # 0
      BY <3>1, <3>3 DEF Results
    <3>5. PICK p \in Results : Before(sh, q, 1, p) /\ p.guid = d.guid /\ p.cand = d.supersedes
      BY <1>1, <1>4, <3>1, <3>4 DEF Chained
    <3>6. p \in sh
      BY <1>1, <3>5 DEF Before
    <3>7. p = c
      BY <1>4, <2>1, <3>5, <3>6 DEF Apart
    <3>8. c \notin q[1].results
      <4>1. SUFFICES ASSUME c \in q[1].results PROVE FALSE
        OBVIOUS
      <4>2. c = d
        BY <1>1, <1>4, <2>1, <3>1, <4>1 DEF Apart
      <4> QED
        BY <2>1, <4>2
    <3> QED
      BY <2>1, <3>1, <3>5, <3>7, <3>8 DEF Shown
  <2>2. ASSUME NEW c \in now, NEW d \in now, c.guid = d.guid  PROVE c = d
    <3>1. CASE c \in sh /\ d \in sh
      BY <1>4, <2>2, <3>1 DEF Apart
    <3>2. CASE c \notin sh /\ d \notin sh
      BY <1>1, <1>4, <2>2, <3>2 DEF Apart, Shown
    <3> QED
      BY <2>1, <2>2, <3>1, <3>2
  <2>3. \A k \in DOMAIN r : \A c, d \in r[k].results : c.guid = d.guid => c = d
    BY <1>1, <1>4 DEF Apart
  <2>4. \A c, d \in Results : Shows(now, r, c) /\ Shows(now, r, d) /\ c.cand = d.cand => c = d
    BY <1>4, <1>5 DEF Apart
  <2> QED
    BY <2>2, <2>3, <2>4 DEF Apart
<1>9. Chained(now, r)
  <2> SUFFICES ASSUME NEW k \in DOMAIN r, NEW x \in r[k].results
               PROVE  /\ x.supersedes < x.cand
                      /\ \A p \in Results : Before(now, r, k, p) /\ p.guid = x.guid => p.cand <= x.supersedes
                      /\ x.supersedes # 0 =>
                           \E p \in Results : Before(now, r, k, p) /\ p.guid = x.guid /\ p.cand = x.supersedes
    BY DEF Chained
  <2>1. k + 1 \in DOMAIN q /\ x \in q[k + 1].results /\ k \in Nat \ {0} /\ x \in Results
    BY <1>1, <1>2 DEF Events
  <2>2. /\ x.supersedes < x.cand
        /\ \A p \in Results : Before(sh, q, k + 1, p) /\ p.guid = x.guid => p.cand <= x.supersedes
        /\ x.supersedes # 0 =>
             \E p \in Results : Before(sh, q, k + 1, p) /\ p.guid = x.guid /\ p.cand = x.supersedes
    BY <1>4, <2>1 DEF Chained
  <2>3. ASSUME x.supersedes # 0
        PROVE  \E p \in Results : Before(now, r, k, p) /\ p.guid = x.guid /\ p.cand = x.supersedes
    <3>1. PICK p \in Results : Before(sh, q, k + 1, p) /\ p.guid = x.guid /\ p.cand = x.supersedes
      BY <2>2, <2>3
    <3>2. CASE p \in sh
      <4>1. p \in now
        <5> SUFFICES ASSUME p \notin now PROVE FALSE
          OBVIOUS
        <5>1. PICK y \in q[1].results : /\ y \in Results /\ y.guid = p.guid
                                        /\ y.supersedes = p.cand /\ p.cand < y.cand
          BY <1>7, <3>2
        <5>2. Before(sh, q, k + 1, y)
          BY <1>1, <2>1 DEF Before
        <5>3. y.cand <= x.supersedes
          BY <2>2, <3>1, <5>1, <5>2
        <5> QED
          BY <3>1, <5>1, <5>3 DEF Results
      <4> QED
        BY <3>1, <4>1 DEF Before
    <3>3. CASE p \notin sh
      <4>1. PICK j \in DOMAIN q : j < k + 1 /\ p \in q[j].results
        BY <3>1, <3>3 DEF Before
      <4>2. CASE j = 1
        BY <3>1, <4>1, <4>2 DEF Before, Shown
      <4>3. CASE j # 1
        <5>1. j - 1 \in DOMAIN r /\ j - 1 < k /\ p \in r[j - 1].results
          BY <1>1, <2>1, <4>1, <4>3
        <5> QED
          BY <3>1, <5>1 DEF Before
      <4> QED
        BY <4>2, <4>3
    <3> QED
      BY <3>2, <3>3
  <2>4. \A p \in Results : Before(now, r, k, p) /\ p.guid = x.guid => p.cand <= x.supersedes
    BY <1>6, <2>2
  <2> QED
    BY <2>2, <2>3, <2>4
<1>10. Bounded(now, r, em, n)
  BY <1>4, <1>5 DEF Bounded
<1>11. ASSUME Latest(sh, q, em) PROVE Latest(now, r, em)
  <2> SUFFICES ASSUME NEW g \in DOMAIN em
               PROVE  \E c \in Results : /\ Shows(now, r, c) /\ c.guid = g /\ c.cand = em[g].cand
                                         /\ PriorityOf[c.indexer] = em[g].priority
    BY DEF Latest
  <2>1. PICK c \in Results : /\ Shows(sh, q, c) /\ c.guid = g /\ c.cand = em[g].cand
                             /\ PriorityOf[c.indexer] = em[g].priority
    BY <1>11 DEF Latest
  <2>2. Shows(now, r, c)
    <3>1. CASE c \in sh
      <4> SUFFICES ASSUME c \notin now PROVE FALSE
        BY DEF Shows
      <4>1. PICK y \in q[1].results : /\ y \in Results /\ y.guid = c.guid
                                      /\ y.supersedes = c.cand /\ c.cand < y.cand
        BY <1>7, <3>1
      <4>2. Shows(sh, q, y)
        BY <1>1 DEF Shows
      <4>3. y.cand <= em[g].cand
        BY <1>4, <2>1, <4>1, <4>2 DEF Bounded
      <4> QED
        BY <2>1, <4>1, <4>3 DEF Results
    <3>2. CASE c \notin sh
      <4>1. PICK j \in DOMAIN q : c \in q[j].results
        BY <2>1, <3>2 DEF Shows
      <4>2. CASE j = 1
        BY <4>1, <4>2 DEF Shows, Shown
      <4>3. CASE j # 1
        <5>1. j - 1 \in DOMAIN r /\ c \in r[j - 1].results
          BY <1>1, <4>1, <4>3
        <5> QED
          BY <5>1 DEF Shows
      <4> QED
        BY <4>2, <4>3
    <3> QED
      BY <3>1, <3>2
  <2> QED
    BY <2>1, <2>2
<1> QED
  BY <1>8, <1>9, <1>10, <1>11 DEF Consistent

\* More rows stored change nothing of what agrees.
LEMMA MoreRows ==
  ASSUME NEW sh \in SUBSET Results, NEW q \in Seq(Events), NEW em, Slotted(em),
         NEW n \in Nat, NEW m \in Nat, n <= m, Consistent(sh, q, em, n)
  PROVE  Consistent(sh, q, em, m)
<1>1. Bounded(sh, q, em, m)
  BY DEF Consistent, Bounded, Slotted
<1> QED
  BY <1>1 DEF Consistent

\* What is left of the events of a fan-out that gave up on the last of them agrees still.
LEMMA CutShort ==
  ASSUME NEW sh \in SUBSET Results, NEW q \in Seq(Events), NEW em, NEW n \in Nat,
         Consistent(sh, q, em, n),
         NEW r \in Seq(Events), Len(r) <= Len(q), \A k \in 1 .. Len(r) : r[k] = q[k]
  PROVE  Consistent(sh, r, em, n)
<1>1. /\ DOMAIN q = 1 .. Len(q) /\ DOMAIN r = 1 .. Len(r) /\ Len(q) \in Nat /\ Len(r) \in Nat
      /\ \A k \in DOMAIN r : k \in DOMAIN q /\ r[k] = q[k]
  BY LenProperties
<1>2. \A c : Shows(sh, r, c) => Shows(sh, q, c)
  BY <1>1 DEF Shows
<1>3. ASSUME NEW k \in DOMAIN r, NEW c  PROVE Before(sh, r, k, c) <=> Before(sh, q, k, c)
  <2>1. ASSUME NEW j \in DOMAIN q, j < k  PROVE j \in DOMAIN r
    BY <1>1, <2>1
  <2> QED
    BY <1>1, <2>1 DEF Before
<1>4. Apart(sh, r)
  BY <1>1, <1>2 DEF Consistent, Apart
<1>5. Chained(sh, r)
  BY <1>1, <1>3 DEF Consistent, Chained
<1>6. Bounded(sh, r, em, n)
  BY <1>2 DEF Consistent, Bounded
<1> QED
  BY <1>4, <1>5, <1>6 DEF Consistent

\* The events of a collected answer: the copies it brings, each with a candidate of its own
\* after all those stored and superseding the copy in the slot of its release.
Brought(em, n, m, fresh) ==
  /\ fresh \in SUBSET Results
  /\ \A x \in fresh :
       /\ n < x.cand /\ x.cand <= m
       /\ x.supersedes = IF x.guid \in DOMAIN em THEN em[x.guid].cand ELSE 0
  /\ \A x, y \in fresh : x.guid = y.guid \/ x.cand = y.cand => x = y

\* The slots once the copies are stored.
Restocked(em, at, fresh) ==
  /\ DOMAIN at = DOMAIN em \cup {x.guid : x \in fresh}
  /\ \A x \in fresh : at[x.guid].cand = x.cand /\ at[x.guid].priority = PriorityOf[x.indexer]
  /\ \A g \in DOMAIN em : (\A x \in fresh : x.guid # g) => at[g] = em[g]

\* The events of one stream are followed in another by one that brings the copies, and by some
\* that bring none.
Follows(q, r, fresh) ==
  /\ Len(q) <= Len(r) /\ \A k \in 1 .. Len(q) : r[k] = q[k]
  /\ \A k \in Len(q) + 1 .. Len(r) : r[k].results = IF k = Len(q) + 1 THEN fresh ELSE {}
  /\ fresh # {} => Len(q) < Len(r)

\* Copies come after those there are, of which none is left out.
LEMMA ComesAfter ==
  ASSUME NEW sh \in SUBSET Results, NEW q \in Seq(Events), NEW em, Slotted(em),
         NEW n \in Nat, NEW m \in Nat, n <= m,
         Consistent(sh, q, em, n), Latest(sh, q, em),
         NEW fresh, Brought(em, n, m, fresh), NEW at, Slotted(at), Restocked(em, at, fresh),
         NEW r \in Seq(Events), Follows(q, r, fresh)
  PROVE  Consistent(sh, r, at, m) /\ Latest(sh, r, at)
<1>1. /\ DOMAIN q = 1 .. Len(q) /\ DOMAIN r = 1 .. Len(r) /\ Len(q) \in Nat /\ Len(r) \in Nat
      /\ \A k \in DOMAIN q : k \in DOMAIN r /\ r[k] = q[k]
      /\ \A k \in DOMAIN r : k \notin DOMAIN q =>
           Len(q) < k /\ r[k].results = IF k = Len(q) + 1 THEN fresh ELSE {}
  <2>1. DOMAIN q = 1 .. Len(q) /\ DOMAIN r = 1 .. Len(r) /\ Len(q) \in Nat /\ Len(r) \in Nat
    BY LenProperties
  <2> QED
    BY <2>1 DEF Follows
<1>2. fresh \in SUBSET Results
  BY DEF Brought
<1>3. ASSUME NEW c PROVE Shows(sh, r, c) <=> Shows(sh, q, c) \/ c \in fresh
  <2>1. c \in fresh => Shows(sh, r, c)
    <3>1. SUFFICES ASSUME c \in fresh PROVE Shows(sh, r, c)
      OBVIOUS
    <3>2. Len(q) + 1 \in DOMAIN r /\ r[Len(q) + 1].results = fresh
      BY <1>1, <3>1 DEF Follows
    <3> QED
      BY <3>1, <3>2 DEF Shows
  <2> QED
    BY <1>1, <2>1 DEF Shows
<1>4. ASSUME NEW k \in DOMAIN q, NEW c  PROVE Before(sh, r, k, c) <=> Before(sh, q, k, c)
  <2>1. ASSUME NEW j \in DOMAIN r, j < k  PROVE j \in DOMAIN q
    BY <1>1, <2>1
  <2> QED
    BY <1>1, <2>1 DEF Before
<1>5. ASSUME NEW c  PROVE Before(sh, r, Len(q) + 1, c) <=> Shows(sh, q, c)
  <2>1. ASSUME NEW j \in DOMAIN r, j < Len(q) + 1  PROVE j \in DOMAIN q
    BY <1>1, <2>1
  <2>2. \A j \in DOMAIN q : j < Len(q) + 1
    BY <1>1
  <2> QED
    BY <1>1, <2>1, <2>2 DEF Before, Shows
<1>6. ASSUME NEW c \in Results, Shows(sh, q, c), NEW x \in fresh
      PROVE  c.cand < x.cand /\ (c.guid = x.guid => c.cand <= x.supersedes)
  <2>1. c.guid \in DOMAIN em /\ c.cand <= em[c.guid].cand /\ em[c.guid].cand <= n
    BY <1>6 DEF Consistent, Bounded
  <2>2. em[c.guid].cand \in Nat /\ c.cand \in Nat /\ x.cand \in Nat
    BY <1>2, <2>1 DEF Slotted, Results
  <2>3. n < x.cand /\ x.supersedes = IF x.guid \in DOMAIN em THEN em[x.guid].cand ELSE 0
    BY DEF Brought
  <2> QED
    BY <2>1, <2>2, <2>3
<1>7. Apart(sh, r)
  <2>1. ASSUME NEW c \in Results, NEW d \in Results, Shows(sh, r, c), Shows(sh, r, d), c.cand = d.cand
        PROVE  c = d
    <3>1. CASE Shows(sh, q, c) /\ Shows(sh, q, d)
      BY <2>1, <3>1 DEF Consistent, Apart
    <3>2. CASE c \in fresh /\ d \in fresh
      BY <2>1, <3>2 DEF Brought
    <3>3. CASE Shows(sh, q, c) /\ d \in fresh
      BY <1>6, <2>1, <3>3 DEF Results
    <3>4. CASE c \in fresh /\ Shows(sh, q, d)
      BY <1>6, <2>1, <3>4 DEF Results
    <3> QED
      BY <1>3, <2>1, <3>1, <3>2, <3>3, <3>4
  <2>2. ASSUME NEW k \in DOMAIN r, NEW c \in r[k].results, NEW d \in r[k].results, c.guid = d.guid
        PROVE  c = d
    <3>1. CASE k \in DOMAIN q
      BY <1>1, <2>2, <3>1 DEF Consistent, Apart
    <3>2. CASE k \notin DOMAIN q
      <4>1. c \in fresh /\ d \in fresh
        BY <1>1, <2>2, <3>2
      <4> QED
        BY <2>2, <4>1 DEF Brought
    <3> QED
      BY <3>1, <3>2
  <2>3. \A c, d \in sh : c.guid = d.guid => c = d
    BY DEF Consistent, Apart
  <2> QED
    BY <2>1, <2>2, <2>3 DEF Apart
<1>8. Chained(sh, r)
  <2> SUFFICES ASSUME NEW k \in DOMAIN r, NEW x \in r[k].results
               PROVE  /\ x.supersedes < x.cand
                      /\ \A p \in Results : Before(sh, r, k, p) /\ p.guid = x.guid => p.cand <= x.supersedes
                      /\ x.supersedes # 0 =>
                           \E p \in Results : Before(sh, r, k, p) /\ p.guid = x.guid /\ p.cand = x.supersedes
    BY DEF Chained
  <2>1. CASE k \in DOMAIN q
    BY <1>1, <1>4, <2>1 DEF Consistent, Chained
  <2>2. CASE k \notin DOMAIN q
    <3>1. k = Len(q) + 1 /\ x \in fresh /\ x \in Results
      BY <1>1, <1>2, <2>2
    <3>2. \A p \in Results : Before(sh, r, k, p) /\ p.guid = x.guid => p.cand <= x.supersedes
      BY <1>5, <1>6, <3>1
    <3>3. n < x.cand /\ x.supersedes = IF x.guid \in DOMAIN em THEN em[x.guid].cand ELSE 0
      BY <3>1 DEF Brought
    <3>4. CASE x.guid \notin DOMAIN em
      BY <3>1, <3>2, <3>3, <3>4 DEF Results
    <3>5. CASE x.guid \in DOMAIN em
      <4>1. em[x.guid].cand <= n /\ em[x.guid].cand \in Nat /\ x.cand \in Nat
        BY <3>1, <3>5 DEF Consistent, Bounded, Slotted, Results
      <4>2. PICK p \in Results : Shows(sh, q, p) /\ p.guid = x.guid /\ p.cand = em[x.guid].cand
        BY <3>5 DEF Latest
      <4>3. Before(sh, r, k, p)
        BY <1>5, <3>1, <4>2
      <4> QED
        BY <3>2, <3>3, <3>5, <4>1, <4>2, <4>3
    <3> QED
      BY <3>4, <3>5
  <2> QED
    BY <2>1, <2>2
<1>9. Bounded(sh, r, at, m)
  <2>1. ASSUME NEW g \in DOMAIN at PROVE at[g].cand <= m
    <3>1. CASE \E x \in fresh : x.guid = g
      BY <3>1 DEF Brought, Restocked
    <3>2. CASE \A x \in fresh : x.guid # g
      <4>1. g \in DOMAIN em /\ at[g] = em[g]
        BY <3>2 DEF Restocked
      <4> QED
        BY <4>1 DEF Consistent, Bounded, Slotted
    <3> QED
      BY <3>1, <3>2
  <2>2. ASSUME NEW c \in Results, Shows(sh, r, c)
        PROVE  c.guid \in DOMAIN at /\ c.cand <= at[c.guid].cand
    <3>1. CASE c \in fresh
      BY <3>1 DEF Restocked, Results
    <3>2. CASE Shows(sh, q, c)
      <4>1. c.guid \in DOMAIN em /\ c.cand <= em[c.guid].cand
        BY <3>2 DEF Consistent, Bounded
      <4>2. CASE \A x \in fresh : x.guid # c.guid
        BY <4>1, <4>2 DEF Restocked
      <4>3. CASE \E x \in fresh : x.guid = c.guid
        <5>1. PICK x \in fresh : x.guid = c.guid
          BY <4>3
        <5>2. c.cand < x.cand /\ x \in Results
          BY <1>2, <1>6, <3>2
        <5>3. c.guid \in DOMAIN at /\ at[c.guid].cand = x.cand
          BY <4>1, <5>1 DEF Restocked
        <5> QED
          BY <5>2, <5>3 DEF Results
      <4> QED
        BY <4>2, <4>3
    <3> QED
      BY <1>3, <2>2, <3>1, <3>2
  <2> QED
    BY <2>1, <2>2 DEF Bounded
<1>10. Latest(sh, r, at)
  <2> SUFFICES ASSUME NEW g \in DOMAIN at
               PROVE  \E c \in Results : /\ Shows(sh, r, c) /\ c.guid = g /\ c.cand = at[g].cand
                                         /\ PriorityOf[c.indexer] = at[g].priority
    BY DEF Latest
  <2>1. CASE \E x \in fresh : x.guid = g
    BY <1>2, <1>3, <2>1 DEF Restocked
  <2>2. CASE \A x \in fresh : x.guid # g
    <3>1. g \in DOMAIN em /\ at[g] = em[g]
      BY <2>2 DEF Restocked
    <3> QED
      BY <1>3, <3>1 DEF Latest
  <2> QED
    BY <2>1, <2>2
<1> QED
  BY <1>7, <1>8, <1>9, <1>10 DEF Consistent
------------------------------------------------------------------------------
\* Where a fan-out, a leg, an answer, a report can be.
Places == {"idle", "skips", "collect", "report", "over"}

Legs == {"none", "planned", "waiting", "running", "answered", "collected"}

Statuses == {"none", "ok", "timed_out", "failed", "unauthorized", "breaker_open"}

Reports == [answered : Nat, failed : Nat, skipped : Nat]

Fans == [at : Places, pend : Seq(Events), report : Reports]

Rows == [guid : Guids, indexer : Indexers]

\* The states the proofs are about.
SearchTyped ==
  /\ fan \in [Searches -> Fans]
  /\ leg \in [Searches -> [Indexers -> Legs]]
  /\ answer \in [Searches -> [Indexers -> [status : Statuses, guids : SUBSET Guids]]]
  /\ DOMAIN emitted = Searches /\ \A s \in Searches : Slotted(emitted[s])
  /\ out \in [Searches -> Seq(Events)]
  /\ rows \in Seq(Rows)
  /\ shown \in [Searches -> SUBSET Results]
  /\ word \in [Searches -> {"none", "done", "failed"}]

\* Every leg asked is collected.
AllIn(s) ==
  fan[s].at \in {"report", "over"} /\ \A i \in Indexers : leg[s][i] \in {"none", "collected"}

\* The report is on its way.
HasDone(q) == \E k \in DOMAIN q : q[k].kind = "done"

\* Nothing the fan-out had to tell was abandoned.
Whole(s) == fan[s].at \in {"skips", "collect", "report"} \/ HasDone(Stream(s)) \/ word[s] = "done"

\* The report is the last event, and comes when every leg is in.
DoneInv(s) ==
  /\ \A k \in DOMAIN Stream(s) : Stream(s)[k].kind = "done" => k = Len(Stream(s)) /\ AllIn(s)
  /\ word[s] = "done" => Stream(s) = <<>> /\ AllIn(s)
  /\ fan[s].at = "report" => AllIn(s)

\* An answer that was collected.
Counted(s, i) == leg[s][i] = "collected" /\ answer[s][i].status = "ok"

\* A slot has the best priority of the answers that brought its release.
SlotInv(s) ==
  /\ \A i \in Indexers : Counted(s, i) =>
       \A g \in answer[s][i].guids :
         g \in DOMAIN emitted[s] /\ emitted[s][g].priority <= PriorityOf[i]
  /\ \A g \in DOMAIN emitted[s] : \E i \in Indexers : Counted(s, i) /\ g \in answer[s][i].guids

\* The report counts the answers collected, and the failures.
CountInv(s) ==
  /\ fan[s].report.answered = Cardinality({i \in Indexers : Counted(s, i)})
  /\ fan[s].report.answered + fan[s].report.failed
       = Cardinality({i \in Indexers : leg[s][i] = "collected"})

\* The copies of a search agree, and while it told everything so far none is left out.
StreamInv(s) ==
  /\ Consistent(shown[s], Stream(s), emitted[s], Len(rows))
  /\ Whole(s) => Latest(shown[s], Stream(s), emitted[s])

\* An answer has come only to a leg that is answered.
LegInv(s) ==
  \A i \in Indexers : leg[s][i] \notin {"answered", "collected"} => answer[s][i] = NoAnswer

\* What is true of one search.
Honest(s) == LegInv(s) /\ DoneInv(s) /\ SlotInv(s) /\ CountInv(s) /\ StreamInv(s)

\* What is true of all of them at once.
SearchInv == SearchTyped /\ \A s \in Searches : Honest(s)
------------------------------------------------------------------------------
\* The events in the channel come before those a fan-out has yet to send.
LEMMA Joined ==
  ASSUME NEW a \in Seq(Events), NEW b \in Seq(Events)
  PROVE  /\ a \o b \in Seq(Events)
         /\ Len(a \o b) = Len(a) + Len(b) /\ Len(a) \in Nat /\ Len(b) \in Nat
         /\ DOMAIN (a \o b) = 1 .. Len(a) + Len(b)
         /\ \A k \in 1 .. Len(a) + Len(b) :
              (a \o b)[k] = IF k <= Len(a) THEN a[k] ELSE b[k - Len(a)]
<1>1. Len(a) \in Nat /\ Len(b) \in Nat
  BY LenProperties
<1>2. /\ a \o b \in Seq(Events) /\ Len(a \o b) = Len(a) + Len(b)
      /\ \A k \in 1 .. Len(a) + Len(b) :
           (a \o b)[k] = IF k <= Len(a) THEN a[k] ELSE b[k - Len(a)]
  BY ConcatProperties
<1>3. DOMAIN (a \o b) = 1 .. Len(a) + Len(b)
  BY <1>2, LenProperties
<1> QED
  BY <1>1, <1>2, <1>3

\* What a fan-out tells next comes after what is in the channel.
LEMMA Lengthened ==
  ASSUME NEW a \in Seq(Events), NEW b \in Seq(Events)
  PROVE  LET q == a \o <<>>
             r == a \o b
         IN  /\ q \in Seq(Events) /\ r \in Seq(Events)
             /\ Len(q) \in Nat /\ Len(b) \in Nat /\ Len(r) = Len(q) + Len(b)
             /\ \A k \in 1 .. Len(q) : r[k] = q[k]
             /\ \A k \in Len(q) + 1 .. Len(r) :
                  k - Len(q) \in 1 .. Len(b) /\ r[k] = b[k - Len(q)]
<1> DEFINE q == a \o <<>>
           r == a \o b
<1>1. q = a
  BY ConcatEmptySeq
<1>2. /\ r \in Seq(Events) /\ Len(r) = Len(a) + Len(b) /\ Len(a) \in Nat /\ Len(b) \in Nat
      /\ \A k \in 1 .. Len(a) + Len(b) : r[k] = IF k <= Len(a) THEN a[k] ELSE b[k - Len(a)]
  BY Joined
<1> HIDE DEF q, r
<1>3. /\ \A k \in 1 .. Len(a) : r[k] = a[k]
      /\ \A k \in Len(a) + 1 .. Len(r) : k - Len(a) \in 1 .. Len(b) /\ r[k] = b[k - Len(a)]
  <2>1. ASSUME NEW k \in 1 .. Len(a)  PROVE r[k] = a[k]
    BY <1>2
  <2>2. ASSUME NEW k \in Len(a) + 1 .. Len(r)
        PROVE  k - Len(a) \in 1 .. Len(b) /\ r[k] = b[k - Len(a)]
    <3>1. k \in 1 .. Len(a) + Len(b) /\ ~ (k <= Len(a)) /\ k - Len(a) \in 1 .. Len(b)
      BY <1>2
    <3> QED
      BY <1>2, <3>1
  <2> QED
    BY <2>1, <2>2
<1>4. /\ q \in Seq(Events) /\ r \in Seq(Events)
      /\ Len(q) \in Nat /\ Len(b) \in Nat /\ Len(r) = Len(q) + Len(b)
      /\ \A k \in 1 .. Len(q) : r[k] = q[k]
      /\ \A k \in Len(q) + 1 .. Len(r) : k - Len(q) \in 1 .. Len(b) /\ r[k] = b[k - Len(q)]
  BY <1>1, <1>2, <1>3
<1> QED
  BY <1>4 DEF q, r

\* The first of the events brings the copies, the others none.
Brings(b, fresh) ==
  /\ fresh # {} => 0 < Len(b)
  /\ \A k \in 1 .. Len(b) : b[k].results = IF k = 1 THEN fresh ELSE {}

\* The copies of an answer, told after what is in the channel.
LEMMA TellsOf ==
  ASSUME NEW sh \in SUBSET Results, NEW a \in Seq(Events), NEW em, Slotted(em),
         NEW n \in Nat, NEW m \in Nat, n <= m,
         Consistent(sh, a \o <<>>, em, n), Latest(sh, a \o <<>>, em),
         NEW fresh, Brought(em, n, m, fresh), NEW at, Slotted(at), Restocked(em, at, fresh),
         NEW b \in Seq(Events), Brings(b, fresh)
  PROVE  Consistent(sh, a \o b, at, m) /\ Latest(sh, a \o b, at)
<1> DEFINE q == a \o <<>>
           r == a \o b
<1>1. /\ q \in Seq(Events) /\ r \in Seq(Events)
      /\ Len(q) \in Nat /\ Len(b) \in Nat /\ Len(r) = Len(q) + Len(b)
      /\ \A k \in 1 .. Len(q) : r[k] = q[k]
      /\ \A k \in Len(q) + 1 .. Len(r) : k - Len(q) \in 1 .. Len(b) /\ r[k] = b[k - Len(q)]
  BY Lengthened
<1>2. Consistent(sh, q, em, n) /\ Latest(sh, q, em)
  OBVIOUS
<1> HIDE DEF q, r
<1>3. Len(q) <= Len(r) /\ (fresh # {} => Len(q) < Len(r))
  BY <1>1 DEF Brings
<1>4. \A k \in Len(q) + 1 .. Len(r) : r[k].results = IF k = Len(q) + 1 THEN fresh ELSE {}
  <2>1. SUFFICES ASSUME NEW k \in Len(q) + 1 .. Len(r)
                 PROVE  r[k].results = IF k = Len(q) + 1 THEN fresh ELSE {}
    OBVIOUS
  <2>2. /\ k - Len(q) \in 1 .. Len(b) /\ r[k] = b[k - Len(q)]
        /\ k - Len(q) = 1 <=> k = Len(q) + 1
    BY <1>1, <2>1
  <2>3. b[k - Len(q)].results = IF k - Len(q) = 1 THEN fresh ELSE {}
    BY <2>2 DEF Brings
  <2> QED
    BY <2>2, <2>3
<1>5. Follows(q, r, fresh)
  BY <1>1, <1>3, <1>4 DEF Follows
<1>6. q \in Seq(Events) /\ r \in Seq(Events)
  BY <1>1
<1>7. Consistent(sh, r, at, m) /\ Latest(sh, r, at)
  BY <1>2, <1>5, <1>6, ComesAfter
<1> QED
  BY <1>7 DEF r

\* At the report the page is the whole truth.
LEMMA InvSuffices == SearchInv /\ SearchAssumption => ClosingTruth
<1> SUFFICES ASSUME SearchInv, SearchAssumption, NEW s \in Searches, word[s] = "done"
             PROVE  LET brought(g) == {i \in Indexers : answer[s][i].status = "ok" /\ g \in answer[s][i].guids}
                        copies(g) == {c \in shown[s] : c.guid = g}
                        report == fan[s].report
                        asked == {i \in Indexers : leg[s][i] = "collected"}
                    IN /\ \A g \in Guids :
                            IF brought(g) = {} THEN copies(g) = {}
                            ELSE \E c \in copies(g) : /\ copies(g) = {c}
                                                      /\ \A i \in brought(g) : PriorityOf[c.indexer] <= PriorityOf[i]
                       /\ report.answered = Cardinality({i \in asked : answer[s][i].status = "ok"})
                       /\ report.answered + report.failed = Cardinality(asked)
  BY DEF ClosingTruth
<1> DEFINE brought(g) == {i \in Indexers : answer[s][i].status = "ok" /\ g \in answer[s][i].guids}
           copies(g) == {c \in shown[s] : c.guid = g}
           asked == {i \in Indexers : leg[s][i] = "collected"}
<1>1. SearchTyped /\ LegInv(s) /\ DoneInv(s) /\ SlotInv(s) /\ CountInv(s) /\ StreamInv(s)
  BY DEF SearchInv, Honest
<1>2. Stream(s) = <<>> /\ AllIn(s) /\ Whole(s)
  BY <1>1 DEF DoneInv, Whole
<1>3. \A c : Shows(shown[s], Stream(s), c) <=> c \in shown[s]
  BY <1>2 DEF Shows
<1>4. ASSUME NEW i \in Indexers PROVE Counted(s, i) <=> answer[s][i].status = "ok"
  BY <1>1, <1>2 DEF AllIn, LegInv, Counted, NoAnswer
<1>5. shown[s] \in SUBSET Results /\ Slotted(emitted[s])
  BY <1>1 DEF SearchTyped
<1>6. ASSUME NEW g \in Guids
      PROVE  IF brought(g) = {} THEN copies(g) = {}
             ELSE \E c \in copies(g) : /\ copies(g) = {c}
                                       /\ \A i \in brought(g) : PriorityOf[c.indexer] <= PriorityOf[i]
  <2>1. g \in DOMAIN emitted[s] <=> brought(g) # {}
    BY <1>1, <1>4 DEF SlotInv
  <2>2. CASE brought(g) = {}
    <3>1. ASSUME NEW c \in copies(g) PROVE FALSE
      BY <1>1, <1>3, <1>5, <2>1, <2>2, <3>1 DEF StreamInv, Consistent, Bounded
    <3> QED
      BY <2>2, <3>1
  <2>3. CASE brought(g) # {}
    <3>1. PICK c \in Results : /\ c \in shown[s] /\ c.guid = g
                               /\ PriorityOf[c.indexer] = emitted[s][g].priority
      BY <1>1, <1>2, <1>3, <2>1, <2>3 DEF StreamInv, Latest
    <3>2. copies(g) = {c}
      BY <1>1, <3>1 DEF StreamInv, Consistent, Apart
    <3>3. \A i \in brought(g) : PriorityOf[c.indexer] <= PriorityOf[i]
      BY <1>1, <1>4, <3>1 DEF SlotInv
    <3> QED
      BY <2>3, <3>2, <3>3
  <2> QED
    BY <2>2, <2>3
<1>7. {i \in asked : answer[s][i].status = "ok"} = {i \in Indexers : Counted(s, i)}
  BY DEF Counted
<1>8. /\ fan[s].report.answered = Cardinality({i \in asked : answer[s][i].status = "ok"})
      /\ fan[s].report.answered + fan[s].report.failed = Cardinality(asked)
  BY <1>1, <1>7 DEF CountInv
<1> QED
  BY <1>6, <1>8
------------------------------------------------------------------------------
\* A search that nothing touches stays honest when others store rows.
LEMMA Untouched ==
  ASSUME SearchTyped, SearchTyped', NEW s \in Searches, Honest(s),
         fan'[s] = fan[s], leg'[s] = leg[s], answer'[s] = answer[s], emitted'[s] = emitted[s],
         out'[s] = out[s], shown'[s] = shown[s], word'[s] = word[s], Len(rows) <= Len(rows')
  PROVE  Honest(s)'
<1>1. Stream(s)' = Stream(s) /\ Stream(s) \in Seq(Events)
  BY Joined DEF Stream, SearchTyped, Fans
<1>2. /\ Slotted(emitted[s]) /\ shown[s] \in SUBSET Results
      /\ Len(rows) \in Nat /\ Len(rows') \in Nat
  BY LenProperties DEF SearchTyped
<1>3. AllIn(s)' = AllIn(s) /\ Whole(s)' = Whole(s)
  BY <1>1 DEF AllIn, Whole
<1>4. LegInv(s)' /\ DoneInv(s)' /\ SlotInv(s)' /\ CountInv(s)'
  BY <1>1, <1>3 DEF Honest, LegInv, DoneInv, SlotInv, CountInv, Counted
<1>5. StreamInv(s)'
  BY <1>1, <1>2, <1>3, MoreRows DEF Honest, StreamInv
<1> QED
  BY <1>4, <1>5 DEF Honest

\* One search's step: the others' state stays.
LEMMA OneSearch ==
  ASSUME SearchInv, SearchTyped', NEW s \in Searches,
         \A t \in Searches \ {s} :
           /\ fan'[t] = fan[t] /\ leg'[t] = leg[t] /\ answer'[t] = answer[t]
           /\ emitted'[t] = emitted[t] /\ out'[t] = out[t] /\ shown'[t] = shown[t]
           /\ word'[t] = word[t],
         Len(rows) <= Len(rows'), Honest(s)'
  PROVE  SearchInv'
<1>1. ASSUME NEW t \in Searches PROVE Honest(t)'
  <2>1. CASE t = s
    BY <2>1
  <2>2. CASE t # s
    BY <2>2, Untouched DEF SearchInv
  <2> QED
    BY <2>1, <2>2
<1> QED
  BY <1>1 DEF SearchInv

\* What is counted, and what the slots say of it, stays while no answer is collected.
LEMMA SameCollected ==
  ASSUME NEW s \in Searches, SlotInv(s), CountInv(s),
         fan'[s].report = fan[s].report, emitted'[s] = emitted[s],
         \A i \in Indexers :
           /\ leg'[s][i] = "collected" <=> leg[s][i] = "collected"
           /\ leg[s][i] = "collected" => answer'[s][i] = answer[s][i]
  PROVE  SlotInv(s)' /\ CountInv(s)'
<1>1. \A i \in Indexers : Counted(s, i)' <=> Counted(s, i)
  BY DEF Counted
<1>2. {i \in Indexers : Counted(s, i)'} = {i \in Indexers : Counted(s, i)}
  BY <1>1
<1>3. {i \in Indexers : leg'[s][i] = "collected"} = {i \in Indexers : leg[s][i] = "collected"}
  OBVIOUS
<1>4. CountInv(s)'
  BY <1>2, <1>3 DEF CountInv
<1>5. \A i \in Indexers : Counted(s, i) => answer'[s][i] = answer[s][i]
  BY DEF Counted
<1>6. SlotInv(s)'
  BY <1>1, <1>5 DEF SlotInv
<1> QED
  BY <1>4, <1>6

\* What a search has to tell stays as true while nothing is told or added.
LEMMA SameStream ==
  ASSUME NEW s \in Searches, StreamInv(s), Stream(s)' = Stream(s),
         shown'[s] = shown[s], emitted'[s] = emitted[s], rows' = rows, Whole(s)' => Whole(s)
  PROVE  StreamInv(s)'
BY DEF StreamInv

\* Before the report nothing says done.
LEMMA NotDone ==
  ASSUME NEW s \in Searches, DoneInv(s), ~ AllIn(s)
  PROVE  word[s] # "done" /\ fan[s].at # "report" /\ ~ HasDone(Stream(s))
BY DEF DoneInv, HasDone

\* A step of the legs alone, of which none is collected by it.
LEMMA LegsMove ==
  ASSUME SearchInv, SearchTyped', NEW s \in Searches,
         fan' = fan, emitted' = emitted, out' = out, rows' = rows, shown' = shown, word' = word,
         \A t \in Searches \ {s} : leg'[t] = leg[t] /\ answer'[t] = answer[t],
         NEW i \in Indexers, leg[s][i] \in {"waiting", "running"},
         \A j \in Indexers \ {i} : leg'[s][j] = leg[s][j] /\ answer'[s][j] = answer[s][j],
         \/ leg'[s][i] = "running" /\ answer'[s][i] = answer[s][i]
         \/ leg'[s][i] = "answered"
  PROVE  SearchInv'
<1>1. Honest(s) /\ Len(rows) <= Len(rows')
  BY LenProperties DEF SearchInv, SearchTyped
<1>2. ~ AllIn(s)
  BY DEF AllIn
<1>3. Stream(s)' = Stream(s) /\ Whole(s)' = Whole(s)
  BY DEF Stream, Whole
<1>4. LegInv(s)'
  BY <1>1 DEF Honest, LegInv
<1>5. DoneInv(s)'
  BY <1>1, <1>2, <1>3, NotDone DEF Honest, DoneInv, HasDone
<1>6. SlotInv(s)' /\ CountInv(s)'
  BY <1>1, SameCollected DEF Honest
<1>7. StreamInv(s)'
  BY <1>1, <1>3, SameStream DEF Honest
<1>8. Honest(s)'
  BY <1>4, <1>5, <1>6, <1>7 DEF Honest
<1> QED
  BY <1>1, <1>8, OneSearch

\* An answer comes to a leg.
LEMMA AnswerComes ==
  ASSUME SearchInv, NEW s \in Searches, NEW i \in Indexers,
         leg[s][i] \in {"waiting", "running"},
         NEW a \in [status : Statuses, guids : SUBSET Guids], Answered(s, i, a),
         UNCHANGED <<fan, emitted, out, rows, shown, word>>
  PROVE  SearchInv'
<1>1. SearchTyped
  BY DEF SearchInv
<1>2. leg' = [leg EXCEPT ![s][i] = "answered"] /\ answer' = [answer EXCEPT ![s][i] = a]
  BY DEF Answered
<1>3. SearchTyped'
  BY <1>1, <1>2 DEF SearchTyped, Legs
<1>4. \A t \in Searches \ {s} : leg'[t] = leg[t] /\ answer'[t] = answer[t]
  BY <1>2 DEF SearchTyped
<1>5. /\ \A j \in Indexers \ {i} : leg'[s][j] = leg[s][j] /\ answer'[s][j] = answer[s][j]
      /\ leg'[s][i] = "answered"
  BY <1>1, <1>2 DEF SearchTyped
<1> QED
  BY <1>3, <1>4, <1>5, LegsMove

\* A leg that takes its slot, or is answered for want of one, or by Prowlarr.
LEMMA AskSteps ==
  ASSUME SearchInv, NEW s \in Searches, NEW i \in Indexers,
         Ask(s, i)
  PROVE  SearchInv'
<1>1. CASE TakeSlot(s, i)
  <2>1. CASE Admits(breakers[i])
    <3>1. /\ leg[s][i] = "waiting" /\ leg' = [leg EXCEPT ![s][i] = "running"]
          /\ UNCHANGED <<answer, fan, emitted, out, rows, shown, word>>
      BY <1>1, <2>1 DEF TakeSlot
    <3>2. SearchTyped /\ SearchTyped'
      BY <3>1 DEF SearchInv, SearchTyped, Legs
    <3> QED
      BY <3>1, <3>2, LegsMove DEF SearchTyped
  <2>2. CASE ~ Admits(breakers[i])
    <3>1. /\ leg[s][i] = "waiting" /\ Answered(s, i, [NoAnswer EXCEPT !.status = "breaker_open"])
          /\ UNCHANGED <<fan, emitted, out, rows, shown, word>>
      BY <1>1, <2>2 DEF TakeSlot
    <3>2. [NoAnswer EXCEPT !.status = "breaker_open"] \in [status : Statuses, guids : SUBSET Guids]
      BY DEF NoAnswer, Statuses
    <3> QED
      BY <3>1, <3>2, AnswerComes
  <2> QED
    BY <2>1, <2>2
<1>2. CASE NeverAsked(s, i)
  <2>1. /\ leg[s][i] = "waiting" /\ Answered(s, i, [NoAnswer EXCEPT !.status = "timed_out"])
        /\ UNCHANGED <<fan, emitted, out, rows, shown, word>>
    BY <1>2 DEF NeverAsked
  <2>2. [NoAnswer EXCEPT !.status = "timed_out"] \in [status : Statuses, guids : SUBSET Guids]
    BY DEF NoAnswer, Statuses
  <2> QED
    BY <2>1, <2>2, AnswerComes
<1>3. ASSUME NEW status \in {"ok", "timed_out", "failed", "unauthorized"}, NEW guids \in SUBSET Guids,
             LegEnds(s, i, status, guids)
      PROVE  SearchInv'
  <2>1. /\ leg[s][i] = "running" /\ Answered(s, i, [status |-> status, guids |-> guids])
        /\ UNCHANGED <<fan, emitted, out, rows, shown, word>>
    BY <1>3 DEF LegEnds
  <2>2. [status |-> status, guids |-> guids] \in [status : Statuses, guids : SUBSET Guids]
    BY DEF Statuses
  <2> QED
    BY <2>1, <2>2, AnswerComes
<1> QED
  BY <1>1, <1>2, <1>3 DEF Ask
------------------------------------------------------------------------------
\* What a report and an event are, once.
LEMMA EventTyped ==
  /\ Event("indexer_started") \in Events /\ Event("indexer_done") \in Events
  /\ Event("done") \in Events
  /\ \A kind : Event(kind).results = {} /\ Event(kind).kind = kind
BY DEF Event, Events

\* A fan-out that tells of no copy, and what of it the collected legs say stays.
LEMMA Tells ==
  ASSUME SearchInv, SearchTyped', NEW s \in Searches, fan[s].pend = <<>>, Whole(s),
         out' = out, emitted' = emitted, shown' = shown, rows' = rows,
         \A k \in 1 .. Len(fan'[s].pend) : fan'[s].pend[k].results = {}
  PROVE  StreamInv(s)'
<1>1. /\ SearchTyped /\ StreamInv(s) /\ Slotted(emitted[s]) /\ shown[s] \in SUBSET Results
      /\ Len(rows) \in Nat
  BY LenProperties DEF SearchInv, SearchTyped, Honest
<1>2. out[s] \in Seq(Events) /\ fan'[s].pend \in Seq(Events)
  BY <1>1 DEF SearchTyped, Fans
<1>3. /\ Consistent(shown[s], out[s] \o <<>>, emitted[s], Len(rows))
      /\ Latest(shown[s], out[s] \o <<>>, emitted[s])
  BY <1>1 DEF StreamInv, Stream
<1>4. /\ Brought(emitted[s], Len(rows), Len(rows), {})
      /\ Restocked(emitted[s], emitted[s], {})
  BY DEF Brought, Restocked
<1>5. PICK b \in Seq(Events) : b = fan'[s].pend
  BY <1>2
<1>6. /\ Consistent(shown[s], out[s] \o b, emitted[s], Len(rows))
      /\ Latest(shown[s], out[s] \o b, emitted[s])
  <2>1. Brings(b, {})
    BY <1>5 DEF Brings
  <2>2. Len(rows) <= Len(rows)
    BY <1>1
  <2> QED
    BY <1>1, <1>2, <1>3, <1>4, <2>1, <2>2, TellsOf
<1> QED
  BY <1>5, <1>6 DEF StreamInv, Stream

\* A number of the same event.
LEMMA Same ==
  ASSUME NEW e \in Events, NEW n \in Nat
  PROVE  LET q == [k \in 1 .. n |-> e]
         IN  q \in Seq(Events) /\ Len(q) = n /\ \A k \in 1 .. Len(q) : q[k] = e
OBVIOUS

\* How many of the indexers.
LEMMA HowMany ==
  ASSUME SearchAssumption, NEW S \in SUBSET Indexers
  PROVE  IsFiniteSet(S) /\ Cardinality(S) \in Nat
<1>1. IsFiniteSet(S)
  BY FS_Subset DEF SearchAssumption
<1> QED
  BY <1>1, FS_CardinalityType

\* Where a fan-out is and what it has yet to tell.
LEMMA FanMoves ==
  ASSUME SearchTyped, NEW s \in Searches, NEW at \in Places, NEW pend \in Seq(Events),
         fan' = [fan EXCEPT ![s].at = at, ![s].pend = pend]
  PROVE  /\ fan' \in [Searches -> Fans]
         /\ fan'[s].at = at /\ fan'[s].pend = pend /\ fan'[s].report = fan[s].report
         /\ \A t \in Searches \ {s} : fan'[t] = fan[t]
<1>1. fan[s] \in Fans
  BY DEF SearchTyped
<1> DEFINE f == [fan[s] EXCEPT !.at = at, !.pend = pend]
<1>2. f \in Fans
  BY <1>1 DEF Fans
<1>3. f.at = at /\ f.pend = pend /\ f.report = fan[s].report
  BY <1>1
<1>4. fan' = [fan EXCEPT ![s] = f]
  BY DEF SearchTyped
<1> HIDE DEF f
<1>5. fan' \in [Searches -> Fans]
  BY <1>2, <1>4 DEF SearchTyped
<1>6. fan'[s] = f /\ \A t \in Searches \ {s} : fan'[t] = fan[t]
  BY <1>4 DEF SearchTyped
<1> QED
  BY <1>3, <1>5, <1>6

\* The fan-out has said what it skipped, and asks the rest.
LEMMA LaunchStep ==
  ASSUME SearchAssumption, SearchInv, NEW s \in Searches, Launch(s)
  PROVE  SearchInv'
<1> DEFINE planned == {i \in Indexers : leg[s][i] = "planned"}
           told == [k \in 1 .. Cardinality(planned) |-> Event("indexer_started")]
<1>1. SearchTyped /\ Honest(s)
  BY DEF SearchInv
<1>2. /\ fan[s].at = "skips" /\ fan[s].pend = <<>>
      /\ leg' = [leg EXCEPT ![s] = [i \in Indexers |-> IF i \in planned THEN "waiting" ELSE @[i]]]
      /\ fan' = [fan EXCEPT ![s].at = "collect", ![s].pend = told]
      /\ UNCHANGED <<answer, emitted, out, rows, shown, word>>
  BY DEF Launch
<1>3. told \in Seq(Events) /\ \A k \in 1 .. Len(told) : told[k] = Event("indexer_started")
  BY HowMany, EventTyped, Same
<1> HIDE DEF told
<1>4. SearchTyped'
  <2>1. fan' \in [Searches -> Fans]
    BY <1>1, <1>2, <1>3, FanMoves DEF Places
  <2>2. leg' \in [Searches -> [Indexers -> Legs]]
    BY <1>1, <1>2 DEF SearchTyped, Legs
  <2> QED
    BY <1>1, <1>2, <2>1, <2>2 DEF SearchTyped
<1>5. /\ fan'[s].at = "collect" /\ fan'[s].pend = told /\ fan'[s].report = fan[s].report
      /\ \A i \in Indexers : leg'[s][i] = IF leg[s][i] = "planned" THEN "waiting" ELSE leg[s][i]
  <2>1. fan'[s].at = "collect" /\ fan'[s].pend = told /\ fan'[s].report = fan[s].report
    BY <1>1, <1>2, <1>3, FanMoves DEF Places
  <2> QED
    BY <1>1, <1>2, <2>1 DEF SearchTyped
<1>6. ~ AllIn(s) /\ Whole(s)
  BY <1>2 DEF AllIn, Whole
<1>7. word[s] # "done" /\ ~ HasDone(Stream(s))
  BY <1>1, <1>6, NotDone DEF Honest
<1>8. StreamInv(s)'
  <2>1. \A k \in 1 .. Len(fan'[s].pend) : fan'[s].pend[k].results = {}
    BY <1>3, <1>5, EventTyped
  <2> QED
    BY <1>2, <1>4, <1>6, <2>1, Tells
<1>9. LegInv(s)'
  BY <1>1, <1>2, <1>5 DEF Honest, LegInv
<1>10. SlotInv(s)' /\ CountInv(s)'
  <2>1. \A i \in Indexers : leg'[s][i] = "collected" <=> leg[s][i] = "collected"
    BY <1>5
  <2> QED
    BY <1>1, <1>2, <1>5, <2>1, SameCollected DEF Honest
<1>11. DoneInv(s)'
  <2>1. ASSUME NEW k \in DOMAIN Stream(s)' PROVE Stream(s)'[k].kind # "done"
    <3>1. /\ Stream(s) = out[s] \o <<>> /\ Stream(s)' = out[s] \o told
          /\ out[s] \in Seq(Events)
      BY <1>1, <1>2, <1>5 DEF Stream, SearchTyped
    <3>2. Stream(s) = out[s] /\ DOMAIN out[s] = 1 .. Len(out[s])
      BY <3>1, ConcatEmptySeq, LenProperties
    <3>3. k \in 1 .. Len(out[s]) + Len(told) /\ Len(out[s]) \in Nat /\ Len(told) \in Nat
      BY <1>3, <2>1, <3>1, Joined
    <3>4. CASE k <= Len(out[s])
      <4>1. Stream(s)'[k] = out[s][k] /\ k \in DOMAIN out[s]
        BY <1>3, <3>1, <3>2, <3>3, <3>4, Joined
      <4> QED
        BY <1>7, <3>2, <4>1 DEF HasDone
    <3>5. CASE ~ (k <= Len(out[s]))
      <4>1. Stream(s)'[k] = told[k - Len(out[s])] /\ k - Len(out[s]) \in 1 .. Len(told)
        BY <1>3, <3>1, <3>3, <3>5, Joined
      <4> QED
        BY <1>3, <4>1, EventTyped
    <3> QED
      BY <3>4, <3>5
  <2> QED
    BY <1>2, <1>5, <1>7, <2>1 DEF DoneInv
<1>12. Honest(s)'
  BY <1>8, <1>9, <1>10, <1>11 DEF Honest
<1>13. Len(rows) <= Len(rows')
  BY <1>1, <1>2, LenProperties DEF SearchTyped
<1> QED
  BY <1>1, <1>2, <1>4, <1>12, <1>13, OneSearch DEF SearchTyped

\* An event that goes from the fan-out to the channel keeps its place.
LEMMA Passed ==
  ASSUME NEW a \in Seq(Events), NEW b \in Seq(Events), b # <<>>
  PROVE  /\ Append(a, Head(b)) \in Seq(Events) /\ Tail(b) \in Seq(Events)
         /\ Append(a, Head(b)) \o Tail(b) = a \o b
<1> DEFINE e == Head(b)
           c == Append(a, e)
           d == Tail(b)
<1>1. /\ e \in Events /\ d \in Seq(Events) /\ Len(d) = Len(b) - 1 /\ Len(b) \in Nat \ {0}
      /\ \A i \in 1 .. Len(d) : d[i] = b[i + 1]
      /\ e = b[1]
  BY HeadTailProperties, EmptySeq
<1>2. /\ c \in Seq(Events) /\ Len(c) = Len(a) + 1 /\ Len(a) \in Nat
      /\ \A i \in 1 .. Len(a) : c[i] = a[i]
      /\ c[Len(a) + 1] = e
  BY <1>1, AppendProperties, LenProperties
<1> HIDE DEF c, d, e
<1>3. /\ c \o d \in Seq(Events) /\ Len(c \o d) = Len(c) + Len(d)
      /\ \A k \in 1 .. Len(c) + Len(d) :
           (c \o d)[k] = IF k <= Len(c) THEN c[k] ELSE d[k - Len(c)]
  BY <1>1, <1>2, Joined
<1>4. /\ a \o b \in Seq(Events) /\ Len(a \o b) = Len(a) + Len(b)
      /\ \A k \in 1 .. Len(a) + Len(b) :
           (a \o b)[k] = IF k <= Len(a) THEN a[k] ELSE b[k - Len(a)]
  BY Joined
<1>5. Len(c \o d) = Len(a \o b)
  BY <1>1, <1>2, <1>3, <1>4
<1>6. ASSUME NEW k \in 1 .. Len(c \o d)  PROVE (c \o d)[k] = (a \o b)[k]
  <2>1. CASE k <= Len(a)
    BY <1>1, <1>2, <1>3, <1>4, <2>1
  <2>2. CASE k = Len(a) + 1
    BY <1>1, <1>2, <1>3, <1>4, <2>2
  <2>3. CASE k > Len(a) + 1
    <3>1. (c \o d)[k] = d[k - (Len(a) + 1)] /\ k - (Len(a) + 1) \in 1 .. Len(d)
      BY <1>1, <1>2, <1>3, <2>3
    <3>2. (a \o b)[k] = b[k - Len(a)]
      BY <1>1, <1>2, <1>3, <1>4, <2>3
    <3>3. k - (Len(a) + 1) + 1 = k - Len(a)
      BY <1>2
    <3> QED
      BY <1>1, <3>1, <3>2, <3>3
  <2> QED
    BY <1>1, <1>2, <1>3, <2>1, <2>2, <2>3
<1>7. c \o d = a \o b
  BY <1>3, <1>4, <1>5, <1>6, SeqEqual
<1> QED
  BY <1>1, <1>2, <1>7 DEF c, d, e

\* What the pump takes is the first event there is to tell.
LEMMA Taken ==
  ASSUME NEW a \in Seq(Events), NEW b \in Seq(Events), a # <<>>
  PROVE  /\ Tail(a) \in Seq(Events) /\ Head(a) = (a \o b)[1] /\ a \o b # <<>>
         /\ a \o b \in Seq(Events)
         /\ Tail(a) \o b = Tail(a \o b) /\ Tail(a) \o b \in Seq(Events)
<1> DEFINE c == Tail(a)
           q == a \o b
           t == Tail(q)
<1>1. /\ c \in Seq(Events) /\ Len(c) = Len(a) - 1 /\ Len(a) \in Nat \ {0}
      /\ \A i \in 1 .. Len(c) : c[i] = a[i + 1]
      /\ Head(a) = a[1]
  BY HeadTailProperties, EmptySeq
<1>2. /\ q \in Seq(Events) /\ Len(q) = Len(a) + Len(b) /\ Len(b) \in Nat
      /\ \A k \in 1 .. Len(a) + Len(b) : q[k] = IF k <= Len(a) THEN a[k] ELSE b[k - Len(a)]
  BY Joined
<1>3. q # <<>> /\ q[1] = a[1]
  <2>1. Len(q) # 0
    BY <1>1, <1>2
  <2>2. 1 \in 1 .. Len(a) + Len(b) /\ 1 <= Len(a)
    BY <1>1, <1>2
  <2>3. q[1] = a[1]
    BY <1>2, <2>2
  <2> QED
    BY <2>1, <2>3, EmptySeq
<1>4. /\ t \in Seq(Events) /\ Len(t) = Len(q) - 1
      /\ \A i \in 1 .. Len(t) : t[i] = q[i + 1]
  BY <1>2, <1>3, HeadTailProperties
<1>5. /\ c \o b \in Seq(Events) /\ Len(c \o b) = Len(c) + Len(b)
      /\ \A k \in 1 .. Len(c) + Len(b) :
           (c \o b)[k] = IF k <= Len(c) THEN c[k] ELSE b[k - Len(c)]
  BY <1>1, Joined
<1> HIDE DEF c, q, t
<1>6. Len(c \o b) = Len(t)
  BY <1>1, <1>2, <1>4, <1>5
<1>7. ASSUME NEW k \in 1 .. Len(c \o b)  PROVE (c \o b)[k] = t[k]
  <2>1. t[k] = q[k + 1]
    BY <1>4, <1>6
  <2>2. CASE k <= Len(c)
    <3>1. (c \o b)[k] = a[k + 1]
      BY <1>1, <1>2, <1>5, <2>2
    <3>2. q[k + 1] = a[k + 1]
      BY <1>1, <1>2, <1>5, <2>2
    <3> QED
      BY <2>1, <3>1, <3>2
  <2>3. CASE ~ (k <= Len(c))
    <3>1. (c \o b)[k] = b[k - Len(c)]
      BY <1>1, <1>2, <1>5, <2>3
    <3>2. q[k + 1] = b[k + 1 - Len(a)]
      BY <1>1, <1>2, <1>5, <2>3
    <3>3. k + 1 - Len(a) = k - Len(c)
      BY <1>1
    <3> QED
      BY <2>1, <3>1, <3>2, <3>3
  <2> QED
    BY <2>2, <2>3
<1>8. c \o b = t
  BY <1>4, <1>5, <1>6, <1>7, SeqEqual
<1> QED
  BY <1>1, <1>2, <1>3, <1>5, <1>8 DEF c, q, t

\* A step that leaves what a search has to tell as it is, and its legs.
LEMMA SameTold ==
  ASSUME SearchInv, SearchTyped', NEW s \in Searches,
         \A t \in Searches \ {s} :
           fan'[t] = fan[t] /\ out'[t] = out[t] /\ word'[t] = word[t],
         UNCHANGED <<leg, answer, emitted, rows, shown>>,
         fan'[s].report = fan[s].report, Stream(s)' = Stream(s),
         word'[s] # "done" \/ word'[s] = word[s],
         fan'[s].at = fan[s].at \/ (AllIn(s) /\ fan'[s].at = "over")
  PROVE  SearchInv'
<1>1. SearchTyped /\ Honest(s)
  BY DEF SearchInv
<1>2. AllIn(s) => AllIn(s)'
  BY DEF AllIn
<1>3. DoneInv(s)'
  BY <1>1, <1>2 DEF Honest, DoneInv
<1>4. Whole(s)' => Whole(s)
  BY <1>1 DEF Honest, Whole, AllIn, DoneInv
<1>5. StreamInv(s)'
  BY <1>1, <1>4, SameStream DEF Honest
<1>6. SlotInv(s)' /\ CountInv(s)' /\ LegInv(s)'
  BY <1>1, SameCollected DEF Honest, LegInv
<1>7. Honest(s)'
  BY <1>3, <1>5, <1>6 DEF Honest
<1>8. Len(rows) <= Len(rows')
  BY <1>1, LenProperties DEF SearchTyped
<1> QED
  BY <1>7, <1>8, OneSearch

\* The channel takes an event.
LEMMA EmitStep ==
  ASSUME SearchInv, NEW s \in Searches, Emit(s)
  PROVE  SearchInv'
<1> DEFINE a == out[s]
           b == fan[s].pend
<1>1. SearchTyped
  BY DEF SearchInv
<1>2. a \in Seq(Events) /\ b \in Seq(Events) /\ b # <<>> /\ fan[s].at \in Places
  BY <1>1 DEF SearchTyped, Emit, Fans
<1>3. /\ out' = [out EXCEPT ![s] = Append(a, Head(b))]
      /\ fan' = [fan EXCEPT ![s].at = fan[s].at, ![s].pend = Tail(b)]
      /\ UNCHANGED <<leg, answer, emitted, rows, shown, word>>
  BY <1>1 DEF Emit, SearchTyped
<1>4. /\ Append(a, Head(b)) \in Seq(Events) /\ Tail(b) \in Seq(Events)
      /\ Append(a, Head(b)) \o Tail(b) = a \o b
  BY <1>2, Passed
<1>5. /\ fan' \in [Searches -> Fans]
      /\ fan'[s].at = fan[s].at /\ fan'[s].pend = Tail(b) /\ fan'[s].report = fan[s].report
      /\ \A t \in Searches \ {s} : fan'[t] = fan[t]
  BY <1>1, <1>2, <1>3, <1>4, FanMoves
<1>6. /\ out' \in [Searches -> Seq(Events)] /\ out'[s] = Append(a, Head(b))
      /\ \A t \in Searches \ {s} : out'[t] = out[t]
  BY <1>1, <1>3, <1>4 DEF SearchTyped
<1>7. SearchTyped'
  BY <1>1, <1>3, <1>5, <1>6 DEF SearchTyped
<1>8. Stream(s)' = Stream(s)
  BY <1>4, <1>5, <1>6 DEF Stream
<1> QED
  BY <1>3, <1>5, <1>6, <1>7, <1>8, SameTold

\* The channel closes.
LEMMA CloseStep ==
  ASSUME SearchInv, NEW s \in Searches, CloseOut(s)
  PROVE  SearchInv'
<1>1. SearchTyped /\ Honest(s)
  BY DEF SearchInv
<1>2. fan[s].at = "report" /\ fan[s].pend \in Seq(Events)
  BY <1>1 DEF CloseOut, SearchTyped
<1>3. /\ fan' = [fan EXCEPT ![s].at = "over", ![s].pend = fan[s].pend]
      /\ UNCHANGED <<leg, answer, emitted, out, rows, shown, word>>
  BY <1>1 DEF CloseOut, SearchTyped
<1>4. /\ fan' \in [Searches -> Fans]
      /\ fan'[s].at = "over" /\ fan'[s].pend = fan[s].pend /\ fan'[s].report = fan[s].report
      /\ \A t \in Searches \ {s} : fan'[t] = fan[t]
  BY <1>1, <1>2, <1>3, FanMoves DEF Places
<1>5. SearchTyped'
  BY <1>1, <1>3, <1>4 DEF SearchTyped
<1>6. Stream(s)' = Stream(s) /\ AllIn(s)
  BY <1>1, <1>2, <1>3, <1>4 DEF Stream, Honest, DoneInv
<1> QED
  BY <1>3, <1>4, <1>5, <1>6, SameTold

\* The pump stops without a last word, or with one of failure; time passes.
LEMMA QuietSteps ==
  ASSUME SearchInv, NEW s \in Searches, PumpClosed(s) \/ PumpLate(s) \/ Expire(s)
  PROVE  SearchInv'
<1>1. SearchTyped
  BY DEF SearchInv
<1>2. /\ word' = word \/ word' = [word EXCEPT ![s] = "failed"]
      /\ UNCHANGED <<leg, answer, emitted, rows, shown, fan, out>>
  BY DEF PumpClosed, PumpLate, Expire
<1>3. SearchTyped'
  BY <1>1, <1>2 DEF SearchTyped
<1>4. Stream(s)' = Stream(s)
  BY <1>2 DEF Stream
<1>5. /\ word'[s] # "done" \/ word'[s] = word[s]
      /\ \A t \in Searches \ {s} : word'[t] = word[t]
  BY <1>1, <1>2 DEF SearchTyped
<1> QED
  BY <1>2, <1>3, <1>4, <1>5, SameTold

\* What is in the channel is the beginning of what there is to tell, and all of it when it
\* has the last event.
LEMMA Beginning ==
  ASSUME NEW a \in Seq(Events), NEW b \in Seq(Events)
  PROVE  /\ a \o b \in Seq(Events) /\ Len(a) <= Len(a \o b)
         /\ \A k \in 1 .. Len(a) : (a \o b)[k] = a[k]
         /\ \A k \in DOMAIN a : k \in DOMAIN (a \o b) /\ (a \o b)[k] = a[k]
         /\ \A k \in DOMAIN a : k = Len(a \o b) => k = Len(a) /\ a = a \o b
<1> DEFINE q == a \o b
<1>1. /\ q \in Seq(Events) /\ Len(q) = Len(a) + Len(b) /\ Len(a) \in Nat /\ Len(b) \in Nat
      /\ DOMAIN q = 1 .. Len(a) + Len(b)
      /\ \A k \in 1 .. Len(a) + Len(b) : q[k] = IF k <= Len(a) THEN a[k] ELSE b[k - Len(a)]
  BY Joined
<1>2. DOMAIN a = 1 .. Len(a)
  BY LenProperties
<1> HIDE DEF q
<1>3. \A k \in 1 .. Len(a) : q[k] = a[k] /\ k \in DOMAIN q
  BY <1>1
<1>4. ASSUME NEW k \in DOMAIN a, k = Len(q)  PROVE k = Len(a) /\ a = q
  <2>1. Len(q) = Len(a) + Len(b) /\ Len(a) \in Nat /\ Len(b) \in Nat
    BY <1>1
  <2>2. k \in 1 .. Len(a)
    BY <1>2
  <2>3. k = Len(a) /\ Len(a) = Len(q)
    BY <1>4, <2>1, <2>2
  <2> QED
    BY <1>1, <1>3, <2>3, SeqEqual
<1>5. Len(a) <= Len(q)
  BY <1>1
<1>6. \A k \in DOMAIN a : k \in DOMAIN q /\ q[k] = a[k]
  BY <1>2, <1>3
<1> QED
  BY <1>1, <1>3, <1>4, <1>5, <1>6 DEF q

\* The fan-out gives up, and what it had not sent is told to no one.
LEMMA AbandonStep ==
  ASSUME SearchInv, NEW s \in Searches, Abandon(s)
  PROVE  SearchInv'
<1> DEFINE a == out[s]
           b == fan[s].pend
<1>1. SearchTyped /\ Honest(s)
  BY DEF SearchInv
<1>2. a \in Seq(Events) /\ b \in Seq(Events) /\ <<>> \in Seq(Events)
  BY <1>1, EmptySeq DEF SearchTyped, Fans
<1>3. /\ fan' = [fan EXCEPT ![s].at = "over", ![s].pend = <<>>]
      /\ UNCHANGED <<leg, answer, emitted, out, rows, shown, word>>
  BY DEF Abandon
<1>4. /\ fan' \in [Searches -> Fans]
      /\ fan'[s].at = "over" /\ fan'[s].pend = <<>> /\ fan'[s].report = fan[s].report
      /\ \A t \in Searches \ {s} : fan'[t] = fan[t]
  BY <1>1, <1>2, <1>3, FanMoves DEF Places
<1>5. SearchTyped'
  BY <1>1, <1>3, <1>4 DEF SearchTyped
<1>6. Stream(s) = a \o b /\ Stream(s)' = a
  BY <1>2, <1>3, <1>4, ConcatEmptySeq DEF Stream
<1> HIDE DEF a, b
\* An event that says done is the last of all, so nothing is lost.
<1>7. ASSUME NEW k \in DOMAIN a, a[k].kind = "done"
      PROVE  k = Len(a) /\ a = a \o b /\ AllIn(s)
  <2>1. k \in DOMAIN (a \o b) /\ (a \o b)[k] = a[k]
    BY <1>2, Beginning
  <2>2. k = Len(a \o b) /\ AllIn(s)
    BY <1>1, <1>6, <1>7, <2>1 DEF Honest, DoneInv
  <2>3. k = Len(a) /\ a = a \o b
    BY <1>2, <2>2, Beginning
  <2> QED
    BY <2>2, <2>3
<1>8. DoneInv(s)'
  <2>1. AllIn(s) => AllIn(s)'
    BY <1>3, <1>4 DEF AllIn
  <2>2. word[s] = "done" => a = <<>> /\ AllIn(s)
    <3>1. SUFFICES ASSUME word[s] = "done" PROVE a = <<>> /\ AllIn(s)
      OBVIOUS
    <3>2. a \o b = <<>> /\ AllIn(s)
      BY <1>1, <1>6, <3>1 DEF Honest, DoneInv
    <3>3. a = <<>>
      BY <1>2, <3>2, ConcatEqualIffEmpty
    <3> QED
      BY <3>2, <3>3
  <2> QED
    BY <1>3, <1>4, <1>6, <1>7, <2>1, <2>2 DEF DoneInv
<1>9. StreamInv(s)'
  <2>1. Consistent(shown[s], a, emitted[s], Len(rows))
    <3>1. Consistent(shown[s], a \o b, emitted[s], Len(rows)) /\ shown[s] \in SUBSET Results
      BY <1>1, <1>6 DEF Honest, StreamInv, SearchTyped
    <3>2. Len(rows) \in Nat
      BY <1>1, LenProperties DEF SearchTyped
    <3>3. /\ a \o b \in Seq(Events) /\ Len(a) <= Len(a \o b)
          /\ \A k \in 1 .. Len(a) : a[k] = (a \o b)[k]
      BY <1>2, Beginning
    <3> QED
      BY <1>2, <3>1, <3>2, <3>3, CutShort
  <2>2. ASSUME Whole(s)' PROVE Latest(shown[s], a, emitted[s])
    <3>1. HasDone(a) \/ word[s] = "done"
      BY <1>3, <1>4, <1>6, <2>2 DEF Whole
    <3>2. a = a \o b
      <4>1. CASE HasDone(a)
        BY <1>7, <4>1 DEF HasDone
      <4>2. CASE word[s] = "done"
        <5>1. a \o b = <<>>
          BY <1>1, <1>6, <4>2 DEF Honest, DoneInv
        <5> QED
          BY <1>2, <5>1, ConcatEqualIffEmpty
      <4> QED
        BY <3>1, <4>1, <4>2
    <3>3. Whole(s)
      BY <1>6, <3>1, <3>2 DEF Whole
    <3> QED
      BY <1>1, <1>6, <3>2, <3>3 DEF Honest, StreamInv
  <2> QED
    BY <1>3, <1>6, <2>1, <2>2 DEF StreamInv
<1>10. SlotInv(s)' /\ CountInv(s)' /\ LegInv(s)'
  BY <1>1, <1>3, <1>4, SameCollected DEF Honest, LegInv
<1>11. Honest(s)' /\ Len(rows) <= Len(rows')
  BY <1>1, <1>3, <1>8, <1>9, <1>10, LenProperties DEF Honest, SearchTyped
<1> QED
  BY <1>1, <1>3, <1>4, <1>5, <1>11, OneSearch DEF SearchTyped

\* An event after those none of which says done is the last.
LEMMA LastOne ==
  ASSUME NEW a \in Seq(Events), NEW e \in Events, ~ HasDone(a)
  PROVE  \A k \in DOMAIN (a \o <<e>>) : (a \o <<e>>)[k].kind = "done" => k = Len(a \o <<e>>)
<1> DEFINE b == <<e>>
           r == a \o b
<1>1. b \in Seq(Events) /\ Len(b) = 1
  OBVIOUS
<1>2. /\ Len(r) = Len(a) + Len(b) /\ Len(a) \in Nat
      /\ DOMAIN r = 1 .. Len(a) + Len(b)
      /\ \A k \in 1 .. Len(a) + Len(b) : r[k] = IF k <= Len(a) THEN a[k] ELSE b[k - Len(a)]
  BY <1>1, Joined
<1>3. DOMAIN a = 1 .. Len(a)
  BY LenProperties
<1> HIDE DEF b, r
<1>4. ASSUME NEW k \in DOMAIN r, r[k].kind = "done"  PROVE k = Len(r)
  <2>1. k \in 1 .. Len(a) + 1 /\ Len(r) = Len(a) + 1
    BY <1>1, <1>2
  <2>2. CASE k <= Len(a)
    <3>1. k \in DOMAIN a /\ r[k] = a[k]
      BY <1>1, <1>2, <1>3, <2>1, <2>2
    <3> QED
      BY <1>4, <3>1 DEF HasDone
  <2>3. CASE ~ (k <= Len(a))
    BY <1>2, <2>1, <2>3
  <2> QED
    BY <2>2, <2>3
<1> QED
  BY <1>4 DEF b, r

\* Every leg is in, and the report is told.
LEMMA ReportStep ==
  ASSUME SearchInv, NEW s \in Searches, Report(s)
  PROVE  SearchInv'
<1> DEFINE told == <<Event("done")>>
<1>1. SearchTyped /\ Honest(s)
  BY DEF SearchInv
<1>2. /\ fan[s].at = "collect" /\ fan[s].pend = <<>>
      /\ \A i \in Indexers : leg[s][i] \in {"none", "collected"}
      /\ fan' = [fan EXCEPT ![s].at = "report", ![s].pend = told]
      /\ UNCHANGED <<leg, answer, emitted, out, rows, shown, word>>
  BY <1>1 DEF Report, SearchTyped
<1>3. /\ told \in Seq(Events) /\ Len(told) = 1 /\ told[1] = Event("done")
      /\ Event("done") \in Events
  BY EventTyped
<1>4. /\ fan' \in [Searches -> Fans]
      /\ fan'[s].at = "report" /\ fan'[s].pend = told /\ fan'[s].report = fan[s].report
      /\ \A t \in Searches \ {s} : fan'[t] = fan[t]
  BY <1>1, <1>2, <1>3, FanMoves DEF Places
<1>5. SearchTyped'
  BY <1>1, <1>2, <1>4 DEF SearchTyped
<1>6. ~ AllIn(s) /\ Whole(s) /\ AllIn(s)'
  BY <1>2, <1>4 DEF AllIn, Whole
<1>7. word[s] # "done" /\ ~ HasDone(Stream(s))
  BY <1>1, <1>6, NotDone DEF Honest
<1>8. StreamInv(s)'
  <2>1. \A k \in 1 .. Len(fan'[s].pend) : fan'[s].pend[k].results = {}
    BY <1>3, <1>4, EventTyped
  <2> QED
    BY <1>2, <1>5, <1>6, <2>1, Tells
<1>9. DoneInv(s)'
  <2>1. out[s] \in Seq(Events) /\ Stream(s) = out[s] /\ Stream(s)' = out[s] \o told
    BY <1>1, <1>2, <1>4, ConcatEmptySeq DEF Stream, SearchTyped
  <2>2. \A k \in DOMAIN Stream(s)' : Stream(s)'[k].kind = "done" => k = Len(Stream(s)')
    BY <1>3, <1>7, <2>1, LastOne
  <2> QED
    BY <1>2, <1>6, <1>7, <2>2 DEF DoneInv
<1>10. SlotInv(s)' /\ CountInv(s)' /\ LegInv(s)'
  BY <1>1, <1>2, <1>4, SameCollected DEF Honest, LegInv
<1>11. Honest(s)' /\ Len(rows) <= Len(rows')
  BY <1>1, <1>2, <1>8, <1>9, <1>10, LenProperties DEF Honest, SearchTyped
<1> QED
  BY <1>1, <1>2, <1>4, <1>5, <1>11, OneSearch DEF SearchTyped

\* The pump takes an event, and the page shows it.
LEMMA TakeStep ==
  ASSUME SearchInv, NEW s \in Searches, Take(s)
  PROVE  SearchInv'
<1> DEFINE a == out[s]
           b == fan[s].pend
           q == a \o b
           r == Tail(q)
           ev == Head(a)
<1>1. SearchTyped /\ Honest(s)
  BY DEF SearchInv
<1>2. /\ a \in Seq(Events) /\ b \in Seq(Events) /\ a # <<>> /\ shown[s] \in SUBSET Results
      /\ Slotted(emitted[s]) /\ Len(rows) \in Nat
  BY <1>1, LenProperties DEF SearchTyped, Take, Fans
<1>3. /\ out' = [out EXCEPT ![s] = Tail(a)]
      /\ shown' = [shown EXCEPT ![s] = Shown(shown[s], ev)]
      /\ \/ ev.kind = "done" /\ word' = [word EXCEPT ![s] = "done"]
         \/ ev.kind # "done" /\ word' = word
      /\ UNCHANGED <<leg, answer, emitted, rows, fan>>
  BY <1>1 DEF Take, Shown, SearchTyped
<1>4. /\ Tail(a) \in Seq(Events) /\ ev = q[1] /\ q # <<>> /\ q \in Seq(Events)
      /\ Tail(a) \o b = r /\ r \in Seq(Events)
  BY <1>2, Taken
<1>5. /\ DOMAIN q = 1 .. Len(q) /\ DOMAIN r = 1 .. Len(r) /\ Len(q) \in Nat \ {0}
      /\ Len(r) = Len(q) - 1 /\ \A k \in 1 .. Len(r) : r[k] = q[k + 1]
  BY <1>4, LenProperties, HeadTailProperties, EmptySeq
<1>6. Stream(s) = q /\ Stream(s)' = r
  BY <1>1, <1>3, <1>4 DEF Stream, SearchTyped
<1> HIDE DEF q, r, ev
<1>7. q[1] \in Events
  BY <1>4, <1>5, ElementOfSeq
<1>8. Shown(shown[s], ev) \in SUBSET Results
  BY <1>2, <1>4, <1>7 DEF Shown, Events
<1>9. /\ SearchTyped' /\ shown'[s] = Shown(shown[s], q[1])
      /\ ev.kind = "done" => word'[s] = "done"
      /\ ev.kind # "done" => word'[s] = word[s]
      /\ \A t \in Searches \ {s} :
           out'[t] = out[t] /\ shown'[t] = shown[t] /\ word'[t] = word[t]
  BY <1>1, <1>3, <1>4, <1>8 DEF SearchTyped
<1>10. AllIn(s)' <=> AllIn(s)
  BY <1>3 DEF AllIn
<1>11. word[s] # "done"
  BY <1>1, <1>4, <1>6 DEF Honest, DoneInv
<1>12. ASSUME NEW k \in DOMAIN q, q[k].kind = "done"  PROVE k = Len(q) /\ AllIn(s)
  BY <1>1, <1>6, <1>12 DEF Honest, DoneInv
<1>13. ASSUME NEW k \in DOMAIN r  PROVE k + 1 \in DOMAIN q /\ r[k] = q[k + 1]
  BY <1>5
<1>14. DoneInv(s)'
  <2>1. ASSUME NEW k \in DOMAIN r, r[k].kind = "done"  PROVE k = Len(r) /\ AllIn(s)
    <3>1. k + 1 = Len(q) /\ AllIn(s)
      BY <1>12, <1>13, <2>1
    <3> QED
      BY <1>5, <3>1
  <2>2. word'[s] = "done" => r = <<>> /\ AllIn(s)
    <3>1. SUFFICES ASSUME word'[s] = "done" PROVE r = <<>> /\ AllIn(s)
      OBVIOUS
    <3>2. q[1].kind = "done" /\ 1 \in DOMAIN q
      BY <1>4, <1>5, <1>9, <1>11, <3>1
    <3>3. Len(q) = 1 /\ AllIn(s)
      BY <1>12, <3>2
    <3>4. r = <<>>
      BY <1>4, <1>5, <3>3, EmptySeq
    <3> QED
      BY <3>3, <3>4
  <2>3. fan[s].at = "report" => AllIn(s)
    BY <1>1 DEF Honest, DoneInv
  <2> QED
    BY <1>3, <1>6, <1>10, <2>1, <2>2, <2>3 DEF DoneInv
<1>15. Whole(s)' => Whole(s)
  <2>1. HasDone(r) => HasDone(q)
    BY <1>13 DEF HasDone
  <2>2. word'[s] = "done" => HasDone(q)
    BY <1>4, <1>5, <1>9, <1>11 DEF HasDone
  <2> QED
    BY <1>3, <1>6, <2>1, <2>2 DEF Whole
<1>16. StreamInv(s)'
  <2>1. /\ Consistent(shown[s], q, emitted[s], Len(rows))
        /\ Whole(s) => Latest(shown[s], q, emitted[s])
    BY <1>1, <1>6 DEF Honest, StreamInv
  <2>2. /\ Consistent(Shown(shown[s], q[1]), r, emitted[s], Len(rows))
        /\ Latest(shown[s], q, emitted[s]) => Latest(Shown(shown[s], q[1]), r, emitted[s])
    BY <1>2, <1>4, <2>1, TakesIn DEF r
  <2> QED
    BY <1>3, <1>6, <1>9, <1>15, <2>1, <2>2 DEF StreamInv
<1>17. SlotInv(s)' /\ CountInv(s)' /\ LegInv(s)'
  BY <1>1, <1>3, SameCollected DEF Honest, LegInv
<1>18. Honest(s)' /\ Len(rows) <= Len(rows')
  BY <1>2, <1>3, <1>14, <1>16, <1>17 DEF Honest
<1> QED
  BY <1>3, <1>9, <1>18, OneSearch

\* What a fan-out begins with.
Beginner(n, p) == [Resting EXCEPT !.at = "skips", !.report.skipped = n, !.pend = p]

\* It has counted no answer.
LEMMA Begins ==
  ASSUME NEW n \in Nat, NEW p \in Seq(Events)
  PROVE  /\ Beginner(n, p) \in Fans
         /\ Beginner(n, p).at = "skips" /\ Beginner(n, p).pend = p
         /\ Beginner(n, p).report.answered = 0 /\ Beginner(n, p).report.failed = 0
BY DEF Beginner, Resting, Places, Reports, Fans

\* A search begins with nothing told, shown or collected.
LEMMA StartStep ==
  ASSUME SearchAssumption, SearchInv, NEW s \in Searches,
         NEW legs \in SUBSET Indexers, NEW skips \in SUBSET Indexers, StartSearch(s, legs, skips)
  PROVE  SearchInv'
<1> DEFINE told == [n \in 1 .. Cardinality(skips) |-> Event("indexer_done")]
           f == Beginner(Cardinality(skips), told)
<1>1. SearchTyped
  BY DEF SearchInv
<1>2. /\ fan' = [fan EXCEPT ![s] = f]
      /\ leg' = [leg EXCEPT ![s] = [i \in Indexers |-> IF i \in legs THEN "planned" ELSE "none"]]
      /\ answer' = [answer EXCEPT ![s] = [i \in Indexers |-> NoAnswer]]
      /\ emitted' = [emitted EXCEPT ![s] = <<>>]
      /\ out' = [out EXCEPT ![s] = <<>>]
      /\ shown' = [shown EXCEPT ![s] = {}] /\ word' = [word EXCEPT ![s] = "none"]
      /\ rows' = rows
  BY DEF StartSearch, Beginner
<1>3. /\ told \in Seq(Events) /\ \A k \in 1 .. Len(told) : told[k] = Event("indexer_done")
      /\ DOMAIN told = 1 .. Len(told)
  BY HowMany, EventTyped, Same
<1>4. f \in Fans
  BY <1>3, HowMany, Begins
<1>5. f.at = "skips" /\ f.pend = told /\ f.report.answered = 0 /\ f.report.failed = 0
  BY <1>3, HowMany, Begins
<1> HIDE DEF told, f
<1>6. /\ fan' \in [Searches -> Fans]
      /\ fan'[s] = f /\ \A t \in Searches \ {s} : fan'[t] = fan[t]
  BY <1>1, <1>2, <1>4 DEF SearchTyped
<1>7. /\ leg' \in [Searches -> [Indexers -> Legs]]
      /\ answer' \in [Searches -> [Indexers -> [status : Statuses, guids : SUBSET Guids]]]
      /\ \A i \in Indexers : leg'[s][i] \in {"none", "planned"} /\ answer'[s][i] = NoAnswer
      /\ \A t \in Searches \ {s} : leg'[t] = leg[t] /\ answer'[t] = answer[t]
  BY <1>1, <1>2 DEF SearchTyped, Legs, NoAnswer, Statuses
<1>8. /\ DOMAIN emitted' = Searches /\ emitted'[s] = <<>>
      /\ \A t \in Searches \ {s} : emitted'[t] = emitted[t]
  BY <1>1, <1>2 DEF SearchTyped
<1>9. /\ out' \in [Searches -> Seq(Events)] /\ out'[s] = <<>>
      /\ shown' \in [Searches -> SUBSET Results] /\ shown'[s] = {}
      /\ word' \in [Searches -> {"none", "done", "failed"}] /\ word'[s] = "none"
      /\ \A t \in Searches \ {s} : out'[t] = out[t] /\ shown'[t] = shown[t] /\ word'[t] = word[t]
  BY <1>1, <1>2, EmptySeq DEF SearchTyped
<1>10. ASSUME NEW t \in Searches PROVE Slotted(emitted[t])'
  <2>1. CASE t = s
    BY <1>8, <2>1 DEF Slotted
  <2>2. CASE t # s
    BY <1>1, <1>8, <2>2 DEF SearchTyped, Slotted
  <2> QED
    BY <2>1, <2>2
<1>11. SearchTyped'
  BY <1>1, <1>2, <1>6, <1>7, <1>8, <1>9, <1>10 DEF SearchTyped
<1>12. Stream(s)' = told
  BY <1>3, <1>5, <1>6, <1>9, ConcatEmptySeq DEF Stream
<1>13. \A k \in DOMAIN told : told[k].results = {} /\ told[k].kind # "done"
  BY <1>3, EventTyped
<1>14. DoneInv(s)'
  BY <1>5, <1>6, <1>9, <1>12, <1>13 DEF DoneInv
<1>15. LegInv(s)'
  BY <1>7 DEF LegInv
<1>16. SlotInv(s)'
  BY <1>7, <1>8 DEF SlotInv, Counted
<1>17. CountInv(s)'
  <2>1. /\ {i \in Indexers : Counted(s, i)'} = {}
        /\ {i \in Indexers : leg'[s][i] = "collected"} = {}
    BY <1>7 DEF Counted
  <2>2. Cardinality({}) = 0
    BY FS_EmptySet
  <2>3. fan'[s].report.answered = 0 /\ fan'[s].report.answered + fan'[s].report.failed = 0
    BY <1>5, <1>6
  <2> QED
    BY <2>1, <2>2, <2>3 DEF CountInv
<1>18. StreamInv(s)'
  <2>1. \A c : ~ Shows({}, told, c)
    BY <1>13 DEF Shows
  <2>2. Apart({}, told) /\ Chained({}, told)
    BY <1>13, <2>1 DEF Apart, Chained
  <2>3. Bounded({}, told, <<>>, Len(rows)) /\ Latest({}, told, <<>>)
    BY <2>1 DEF Bounded, Latest
  <2> QED
    BY <1>2, <1>8, <1>9, <1>12, <2>2, <2>3 DEF StreamInv, Consistent
<1>19. Honest(s)' /\ Len(rows) <= Len(rows')
  BY <1>1, <1>2, <1>14, <1>15, <1>16, <1>17, <1>18, LenProperties DEF Honest, SearchTyped
<1> QED
  BY <1>6, <1>7, <1>8, <1>9, <1>11, <1>19, OneSearch

\* The order in which the copies of an answer are stored.
Order(kept) == CHOOSE f \in [kept -> 1 .. Cardinality(kept)] : IsInjective(f)

\* There is one, and it numbers every copy.
LEMMA Ordered ==
  ASSUME NEW kept, IsFiniteSet(kept)
  PROVE  /\ Cardinality(kept) \in Nat
         /\ Order(kept) \in [kept -> 1 .. Cardinality(kept)]
         /\ \A g, h \in kept : Order(kept)[g] = Order(kept)[h] => g = h
         /\ \A n \in 1 .. Cardinality(kept) : \E g \in kept : Order(kept)[g] = n
<1> DEFINE N == Cardinality(kept)
<1>1. N \in Nat /\ ExistsBijection(1 .. N, kept)
  BY FS_CardinalityType
<1>2. PICK h \in [1 .. N -> kept] : /\ \A m, n \in 1 .. N : h[m] = h[n] => m = n
                                    /\ \A g \in kept : \E n \in 1 .. N : h[n] = g
  BY <1>1 DEF ExistsBijection, Bijection, Injection, Surjection, IsInjective
<1> HIDE DEF N
<1> DEFINE back == [g \in kept |-> CHOOSE n \in 1 .. N : h[n] = g]
<1>3. \A g \in kept : back[g] \in 1 .. N /\ h[back[g]] = g
  BY <1>2
<1>4. back \in [kept -> 1 .. N] /\ IsInjective(back)
  BY <1>3 DEF IsInjective
<1>5. Order(kept) \in [kept -> 1 .. N] /\ IsInjective(Order(kept))
  BY <1>4 DEF Order, N
<1>6. Order(kept) \in Injection(kept, 1 .. N)
  BY <1>5 DEF Injection
<1>7. IsFiniteSet(1 .. N) /\ Cardinality(1 .. N) = N
  BY <1>1, FS_Interval
<1>8. Order(kept) \in Surjection(kept, 1 .. N)
  BY <1>6, <1>7, FS_Injection DEF N
<1>9. \A n \in 1 .. N : \E g \in kept : Order(kept)[g] = n
  BY <1>8 DEF Surjection
<1>10. \A g, h2 \in kept : Order(kept)[g] = Order(kept)[h2] => g = h2
  BY <1>5 DEF IsInjective
<1> QED
  BY <1>1, <1>5, <1>9, <1>10 DEF N

\* A copy of an answer, as it is stored and told.
Copy(s, i, g) ==
  [cand |-> Len(rows) + Order(Kept(s, i))[g], guid |-> g, indexer |-> i,
   supersedes |-> IF Seen(s, g) THEN emitted[s][g].cand ELSE 0]

Copies(s, i) == {Copy(s, i, g) : g \in Kept(s, i)}

\* The slots when it is stored, and the rows of it.
SlotsAfter(s, i) ==
  [g \in DOMAIN emitted[s] \cup Kept(s, i) |->
     IF g \in Kept(s, i)
     THEN [cand |-> Len(rows) + Order(Kept(s, i))[g], priority |-> PriorityOf[i]]
     ELSE emitted[s][g]]

RowsOf(s, i) ==
  [n \in 1 .. Cardinality(Kept(s, i)) |->
     [guid |-> CHOOSE g \in Kept(s, i) : Order(Kept(s, i))[g] = n, indexer |-> i]]

\* What is stored of an answer is numbered after all the rows, and supersedes what is in the
\* slots.
LEMMA Stores ==
  ASSUME SearchAssumption, SearchTyped, NEW s \in Searches, NEW i \in Indexers
  PROVE  LET m == Len(rows) + Cardinality(Kept(s, i)) IN
         /\ Len(rows) \in Nat /\ m \in Nat /\ Len(rows) <= m
         /\ Brought(emitted[s], Len(rows), m, Copies(s, i))
         /\ Slotted(SlotsAfter(s, i)) /\ Restocked(emitted[s], SlotsAfter(s, i), Copies(s, i))
         /\ rows \o RowsOf(s, i) \in Seq(Rows) /\ Len(rows \o RowsOf(s, i)) = m
<1> DEFINE K == Kept(s, i)
           o == Order(K)
           n == Len(rows)
           m == n + Cardinality(K)
<1>1. K \subseteq Guids /\ IsFiniteSet(K)
  <2>1. K \subseteq Guids
    BY DEF Kept, SearchTyped
  <2> QED
    BY <2>1, FS_Subset DEF SearchAssumption
<1>2. /\ Cardinality(K) \in Nat /\ o \in [K -> 1 .. Cardinality(K)]
      /\ \A g, h \in K : o[g] = o[h] => g = h
      /\ \A k \in 1 .. Cardinality(K) : \E g \in K : o[g] = k
  BY <1>1, Ordered
<1>3. n \in Nat /\ rows \in Seq(Rows) /\ Slotted(emitted[s]) /\ PriorityOf[i] \in Nat
  BY LenProperties DEF SearchTyped, SearchAssumption
<1>4. m \in Nat /\ n <= m
  BY <1>2, <1>3
<1>5. ASSUME NEW g \in K
      PROVE  /\ Copy(s, i, g) = [cand |-> n + o[g], guid |-> g, indexer |-> i,
                                 supersedes |-> IF g \in DOMAIN emitted[s] THEN emitted[s][g].cand ELSE 0]
             /\ n + o[g] \in Nat \ {0} /\ n < n + o[g] /\ n + o[g] <= m
             /\ Copy(s, i, g) \in Results
  <2>1. o[g] \in 1 .. Cardinality(K)
    BY <1>2
  <2>2. n + o[g] \in Nat \ {0} /\ n < n + o[g] /\ n + o[g] <= m
    BY <1>2, <1>3, <2>1
  <2>3. Copy(s, i, g) = [cand |-> n + o[g], guid |-> g, indexer |-> i,
                         supersedes |-> IF g \in DOMAIN emitted[s] THEN emitted[s][g].cand ELSE 0]
    BY DEF Copy, Seen
  <2>4. (IF g \in DOMAIN emitted[s] THEN emitted[s][g].cand ELSE 0) \in Nat
    BY <1>3 DEF Slotted
  <2> HIDE DEF K, o, n, m
  <2>5. Copy(s, i, g) \in Results
    BY <1>1, <2>2, <2>3, <2>4 DEF Results
  <2> QED
    BY <2>2, <2>3, <2>5
<1> HIDE DEF o, n, m
<1>6. Brought(emitted[s], n, m, Copies(s, i))
  <2>1. Copies(s, i) \in SUBSET Results
    BY <1>5 DEF Copies
  <2>2. ASSUME NEW x \in Copies(s, i)
        PROVE  /\ n < x.cand /\ x.cand <= m
               /\ x.supersedes = IF x.guid \in DOMAIN emitted[s] THEN emitted[s][x.guid].cand ELSE 0
    <3>1. PICK g \in K : x = Copy(s, i, g)
      BY DEF Copies
    <3> QED
      BY <1>5, <3>1
  <2>3. ASSUME NEW x \in Copies(s, i), NEW y \in Copies(s, i), x.guid = y.guid \/ x.cand = y.cand
        PROVE  x = y
    <3>1. PICK g \in K : x = Copy(s, i, g)
      BY DEF Copies
    <3>2. PICK h \in K : y = Copy(s, i, h)
      BY DEF Copies
    <3>3. /\ x.guid = g /\ y.guid = h /\ x.cand = n + o[g] /\ y.cand = n + o[h]
      BY <1>5, <3>1, <3>2
    <3>4. g = h
      <4>1. o[g] \in Nat /\ o[h] \in Nat
        BY <1>2
      <4>2. x.cand = y.cand => o[g] = o[h]
        BY <1>3, <3>3, <4>1
      <4> QED
        BY <1>2, <2>3, <3>3, <4>2
    <3> QED
      BY <3>1, <3>2, <3>4
  <2> QED
    BY <2>1, <2>2, <2>3 DEF Brought
<1>7. ASSUME NEW g \in K
      PROVE  /\ SlotsAfter(s, i)[g] \in [cand : Nat \ {0}, priority : Nat]
             /\ SlotsAfter(s, i)[g].cand = n + o[g]
             /\ SlotsAfter(s, i)[g].priority = PriorityOf[i]
  <2>1. SlotsAfter(s, i)[g] = [cand |-> n + o[g], priority |-> PriorityOf[i]]
    BY DEF SlotsAfter, n, o
  <2> QED
    BY <1>3, <1>5, <2>1
<1>8. /\ DOMAIN SlotsAfter(s, i) = DOMAIN emitted[s] \cup K
      /\ \A g \in DOMAIN emitted[s] : g \notin K => SlotsAfter(s, i)[g] = emitted[s][g]
  BY DEF SlotsAfter
<1>9. Slotted(SlotsAfter(s, i))
  <2>1. DOMAIN SlotsAfter(s, i) \subseteq Guids
    BY <1>1, <1>3, <1>8 DEF Slotted
  <2>2. \A g \in DOMAIN SlotsAfter(s, i) : SlotsAfter(s, i)[g] \in [cand : Nat \ {0}, priority : Nat]
    BY <1>3, <1>5, <1>7, <1>8 DEF Slotted
  <2> QED
    BY <2>1, <2>2 DEF Slotted
<1>10. Restocked(emitted[s], SlotsAfter(s, i), Copies(s, i))
  <2>1. {x.guid : x \in Copies(s, i)} = K
    BY <1>5 DEF Copies
  <2>2. ASSUME NEW x \in Copies(s, i)
        PROVE  /\ SlotsAfter(s, i)[x.guid].cand = x.cand
               /\ SlotsAfter(s, i)[x.guid].priority = PriorityOf[x.indexer]
    <3>1. PICK g \in K : x = Copy(s, i, g)
      BY DEF Copies
    <3>2. x.guid = g /\ x.cand = n + o[g] /\ x.indexer = i
      BY <1>5, <3>1
    <3> QED
      BY <1>7, <3>2
  <2>3. ASSUME NEW g \in DOMAIN emitted[s], \A x \in Copies(s, i) : x.guid # g
        PROVE  SlotsAfter(s, i)[g] = emitted[s][g]
    BY <1>8, <2>1, <2>3
  <2> QED
    BY <1>8, <2>1, <2>2, <2>3 DEF Restocked
<1>11. rows \o RowsOf(s, i) \in Seq(Rows) /\ Len(rows \o RowsOf(s, i)) = m
  <2>1. \A k \in 1 .. Cardinality(K) : (CHOOSE g \in K : o[g] = k) \in Guids
    BY <1>1, <1>2
  <2>2. RowsOf(s, i) = [k \in 1 .. Cardinality(K) |-> [guid |-> CHOOSE g \in K : o[g] = k, indexer |-> i]]
    BY DEF RowsOf, o
  <2>3. RowsOf(s, i) \in [1 .. Cardinality(K) -> Rows]
    BY <2>1, <2>2 DEF Rows
  <2>4. RowsOf(s, i) \in Seq(Rows) /\ Len(RowsOf(s, i)) = Cardinality(K)
    BY <1>2, <2>3
  <2> QED
    BY <1>3, <2>4, ConcatProperties DEF m, n
<1> QED
  BY <1>3, <1>4, <1>6, <1>9, <1>10, <1>11 DEF n, m

\* Nothing says done where neither part does.
LEMMA NoneDone ==
  ASSUME NEW a \in Seq(Events), NEW b \in Seq(Events), ~ HasDone(a), ~ HasDone(b)
  PROVE  ~ HasDone(a \o b)
<1> DEFINE r == a \o b
<1>1. /\ Len(a) \in Nat /\ Len(b) \in Nat /\ DOMAIN r = 1 .. Len(a) + Len(b)
      /\ \A k \in 1 .. Len(a) + Len(b) : r[k] = IF k <= Len(a) THEN a[k] ELSE b[k - Len(a)]
  BY Joined
<1>2. DOMAIN a = 1 .. Len(a) /\ DOMAIN b = 1 .. Len(b)
  BY LenProperties
<1> HIDE DEF r
<1>3. ASSUME NEW k \in DOMAIN r PROVE r[k].kind # "done"
  <2>1. CASE k <= Len(a)
    <3>1. k \in DOMAIN a /\ r[k] = a[k]
      BY <1>1, <1>2, <2>1
    <3> QED
      BY <3>1 DEF HasDone
  <2>2. CASE ~ (k <= Len(a))
    <3>1. k - Len(a) \in DOMAIN b /\ r[k] = b[k - Len(a)]
      BY <1>1, <1>2, <2>2
    <3> QED
      BY <3>1 DEF HasDone
  <2> QED
    BY <2>1, <2>2
<1> QED
  BY <1>3 DEF HasDone, r

\* What the fan-out tells of an answer.
Told(fresh) ==
  (IF fresh # {} THEN <<[kind |-> "results", results |-> fresh]>> ELSE <<>>)
    \o <<Event("indexer_done")>>

\* The copies first, if there are any, and never the report.
LEMMA ToldIs ==
  ASSUME NEW fresh \in SUBSET Results
  PROVE  /\ Told(fresh) \in Seq(Events) /\ ~ HasDone(Told(fresh))
         /\ Brings(Told(fresh), fresh)
<1> DEFINE e == [kind |-> "results", results |-> fresh]
           d == Event("indexer_done")
<1>1. /\ d \in Events /\ d.results = {} /\ d.kind = "indexer_done"
      /\ e \in Events /\ e.results = fresh /\ e.kind = "results"
  BY EventTyped DEF Events
<1>2. Told(fresh) = (IF fresh # {} THEN <<e>> ELSE <<>>) \o <<d>>
  BY DEF Told
<1> HIDE DEF e, d
<1>3. CASE fresh # {}
  <2>1. Told(fresh) = <<e>> \o <<d>>
    BY <1>2, <1>3
  <2>2. /\ Told(fresh) \in Seq(Events) /\ Len(Told(fresh)) = 2 /\ DOMAIN Told(fresh) = 1 .. 2
        /\ Told(fresh)[1] = e /\ Told(fresh)[2] = d
    BY <1>1, <2>1
  <2> QED
    BY <1>1, <2>2 DEF HasDone, Brings
<1>4. CASE fresh = {}
  <2>1. Told(fresh) = <<d>>
    BY <1>1, <1>2, <1>4, ConcatEmptySeq
  <2>2. /\ Told(fresh) \in Seq(Events) /\ Len(Told(fresh)) = 1 /\ DOMAIN Told(fresh) = 1 .. 1
        /\ Told(fresh)[1] = d
    BY <1>1, <2>1
  <2> QED
    BY <1>1, <1>4, <2>2 DEF HasDone, Brings
<1> QED
  BY <1>3, <1>4

\* One answer counted moves one of the two counters by one.
LEMMA TalliesOne ==
  ASSUME NEW r \in Reports, NEW ok \in BOOLEAN
  PROVE  /\ Tallied(r, ok) \in Reports
         /\ Tallied(r, ok).answered = r.answered + (IF ok THEN 1 ELSE 0)
         /\ Tallied(r, ok).failed = r.failed + (IF ok THEN 0 ELSE 1)
<1>1. CASE ok
  BY <1>1 DEF Reports, Tallied
<1>2. CASE ~ ok
  BY <1>2 DEF Reports, Tallied
<1> QED
  BY <1>1, <1>2

\* A fan-out that tells of an answer and counts it.
LEMMA FanCounts ==
  ASSUME SearchTyped, NEW s \in Searches, NEW pend \in Seq(Events), NEW ok \in BOOLEAN,
         fan' = [fan EXCEPT ![s].pend = pend, ![s].report = Tallied(@, ok)]
  PROVE  /\ fan' \in [Searches -> Fans]
         /\ fan'[s].at = fan[s].at /\ fan'[s].pend = pend
         /\ fan'[s].report.answered = fan[s].report.answered + (IF ok THEN 1 ELSE 0)
         /\ fan'[s].report.answered + fan'[s].report.failed
              = fan[s].report.answered + fan[s].report.failed + 1
         /\ \A t \in Searches \ {s} : fan'[t] = fan[t]
<1> DEFINE report == Tallied(fan[s].report, ok)
           f == [fan[s] EXCEPT !.pend = pend, !.report = report]
<1>1. fan[s] \in Fans
  BY DEF SearchTyped
<1>2. fan' = [fan EXCEPT ![s] = f]
  BY DEF SearchTyped
<1>3. /\ report \in Reports
      /\ report.answered = fan[s].report.answered + (IF ok THEN 1 ELSE 0)
      /\ report.failed = fan[s].report.failed + (IF ok THEN 0 ELSE 1)
  <2>1. fan[s].report \in Reports
    BY <1>1 DEF Fans
  <2> QED
    BY <2>1, TalliesOne, Zenon
<1>4. fan[s].report.answered \in Nat /\ fan[s].report.failed \in Nat
  BY <1>1 DEF Reports, Fans
<1> HIDE DEF report
<1>5. /\ f \in Fans
      /\ f.at = fan[s].at /\ f.pend = pend /\ f.report = report
  BY <1>1, <1>3 DEF Fans
<1> HIDE DEF f
<1>6. fan' \in [Searches -> Fans]
  BY <1>2, <1>5 DEF SearchTyped
<1>7. fan'[s] = f /\ \A t \in Searches \ {s} : fan'[t] = fan[t]
  BY <1>2 DEF SearchTyped
<1>8. report.answered + report.failed = fan[s].report.answered + fan[s].report.failed + 1
  BY <1>3, <1>4
<1> QED
  BY <1>3, <1>5, <1>6, <1>7, <1>8

\* One more leg is collected, and it is counted as answered or as failed.
LEMMA OneMore ==
  ASSUME SearchAssumption, NEW s \in Searches, NEW i \in Indexers, NEW ok \in BOOLEAN,
         CountInv(s), leg[s][i] = "answered", leg'[s][i] = "collected",
         \A j \in Indexers \ {i} : leg'[s][j] = leg[s][j] /\ answer'[s][j] = answer[s][j],
         answer'[s][i].status = "ok" <=> ok,
         fan'[s].report.answered = fan[s].report.answered + (IF ok THEN 1 ELSE 0),
         fan'[s].report.answered + fan'[s].report.failed
           = fan[s].report.answered + fan[s].report.failed + 1
  PROVE  CountInv(s)'
<1> DEFINE S == {j \in Indexers : Counted(s, j)}
           T == {j \in Indexers : leg[s][j] = "collected"}
           S1 == {j \in Indexers : Counted(s, j)'}
           T1 == {j \in Indexers : leg'[s][j] = "collected"}
<1>1. i \notin S /\ i \notin T
  BY DEF Counted
<1>2. /\ IsFiniteSet(S) /\ Cardinality(S) \in Nat
      /\ IsFiniteSet(T) /\ Cardinality(T) \in Nat
  BY HowMany
<1>3. T1 = T \cup {i}
  OBVIOUS
<1>4. S1 = IF ok THEN S \cup {i} ELSE S
  BY DEF Counted
<1>5. /\ fan[s].report.answered = Cardinality(S)
      /\ fan[s].report.answered + fan[s].report.failed = Cardinality(T)
  BY DEF CountInv
<1> HIDE DEF S, T, S1, T1
<1>6. Cardinality(T1) = Cardinality(T) + 1
  BY <1>1, <1>2, <1>3, FS_AddElement
<1>7. Cardinality(S1) = Cardinality(S) + (IF ok THEN 1 ELSE 0)
  <2>1. CASE ok
    BY <1>1, <1>2, <1>4, <2>1, FS_AddElement
  <2>2. CASE ~ ok
    BY <1>2, <1>4, <2>2
  <2> QED
    BY <2>1, <2>2
<1>8. /\ fan'[s].report.answered = Cardinality(S1)
      /\ fan'[s].report.answered + fan'[s].report.failed = Cardinality(T1)
  BY <1>5, <1>6, <1>7
<1> QED
  BY <1>8 DEF CountInv, S1, T1

\* An answer is collected.
LEMMA CollectStep ==
  ASSUME SearchAssumption, SearchInv, NEW s \in Searches, NEW i \in Indexers,
         NEW stored \in BOOLEAN, Collect(s, i, stored)
  PROVE  SearchInv'
<1> DEFINE kept == Kept(s, i)
           ok == answer[s][i].status = "ok" /\ stored
           fresh == IF ok THEN Copies(s, i) ELSE {}
           em == emitted[s]
           at == IF ok THEN SlotsAfter(s, i) ELSE em
           n == Len(rows)
           m == Len(rows')
           a == out[s]
           b == Told(fresh)
<1>1. SearchTyped /\ Honest(s)
  BY DEF SearchInv
<1>2. /\ fan[s].at = "collect" /\ fan[s].pend = <<>> /\ leg[s][i] = "answered"
      /\ leg' = [leg EXCEPT ![s][i] = "collected"]
      /\ answer' = IF stored THEN answer ELSE [answer EXCEPT ![s][i].status = "failed"]
      /\ UNCHANGED <<out, shown, word>>
  BY DEF Collect
<1>3. /\ rows' = IF ok THEN rows \o RowsOf(s, i) ELSE rows
      /\ emitted' = IF ok THEN [emitted EXCEPT ![s] = SlotsAfter(s, i)] ELSE emitted
  BY <1>1 DEF Collect, RowsOf, SlotsAfter, Order, SearchTyped
<1>4. Copies(s, i) = {} <=> kept = {}
  BY DEF Copies
<1>5. fan' = [fan EXCEPT ![s].pend = b, ![s].report = Tallied(@, ok)]
  <2>1. fan' = [fan EXCEPT
          ![s].pend = (IF ok /\ kept # {}
                       THEN <<[kind |-> "results", results |-> Copies(s, i)]>>
                       ELSE <<>>) \o <<Event("indexer_done")>>,
          ![s].report = Tallied(@, ok)]
    BY DEF Collect, Copies, Copy, Order
  <2>2. (IF ok /\ kept # {} THEN <<[kind |-> "results", results |-> Copies(s, i)]>> ELSE <<>>)
          \o <<Event("indexer_done")>> = b
    BY <1>4 DEF Told
  <2> QED
    BY <2>1, <2>2, Zenon
<1> HIDE DEF b, fresh, at, em, n, m, a, kept
<1>6. /\ n \in Nat /\ m \in Nat /\ n <= m
      /\ Brought(em, n, m, fresh) /\ Slotted(em) /\ Slotted(at) /\ Restocked(em, at, fresh)
      /\ rows' \in Seq(Rows)
  <2>1. CASE ok
    <3>1. /\ fresh = Copies(s, i) /\ at = SlotsAfter(s, i) /\ rows' = rows \o RowsOf(s, i)
          /\ n = Len(rows) /\ m = Len(rows \o RowsOf(s, i)) /\ em = emitted[s]
      BY <1>3, <2>1 DEF em, n, m, fresh, at
    <3>2. Slotted(emitted[s])
      BY <1>1 DEF SearchTyped
    <3>3. m = n + Cardinality(Kept(s, i))
      BY <1>1, <3>1, Stores
    <3> QED
      BY <1>1, <3>1, <3>2, <3>3, Stores
  <2>2. CASE ~ ok
    <3>1. fresh = {} /\ at = em /\ rows' = rows /\ Slotted(em) /\ rows \in Seq(Rows) /\ n = m
      BY <1>1, <1>3, <2>2 DEF fresh, at, em, n, m, SearchTyped
    <3>2. n \in Nat
      BY <3>1, LenProperties DEF n
    <3>3. Brought(em, n, m, fresh) /\ Restocked(em, at, fresh)
      BY <3>1 DEF Brought, Restocked
    <3> QED
      BY <3>1, <3>2, <3>3
  <2> QED
    BY <2>1, <2>2
<1>7. fresh \in SUBSET Results
  BY <1>6 DEF Brought
<1>8. b \in Seq(Events) /\ ~ HasDone(b) /\ Brings(b, fresh)
  BY <1>7, ToldIs DEF b
<1>9. /\ fan' \in [Searches -> Fans]
      /\ fan'[s].at = fan[s].at /\ fan'[s].pend = b
      /\ fan'[s].report.answered = fan[s].report.answered + (IF ok THEN 1 ELSE 0)
      /\ fan'[s].report.answered + fan'[s].report.failed
           = fan[s].report.answered + fan[s].report.failed + 1
      /\ \A t \in Searches \ {s} : fan'[t] = fan[t]
  BY <1>1, <1>5, <1>8, FanCounts
<1>10. /\ DOMAIN emitted' = Searches /\ emitted'[s] = at
       /\ \A t \in Searches \ {s} : emitted'[t] = emitted[t]
  BY <1>1, <1>3 DEF SearchTyped, at, em
<1>11. /\ leg' \in [Searches -> [Indexers -> Legs]] /\ leg'[s][i] = "collected"
       /\ \A j \in Indexers \ {i} : leg'[s][j] = leg[s][j]
       /\ \A t \in Searches \ {s} : leg'[t] = leg[t]
  BY <1>1, <1>2 DEF SearchTyped, Legs
<1>12. /\ answer' \in [Searches -> [Indexers -> [status : Statuses, guids : SUBSET Guids]]]
       /\ answer'[s][i].status = "ok" <=> ok
       /\ ok => answer'[s][i] = answer[s][i]
       /\ \A j \in Indexers \ {i} : answer'[s][j] = answer[s][j]
       /\ \A t \in Searches \ {s} : answer'[t] = answer[t]
  <2>1. CASE stored
    BY <1>1, <1>2, <2>1 DEF SearchTyped
  <2>2. CASE ~ stored
    <3> DEFINE x == [answer[s][i] EXCEPT !.status = "failed"]
    <3>1. answer[s][i] \in [status : Statuses, guids : SUBSET Guids]
      BY <1>1 DEF SearchTyped
    <3>2. x \in [status : Statuses, guids : SUBSET Guids] /\ x.status = "failed"
      BY <3>1 DEF Statuses
    <3>3. answer' = [answer EXCEPT ![s][i] = x]
      BY <1>1, <1>2, <2>2 DEF SearchTyped
    <3> HIDE DEF x
    <3> QED
      BY <1>1, <2>2, <3>2, <3>3 DEF SearchTyped
  <2> QED
    BY <2>1, <2>2
<1>13. SearchTyped'
  <2>1. ASSUME NEW t \in Searches PROVE Slotted(emitted[t])'
    <3>1. Slotted(emitted'[t])
      BY <1>1, <1>6, <1>10 DEF SearchTyped
    <3> QED
      BY <3>1 DEF Slotted
  <2> QED
    BY <1>1, <1>2, <1>6, <1>9, <1>10, <1>11, <1>12, <2>1 DEF SearchTyped
<1>14. ~ AllIn(s) /\ Whole(s) /\ ~ AllIn(s)'
  BY <1>2, <1>9 DEF AllIn, Whole
<1>15. word[s] # "done" /\ ~ HasDone(Stream(s))
  BY <1>1, <1>14, NotDone DEF Honest
<1>16. a \in Seq(Events) /\ Stream(s) = a \o <<>> /\ Stream(s)' = a \o b /\ a \o <<>> = a
  BY <1>1, <1>2, <1>9, ConcatEmptySeq DEF Stream, SearchTyped, a
<1>17. LegInv(s)'
  BY <1>1, <1>11, <1>12 DEF Honest, LegInv
<1>18. DoneInv(s)'
  <2>1. ~ HasDone(a \o b)
    BY <1>8, <1>15, <1>16, NoneDone
  <2> QED
    BY <1>2, <1>9, <1>15, <1>16, <2>1 DEF DoneInv, HasDone
<1>19. CountInv(s)'
  BY <1>1, <1>2, <1>9, <1>11, <1>12, OneMore DEF Honest
<1>20. StreamInv(s)'
  <2>1. shown[s] \in SUBSET Results
    BY <1>1 DEF SearchTyped
  <2>2. Consistent(shown[s], a \o <<>>, em, n) /\ Latest(shown[s], a \o <<>>, em)
    BY <1>1, <1>14, <1>16 DEF Honest, StreamInv, em, n
  <2>3. Consistent(shown[s], a \o b, at, m) /\ Latest(shown[s], a \o b, at)
    BY <1>6, <1>8, <1>16, <2>1, <2>2, TellsOf
  <2> QED
    BY <1>2, <1>10, <1>16, <2>3 DEF StreamInv, m
<1>21. SlotInv(s)'
  <2>1. ASSUME NEW j \in Indexers, j # i  PROVE Counted(s, j)' <=> Counted(s, j)
    BY <1>11, <1>12, <2>1 DEF Counted
  <2>2. Counted(s, i)' <=> ok
    BY <1>11, <1>12 DEF Counted
  <2>3. ~ Counted(s, i)
    BY <1>2 DEF Counted
  <2>4. /\ \A j \in Indexers : Counted(s, j) =>
             \A g \in answer[s][j].guids : g \in DOMAIN em /\ em[g].priority <= PriorityOf[j]
        /\ \A g \in DOMAIN em : \E j \in Indexers : Counted(s, j) /\ g \in answer[s][j].guids
    BY <1>1 DEF Honest, SlotInv, em
  <2>5. CASE ok
    <3>1. /\ DOMAIN at = DOMAIN em \cup kept
          /\ \A g \in kept : at[g].priority = PriorityOf[i]
          /\ \A g \in DOMAIN em : g \notin kept => at[g] = em[g]
      BY <2>5 DEF at, em, kept, SlotsAfter
    <3>2. /\ \A g \in answer[s][i].guids : g \notin kept =>
               g \in DOMAIN em /\ ~ (PriorityOf[i] < em[g].priority)
          /\ \A g \in kept : g \in answer[s][i].guids /\ (g \in DOMAIN em => PriorityOf[i] < em[g].priority)
      BY DEF kept, Kept, Seen, em
    <3>3. /\ \A j \in Indexers : PriorityOf[j] \in Nat
          /\ \A g \in DOMAIN em : em[g].priority \in Nat
      BY <1>6 DEF SearchAssumption, Slotted
    <3>4. ASSUME NEW j \in Indexers, Counted(s, j)', NEW g \in answer'[s][j].guids
          PROVE  g \in DOMAIN at /\ at[g].priority <= PriorityOf[j]
      <4>1. CASE j = i
        <5>1. g \in answer[s][i].guids
          BY <1>12, <2>5, <3>4, <4>1
        <5> QED
          BY <3>1, <3>2, <3>3, <4>1, <5>1
      <4>2. CASE j # i
        <5>1. g \in DOMAIN em /\ em[g].priority <= PriorityOf[j]
          BY <1>12, <2>1, <2>4, <3>4, <4>2
        <5>2. CASE g \in kept
          <6>1. at[g].priority = PriorityOf[i] /\ PriorityOf[i] < em[g].priority /\ g \in DOMAIN at
            BY <3>1, <3>2, <5>1, <5>2
          <6>2. PriorityOf[i] \in Nat /\ PriorityOf[j] \in Nat /\ em[g].priority \in Nat
            BY <3>3, <5>1
          <6> QED
            BY <5>1, <6>1, <6>2
        <5>3. CASE g \notin kept
          BY <3>1, <5>1, <5>3
        <5> QED
          BY <5>2, <5>3
      <4> QED
        BY <4>1, <4>2
    <3>5. ASSUME NEW g \in DOMAIN at
          PROVE  \E j \in Indexers : Counted(s, j)' /\ g \in answer'[s][j].guids
      <4>1. CASE g \in kept
        BY <1>12, <2>2, <2>5, <3>2, <4>1
      <4>2. CASE g \notin kept
        <5>1. PICK j \in Indexers : Counted(s, j) /\ g \in answer[s][j].guids
          BY <2>4, <3>1, <4>2
        <5>2. j # i
          BY <2>3, <5>1
        <5> QED
          BY <1>12, <2>1, <5>1, <5>2
      <4> QED
        BY <4>1, <4>2
    <3> QED
      BY <1>10, <3>4, <3>5 DEF SlotInv
  <2>6. CASE ~ ok
    <3>1. at = em
      BY <2>6 DEF at
    <3>2. ASSUME NEW j \in Indexers
          PROVE  /\ Counted(s, j)' <=> Counted(s, j)
                 /\ Counted(s, j) => answer'[s][j] = answer[s][j]
      BY <1>12, <2>1, <2>2, <2>3, <2>6
    <3> QED
      BY <1>10, <2>4, <3>1, <3>2 DEF SlotInv
  <2> QED
    BY <2>5, <2>6
<1>22. Honest(s)'
  BY <1>17, <1>18, <1>19, <1>20, <1>21 DEF Honest
<1>23. Len(rows) <= Len(rows')
  BY <1>6 DEF n, m
<1> QED
  BY <1>2, <1>9, <1>10, <1>11, <1>12, <1>13, <1>22, <1>23, OneSearch
------------------------------------------------------------------------------
\* No search has begun.
LEMMA SearchInit == SearchAssumption /\ SearchesInit => SearchInv
<1> SUFFICES ASSUME SearchAssumption, SearchesInit  PROVE SearchInv
  OBVIOUS
<1>1. SearchTyped
  <2>1. /\ <<>> \in Seq(Events) /\ <<>> \in Seq(Rows)
    BY EmptySeq
  <2>2. Resting \in Fans
    BY <2>1 DEF Resting, Places, Reports, Fans
  <2>3. NoAnswer \in [status : Statuses, guids : SUBSET Guids]
    BY DEF NoAnswer, Statuses
  <2>4. \A s \in Searches : Slotted(emitted[s])
    BY DEF SearchesInit, Slotted
  <2> QED
    BY <2>1, <2>2, <2>3, <2>4 DEF SearchesInit, SearchTyped, Legs
<1>2. ASSUME NEW s \in Searches PROVE Honest(s)
  <2>1. Stream(s) = <<>>
    BY EmptySeq, ConcatEmptySeq DEF SearchesInit, Stream, Resting
  <2>2. /\ fan[s].at = "idle" /\ word[s] = "none" /\ shown[s] = {} /\ emitted[s] = <<>>
        /\ fan[s].report.answered = 0 /\ fan[s].report.failed = 0
    BY DEF SearchesInit, Resting
  <2>3. \A i \in Indexers : leg[s][i] = "none" /\ answer[s][i] = NoAnswer
    BY DEF SearchesInit
  <2>4. LegInv(s) /\ DoneInv(s)
    BY <2>1, <2>2, <2>3 DEF LegInv, DoneInv
  <2>5. SlotInv(s)
    BY <2>2, <2>3 DEF SlotInv, Counted
  <2>6. CountInv(s)
    <3>1. /\ {i \in Indexers : Counted(s, i)} = {}
          /\ {i \in Indexers : leg[s][i] = "collected"} = {}
      BY <2>3 DEF Counted
    <3>2. Cardinality({}) = 0
      BY FS_EmptySet
    <3>3. fan[s].report.answered = 0 /\ fan[s].report.answered + fan[s].report.failed = 0
      BY <2>2
    <3> QED
      BY <3>1, <3>2, <3>3 DEF CountInv
  <2>7. StreamInv(s)
    <3>1. \A c : ~ Shows({}, <<>>, c)
      BY DEF Shows
    <3>2. Apart({}, <<>>) /\ Chained({}, <<>>) /\ Latest({}, <<>>, <<>>)
      BY <3>1 DEF Apart, Chained, Latest
    <3>3. Bounded({}, <<>>, <<>>, Len(rows))
      BY <3>1 DEF Bounded
    <3> QED
      BY <2>1, <2>2, <3>2, <3>3 DEF StreamInv, Consistent
  <2> QED
    BY <2>4, <2>5, <2>6, <2>7 DEF Honest
<1> QED
  BY <1>1, <1>2 DEF SearchInv

\* Nothing of a search changes while its breakers cool, or nothing happens.
LEMMA NothingMoves ==
  ASSUME SearchInv, UNCHANGED <<fan, leg, answer, emitted, out, rows, shown, word>>
  PROVE  SearchInv'
<1>1. SearchTyped /\ SearchTyped' /\ Len(rows) <= Len(rows')
  BY LenProperties DEF SearchInv, SearchTyped
<1>2. ASSUME NEW s \in Searches PROVE Honest(s)'
  BY <1>1, Untouched DEF SearchInv
<1> QED
  BY <1>1, <1>2 DEF SearchInv

\* Every step keeps what the searches rest on.
LEMMA SearchNext == SearchAssumption /\ SearchInv /\ [SearchesNext]_searchVars => SearchInv'
<1> SUFFICES ASSUME SearchAssumption, SearchInv, [SearchesNext]_searchVars  PROVE SearchInv'
  OBVIOUS
<1>1. ASSUME NEW s \in Searches, NEW legs \in SUBSET Indexers, NEW skips \in SUBSET Indexers,
             StartSearch(s, legs, skips)
      PROVE  SearchInv'
  BY <1>1, StartStep
<1>2. ASSUME NEW s \in Searches, FanOut(s)  PROVE SearchInv'
  BY <1>2, LaunchStep, EmitStep, AbandonStep, ReportStep, CloseStep, CollectStep DEF FanOut
<1>3. ASSUME NEW s \in Searches, Pump(s) \/ Expire(s)  PROVE SearchInv'
  BY <1>3, TakeStep, QuietSteps DEF Pump
<1>4. ASSUME NEW s \in Searches, NEW i \in Indexers, Ask(s, i)  PROVE SearchInv'
  BY <1>4, AskSteps
<1>5. ASSUME NEW i \in Indexers, BreakerTick(i)  PROVE SearchInv'
  BY <1>5, NothingMoves DEF BreakerTick
<1>6. CASE UNCHANGED searchVars
  BY <1>6, NothingMoves DEF searchVars
<1> QED
  BY <1>1, <1>2, <1>3, <1>4, <1>5, <1>6 DEF SearchesNext

\* What a browser shows at the closing report is the best copy of every release that was
\* brought and stored, and the report counts every indexer that was asked.
THEOREM ClosingTruthCorrect == SearchSpec => []ClosingTruth
<1>1. SearchesInit => SearchInv
  BY SearchInit, SearchAssumption
<1>2. SearchInv /\ [SearchesNext]_searchVars => SearchInv'
  BY SearchNext, SearchAssumption
<1>3. SearchInv => ClosingTruth
  BY InvSuffices, SearchAssumption
<1> QED
  BY <1>1, <1>2, <1>3, PTL DEF SearchSpec

------------------------------------------------------------------------------

\* The states of a handler.
Handler == [
  at : {"idle", "preflight", "post", "sent", "research", "record", "audit", "over"},
  cand : CandidateRows \cup {"none"}, retried : BOOLEAN, ctx : {"alive", "late", "left"},
  reply : Replies \cup {"none", "lost"},
  outcome : {"none", "not_sent", "sent_unknown", "sent_confirmed"},
  provenance : {"none", "confirmed", "unconfirmed", "lost", "db_error"},
  audit : {"none", "not_sent", "sent_unknown", "sent_confirmed", "lost", "db_error"},
  sent : 0 .. 1]

\* Before an outcome nothing is sent but by the POST whose answer is awaited; and after it
\* a POST can be on its way only if the grab gave up on it.
Sound(h, pending) ==
  /\ pending => h.sent = 0
  /\ h.at \in {"idle", "preflight", "post", "research"} => ~ pending /\ h.sent = 0
  /\ h.at \in {"idle", "preflight", "post", "research", "sent"} => h.outcome = "none"
  /\ h.at = "sent" /\ pending => h.reply = "none"
  /\ h.at = "sent" /\ ~ pending => h.reply \in Replies /\ (h.sent = 1 <=> Dispatches(h.reply))
  /\ h.at \in {"record", "audit", "over"} =>
       /\ h.outcome # "none"
       /\ h.outcome = "not_sent" /\ h.reply # "oversize" => ~ pending /\ h.sent = 0
  /\ h.at = "record" => h.outcome # "not_sent"
  /\ h.at = "over" =>
       h.outcome = "not_sent" \/ h.audit \in {"sent_unknown", "sent_confirmed", "db_error"}
         \/ h.ctx = "left"

\* What is true of every grab.
GrabInv ==
  /\ grab \in [Grabs -> Handler]
  /\ \A g \in Grabs : Sound(grab[g], g \in wire)

\* The strengthened invariant says what is promised of a grab.
LEMMA GrabInvSuffices == GrabInv => GrabTruthful
<1> SUFFICES ASSUME GrabInv, NEW g \in Grabs
             PROVE  /\ grab[g].sent + (IF g \in wire THEN 1 ELSE 0) <= 1
                    /\ grab[g].reply # "oversize" =>
                         /\ grab[g].outcome = "not_sent" => grab[g].sent = 0 /\ g \notin wire
                         /\ grab[g].at = "over" /\ grab[g].sent > 0 =>
                              \/ grab[g].provenance \in {"confirmed", "unconfirmed", "db_error"}
                              \/ grab[g].audit \in {"sent_unknown", "sent_confirmed", "db_error"}
                              \/ grab[g].ctx = "left"
  BY DEF GrabTruthful
<1>1. grab[g] \in Handler /\ Sound(grab[g], g \in wire)
  BY DEF GrabInv
<1> QED
  BY <1>1 DEF Handler, Sound

\* A step of one handler, which moves no other's POST.
LEMMA OneHandler ==
  ASSUME GrabInv, NEW g \in Grabs, NEW h \in Handler,
         grab' = [grab EXCEPT ![g] = h],
         Sound(h, g \in wire'),
         \A f \in Grabs \ {g} : f \in wire' <=> f \in wire
  PROVE  GrabInv'
<1>1. grab' \in [Grabs -> Handler]
  BY DEF GrabInv
<1>2. ASSUME NEW f \in Grabs PROVE Sound(grab'[f], f \in wire')
  <2>1. CASE f = g
    BY <2>1 DEF GrabInv
  <2>2. CASE f # g
    <3>1. grab'[f] = grab[f] /\ (f \in wire' <=> f \in wire)
      BY <2>2 DEF GrabInv
    <3>2. Sound(grab[f], f \in wire)
      BY DEF GrabInv
    <3> QED
      BY <3>1, <3>2 DEF Sound
  <2> QED
    BY <2>1, <2>2
<1> QED
  BY <1>1, <1>2 DEF GrabInv

\* What becomes of one field leaves a handler a handler.
LEMMA MovedTyped ==
  ASSUME NEW h \in Handler,
         NEW at \in {"idle", "preflight", "post", "sent", "research", "record", "audit", "over"}
  PROVE  [h EXCEPT !.at = at] \in Handler
BY DEF Handler

\* A handler that hears a reply is a handler.
LEMMA RepliedTyped ==
  ASSUME NEW h \in Handler, NEW reply \in Replies \cup {"none", "lost"}
  PROVE  [h EXCEPT !.reply = reply] \in Handler
BY DEF Handler

\* A handler that draws its conclusion is a handler.
LEMMA ConcludedTyped ==
  ASSUME NEW h \in Handler, NEW o \in {"not_sent", "sent_unknown", "sent_confirmed"}
  PROVE  Concluded(h, o) \in Handler
<1> DEFINE at == IF o = "not_sent" THEN "audit" ELSE "record"
           k == [h EXCEPT !.outcome = o]
<1>1. k \in Handler
  BY DEF Handler
<1>2. Concluded(h, o) = [k EXCEPT !.at = at]
  BY DEF Handler, Concluded
<1>3. at \in {"audit", "record"}
  OBVIOUS
<1> HIDE DEF k, at
<1>4. [k EXCEPT !.at = at] \in Handler
  BY <1>1, <1>3, MovedTyped
<1> QED
  BY <1>2, <1>4

\* A handler that gives up before anything was sent.
LEMMA GivesUp ==
  ASSUME NEW h \in Handler, NEW g, Sound(h, g \in wire),
         h.at \in {"preflight", "post", "research"}
  PROVE  Concluded(h, "not_sent") \in Handler /\ Sound(Concluded(h, "not_sent"), g \in wire)
<1> DEFINE o == Concluded(h, "not_sent")
<1>1. o \in Handler
  BY ConcludedTyped
<1>2. o.at = "audit" /\ o.outcome = "not_sent" /\ o.sent = h.sent
  BY DEF Handler, Concluded
<1>3. g \notin wire /\ h.sent = 0
  BY DEF Sound
<1> HIDE DEF o
<1>4. Sound(o, g \in wire)
  BY <1>2, <1>3 DEF Sound
<1> QED
  BY <1>1, <1>4 DEF o

\* Prowlarr handles the request on the wire, heard or not.
LEMMA HandleKeeps ==
  ASSUME GrabInv, NEW g \in Grabs, NEW reply \in Replies, Handle(g, reply)
  PROVE  GrabInv'
<1> DEFINE h == [grab[g] EXCEPT !.sent = IF Dispatches(reply) THEN grab[g].sent + 1 ELSE grab[g].sent,
                                !.reply = IF grab[g].at = "sent" THEN reply ELSE grab[g].reply]
<1>1. grab[g] \in Handler /\ Sound(grab[g], TRUE) /\ g \in wire
  BY DEF GrabInv, Handle, Sound
<1>2. h \in Handler
  <2>1. grab[g].sent = 0
    BY <1>1 DEF Sound
  <2> DEFINE n == IF Dispatches(reply) THEN grab[g].sent + 1 ELSE grab[g].sent
             r == IF grab[g].at = "sent" THEN reply ELSE grab[g].reply
             k == [grab[g] EXCEPT !.sent = n]
  <2>2. n \in 0 .. 1 /\ r \in Replies \cup {"none", "lost"}
    BY <1>1, <2>1 DEF Handler
  <2> HIDE DEF n, r
  <2>3. k \in Handler
    BY <1>1, <2>2 DEF Handler
  <2>4. h = [k EXCEPT !.reply = r]
    BY <1>1 DEF Handler, n, r
  <2> HIDE DEF k, h
  <2> QED
    BY <2>2, <2>3, <2>4, RepliedTyped
<1>3. grab' = [grab EXCEPT ![g] = h]
  BY DEF Handle, GrabInv
<1>4. g \notin wire' /\ \A f \in Grabs \ {g} : f \in wire' <=> f \in wire
  BY DEF Handle
<1>5. Sound(h, FALSE)
  <2>1. /\ h.at = grab[g].at /\ h.outcome = grab[g].outcome /\ h.audit = grab[g].audit
        /\ h.ctx = grab[g].ctx
        /\ h.sent = (IF Dispatches(reply) THEN grab[g].sent + 1 ELSE grab[g].sent)
        /\ h.reply = (IF grab[g].at = "sent" THEN reply ELSE grab[g].reply)
    BY <1>1 DEF Handler
  <2>2. grab[g].sent = 0 /\ grab[g].at \in {"sent", "record", "audit", "over"}
    BY <1>1 DEF Sound, Handler
  <2> HIDE DEF h
  <2>3. CASE grab[g].at = "sent"
    BY <1>1, <2>1, <2>2, <2>3 DEF Sound
  <2>4. CASE grab[g].at # "sent"
    BY <1>1, <2>1, <2>2, <2>4 DEF Sound
  <2> QED
    BY <2>3, <2>4
<1> QED
  <2>1. Sound(h, g \in wire')
    BY <1>4, <1>5 DEF Sound
  <2> QED
    BY <1>2, <1>3, <1>4, <2>1, OneHandler

\* The request goes on the wire, or none can be made.
LEMMA PostKeeps ==
  ASSUME GrabInv, NEW g \in Grabs, NEW leaves \in BOOLEAN, Post(g, leaves)
  PROVE  GrabInv'
<1>1. grab[g] \in Handler /\ Sound(grab[g], g \in wire) /\ grab[g].at = "post"
  BY DEF GrabInv, Post
<1>2. CASE leaves
  <2> DEFINE h == [grab[g] EXCEPT !.at = "sent", !.reply = "none"]
  <2>1. h \in Handler /\ Sound(h, TRUE)
    <3>1. h \in Handler
      BY <1>1 DEF Handler
    <3>2. h.at = "sent" /\ h.reply = "none" /\ h.sent = 0 /\ h.outcome = "none"
      BY <1>1 DEF Handler, Sound
    <3> HIDE DEF h
    <3> QED
      BY <3>1, <3>2 DEF Sound
  <2>2. grab' = [grab EXCEPT ![g] = h] /\ wire' = wire \cup {g}
    BY <1>2 DEF Post
  <2>3. Sound(h, g \in wire')
    BY <2>1, <2>2 DEF Sound
  <2> QED
    BY <2>1, <2>2, <2>3, OneHandler
<1>3. CASE ~ leaves
  <2> DEFINE h == Concluded(grab[g], "not_sent")
  <2>1. h \in Handler /\ Sound(h, g \in wire)
    BY <1>1, GivesUp
  <2>2. grab' = [grab EXCEPT ![g] = h] /\ wire' = wire
    BY <1>3 DEF Post
  <2> QED
    BY <2>1, <2>2, OneHandler
<1> QED
  BY <1>2, <1>3

\* The handler hears of its request and concludes.
LEMMA HearKeeps ==
  ASSUME GrabInv, NEW g \in Grabs, NEW reply \in Replies \cup {"lost"}, Hear(g, reply)
  PROVE  GrabInv'
<1>1. grab[g] \in Handler /\ Sound(grab[g], g \in wire) /\ grab[g].at = "sent"
  BY DEF GrabInv, Hear
<1>2. wire' = wire
  BY DEF Hear
<1>3. CASE Retries(grab[g], reply)
  <2> DEFINE h == [grab[g] EXCEPT !.at = "research", !.reply = "none"]
  <2>1. reply = "404" /\ reply = grab[g].reply
    BY <1>3 DEF Retries, Hear
  <2>2. ~ (g \in wire) /\ grab[g].sent = 0
    <3>1. ~ (g \in wire)
      BY <1>1, <2>1 DEF Sound
    <3>2. grab[g].sent \in 0 .. 1 /\ grab[g].sent # 1
      BY <1>1, <2>1, <3>1 DEF Sound, Dispatches, Handler
    <3> QED
      BY <3>1, <3>2
  <2>3. h \in Handler
    BY <1>1 DEF Handler
  <2>4. h.at = "research" /\ h.sent = 0 /\ h.outcome = "none"
    BY <1>1, <2>2 DEF Handler, Sound
  <2>5. Sound(h, g \in wire)
    BY <2>2, <2>4 DEF Sound
  <2>6. grab' = [grab EXCEPT ![g] = h]
    BY <1>3 DEF Hear
  <2> QED
    BY <1>2, <2>3, <2>5, <2>6, OneHandler
<1>4. CASE ~ Retries(grab[g], reply)
  <2> DEFINE h == [Concluded(grab[g], OutcomeOf(reply)) EXCEPT !.reply = reply]
  <2>1. reply = "lost" \/ (reply = grab[g].reply /\ reply # "none")
    BY DEF Hear
  <2>2. OutcomeOf(reply) \in {"not_sent", "sent_unknown", "sent_confirmed"}
    BY DEF OutcomeOf, Replies
  <2>3. OutcomeOf(reply) = "not_sent" /\ reply # "oversize" => ~ Dispatches(reply)
          /\ reply # "lost"
    BY DEF OutcomeOf, Replies, Dispatches
  <2>4. h \in Handler
    BY <1>1, <2>2, ConcludedTyped, RepliedTyped
  <2>5. Sound(h, g \in wire)
    <3>1. /\ h.at = (IF OutcomeOf(reply) = "not_sent" THEN "audit" ELSE "record")
          /\ h.outcome = OutcomeOf(reply) /\ h.reply = reply /\ h.sent = grab[g].sent
      BY <1>1 DEF Handler, Concluded
    <3>2. g \in wire => grab[g].sent = 0 /\ reply = "lost"
      BY <1>1, <2>1 DEF Sound
    <3>3. OutcomeOf(reply) = "not_sent" /\ reply # "oversize" => g \notin wire /\ grab[g].sent = 0
      <4> SUFFICES ASSUME OutcomeOf(reply) = "not_sent", reply # "oversize"
                   PROVE  g \notin wire /\ grab[g].sent = 0
        OBVIOUS
      <4>1. ~ Dispatches(reply) /\ reply = grab[g].reply
        BY <2>1, <2>3
      <4>2. g \notin wire
        BY <2>3, <3>2
      <4>3. grab[g].sent \in 0 .. 1 /\ grab[g].sent # 1
        BY <1>1, <4>1, <4>2 DEF Sound, Handler
      <4> QED
        BY <4>2, <4>3
    <3> HIDE DEF h
    <3> QED
      BY <2>2, <3>1, <3>2, <3>3 DEF Sound
  <2>6. grab' = [grab EXCEPT ![g] = h]
    BY <1>4 DEF Hear
  <2> QED
    BY <1>2, <2>4, <2>5, <2>6, OneHandler
<1> QED
  BY <1>3, <1>4

\* The steps that end in a record or in an audit row, and those that only go on.
LEMMA HandlerKeeps ==
  ASSUME GrabInv, NEW g \in Grabs, NEW ok \in BOOLEAN,
         Preflight(g, ok) \/ ReSearch(g, ok) \/ Record(g, ok) \/ Audit(g, ok)
  PROVE  GrabInv'
<1>1. grab[g] \in Handler /\ Sound(grab[g], g \in wire) /\ wire' = wire
  BY DEF GrabInv, Preflight, ReSearch, Record, Audit
<1>2. CASE Preflight(g, ok)
  <2> DEFINE h == IF ok THEN [grab[g] EXCEPT !.at = "post"] ELSE Concluded(grab[g], "not_sent")
  <2>1. h \in Handler /\ Sound(h, g \in wire)
    <3>1. grab[g].at = "preflight"
      BY <1>2 DEF Preflight
    <3>2. CASE ok
      <4> DEFINE n == [grab[g] EXCEPT !.at = "post"]
      <4>1. /\ n \in Handler /\ n.at = "post"
            /\ n.sent = grab[g].sent /\ n.outcome = grab[g].outcome
        BY <1>1 DEF Handler
      <4> HIDE DEF n
      <4>2. Sound(n, g \in wire)
        BY <1>1, <3>1, <4>1 DEF Sound
      <4> QED
        BY <3>2, <4>1, <4>2 DEF n
    <3>3. CASE ~ ok
      BY <1>1, <3>1, <3>3, GivesUp
    <3> QED
      BY <3>2, <3>3
  <2>2. grab' = [grab EXCEPT ![g] = h]
    BY <1>2 DEF Preflight
  <2> QED
    BY <1>1, <2>1, <2>2, OneHandler
<1>3. CASE ReSearch(g, ok)
  <2> DEFINE h == IF ok THEN [grab[g] EXCEPT !.at = "post", !.retried = TRUE]
                  ELSE Concluded(grab[g], "not_sent")
  <2>1. h \in Handler /\ Sound(h, g \in wire)
    <3>1. grab[g].at = "research"
      BY <1>3 DEF ReSearch
    <3>2. CASE ok
      <4> DEFINE n == [grab[g] EXCEPT !.at = "post", !.retried = TRUE]
      <4>1. /\ n \in Handler /\ n.at = "post"
            /\ n.sent = grab[g].sent /\ n.outcome = grab[g].outcome
        BY <1>1 DEF Handler
      <4> HIDE DEF n
      <4>2. Sound(n, g \in wire)
        BY <1>1, <3>1, <4>1 DEF Sound
      <4> QED
        BY <3>2, <4>1, <4>2 DEF n
    <3>3. CASE ~ ok
      BY <1>1, <3>1, <3>3, GivesUp
    <3> QED
      BY <3>2, <3>3
  <2>2. grab' = [grab EXCEPT ![g] = h]
    BY <1>3 DEF ReSearch
  <2> QED
    BY <1>1, <2>1, <2>2, OneHandler
<1>4. CASE Record(g, ok)
  <2> DEFINE p == CASE ok /\ grab[g].outcome = "sent_confirmed" -> "confirmed"
                    [] ok /\ grab[g].outcome = "sent_unknown" -> "unconfirmed"
                    [] ~ok -> IF grab[g].ctx = "alive" THEN "db_error" ELSE "lost"
             h == [grab[g] EXCEPT !.at = "audit", !.provenance = p]
  <2>1. p \in {"confirmed", "unconfirmed", "lost", "db_error"}
    BY <1>1, <1>4 DEF Handler, Sound, Record
  <2>2. h \in Handler /\ Sound(h, g \in wire)
    <3> HIDE DEF p
    <3>1. h \in Handler
      <4> DEFINE k == [grab[g] EXCEPT !.provenance = p]
      <4>1. k \in Handler
        BY <1>1, <2>1 DEF Handler
      <4>2. h = [k EXCEPT !.at = "audit"]
        BY <1>1 DEF Handler
      <4> HIDE DEF k, h
      <4> QED
        BY <4>1, <4>2, MovedTyped
    <3>2. /\ h.at = "audit" /\ h.outcome = grab[g].outcome /\ h.sent = grab[g].sent
          /\ h.reply = grab[g].reply
      BY <1>1 DEF Handler
    <3>3. grab[g].at = "record"
      BY <1>4 DEF Record
    <3> HIDE DEF h
    <3> QED
      BY <1>1, <3>1, <3>2, <3>3 DEF Sound
  <2>3. grab' = [grab EXCEPT ![g] = h]
    <3>1. grab' = [grab EXCEPT ![g].at = "audit", ![g].provenance = p]
      BY <1>4 DEF Record
    <3> HIDE DEF p
    <3> QED
      BY <3>1 DEF GrabInv
  <2> QED
    BY <1>1, <2>2, <2>3, OneHandler
<1>5. CASE Audit(g, ok)
  <2> DEFINE a == CASE ok -> grab[g].outcome
                    [] ~ok -> IF grab[g].ctx = "left" THEN "lost" ELSE "db_error"
             h == [grab[g] EXCEPT !.at = "over", !.audit = a]
  <2>1. grab[g].at = "audit" /\ grab[g].outcome \in {"not_sent", "sent_unknown", "sent_confirmed"}
    BY <1>1, <1>5 DEF Handler, Sound, Audit
  <2>2. /\ a \in {"not_sent", "sent_unknown", "sent_confirmed", "lost", "db_error"}
        /\ grab[g].outcome = "not_sent" \/ a \in {"sent_unknown", "sent_confirmed", "db_error"}
             \/ grab[g].ctx = "left"
    BY <2>1
  <2>3. h \in Handler
    <3>1. a \in {"none", "not_sent", "sent_unknown", "sent_confirmed", "lost", "db_error"}
      BY <2>2
    <3>2. grab[g] \in Handler
      BY <1>1
    <3> DEFINE k == [grab[g] EXCEPT !.audit = a]
    <3> HIDE DEF a
    <3>3. k \in Handler
      BY <3>1, <3>2 DEF Handler
    <3>4. h = [k EXCEPT !.at = "over"]
      BY <3>2 DEF Handler
    <3> HIDE DEF k, h
    <3> QED
      BY <3>3, <3>4, MovedTyped
  <2>4. /\ h.at = "over" /\ h.audit = a /\ h.outcome = grab[g].outcome /\ h.sent = grab[g].sent
        /\ h.reply = grab[g].reply /\ h.ctx = grab[g].ctx
    BY <1>1 DEF Handler
  <2>5. Sound(h, g \in wire)
    <3> HIDE DEF a, h
    <3> QED
      BY <1>1, <2>1, <2>2, <2>4 DEF Sound
  <2>6. grab' = [grab EXCEPT ![g] = h]
    <3>1. grab' = [grab EXCEPT ![g].at = "over", ![g].audit = a]
      BY <1>5 DEF Audit
    <3> HIDE DEF a
    <3> QED
      BY <3>1 DEF GrabInv
  <2> QED
    BY <1>1, <2>3, <2>5, <2>6, OneHandler
<1> QED
  BY <1>2, <1>3, <1>4, <1>5

\* A grab begins, or its context ends.
LEMMA RequestKeeps ==
  ASSUME GrabInv, NEW g \in Grabs,
         \/ \E c \in CandidateRows : StartGrab(g, c)
         \/ \E why \in {"late", "left"} : EndContext(g, why)
  PROVE  GrabInv'
<1>1. grab[g] \in Handler /\ Sound(grab[g], g \in wire) /\ wire' = wire
  BY DEF GrabInv, StartGrab, EndContext
<1>2. ASSUME NEW c \in CandidateRows, StartGrab(g, c)
      PROVE  GrabInv'
  <2> DEFINE h == [NoGrab EXCEPT !.at = "preflight", !.cand = c]
  <2>1. h \in Handler /\ Sound(h, FALSE)
    <3>1. NoGrab \in Handler /\ NoGrab.sent = 0 /\ NoGrab.outcome = "none"
      BY DEF NoGrab, Handler
    <3>2. h \in Handler
      BY <3>1 DEF Handler
    <3>3. h.at = "preflight" /\ h.sent = 0 /\ h.outcome = "none"
      BY <3>1 DEF Handler
    <3> QED
      BY <3>2, <3>3 DEF Sound
  <2>2. grab' = [grab EXCEPT ![g] = h] /\ g \notin wire
    BY <1>2 DEF StartGrab
  <2>3. Sound(h, g \in wire')
    BY <1>1, <2>1, <2>2 DEF Sound
  <2> QED
    BY <1>1, <2>1, <2>2, <2>3, OneHandler
<1>3. ASSUME NEW why \in {"late", "left"}, EndContext(g, why)
      PROVE  GrabInv'
  <2> DEFINE h == [grab[g] EXCEPT !.ctx = why]
  <2>1. h \in Handler /\ Sound(h, g \in wire)
    BY <1>1, <1>3 DEF Handler, Sound, EndContext
  <2>2. grab' = [grab EXCEPT ![g] = h]
    BY <1>3 DEF EndContext, GrabInv
  <2> QED
    BY <1>1, <2>1, <2>2, OneHandler
<1> QED
  BY <1>2, <1>3

\* Every step keeps what holds of every grab.
LEMMA GrabStep ==
  ASSUME GrabInv, [GrabNext]_grabVars
  PROVE  GrabInv'
<1>1. CASE UNCHANGED <<grab, wire>>
  BY <1>1 DEF GrabInv
<1>2. CASE ProwlarrForgets \/ \E c \in CandidateRows : Offer(c) \/ ExpireCandidate(c)
  BY <1>1, <1>2 DEF ProwlarrForgets, Offer, ExpireCandidate
<1> QED
  BY <1>1, <1>2, HandleKeeps, PostKeeps, HearKeeps, HandlerKeeps, RequestKeeps DEF GrabNext, Step,
          grabVars

\* No grab has begun and none is on the wire.
LEMMA GrabBegins == GrabInit => GrabInv
<1> SUFFICES ASSUME GrabInit PROVE GrabInv
  OBVIOUS
<1>1. NoGrab \in Handler /\ Sound(NoGrab, FALSE)
  BY DEF NoGrab, Handler, Sound
<1>2. \A g \in Grabs : grab[g] = NoGrab /\ g \notin wire
  BY DEF GrabInit
<1>3. \A g \in Grabs : Sound(grab[g], g \in wire)
  BY <1>1, <1>2 DEF Sound
<1> QED
  BY <1>1, <1>3 DEF GrabInit, GrabInv

\* A release is sent once at most; "not sent" is said of nothing that was sent or may yet
\* be; and what was sent is on record (grab.go:235, grab.go:337).
THEOREM GrabCorrect == GrabSpec => []GrabTruthful
<1>1. GrabInv /\ [GrabNext]_grabVars => GrabInv'
  BY GrabStep
<1> QED
  BY <1>1, GrabBegins, GrabInvSuffices, PTL DEF GrabSpec
==============================================================================
