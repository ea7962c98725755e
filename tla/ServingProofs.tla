---------------------------- MODULE ServingProofs -----------------------------
(***************************************************************************)
(* What browsers are served: the event stream, and the read side.            *)
(*                                                                          *)
(* The hub implements the feed, for any tabs, users, queues and rings, and  *)
(* however publishers, handlers, breaks and restarts interleave.  What the  *)
(* proof rests on is what a connection holds (HubInv): its frames rise, each *)
(* is an event behind the browser, and an event its user may see is among   *)
(* them, unless the browser is told of a hole before it, or is dropped and  *)
(* comes back for it.                                                       *)
(*                                                                          *)
(* A request of the read side is statements with transactions in between.   *)
(* What is proved of each kind rests on what it has read so far: a walk of   *)
(* the grid on its position (WalkInv), the counts on the first of the two    *)
(* (FacetsInv), the listing on its parts (ListInv), the search on one        *)
(* statement (SearchInv).                                                   *)
(***************************************************************************)
EXTENDS EventHub, ReadSide, SelectingProofs

Frames == [id : Nat, owner : Owners, n : Nat]

\* How many events were published before this process gave out its first id.
Base == Len(log) - next

OutOf(c) == conn[c].out
QueueOf(c) == conn[c].queue

NumbersIn(s) == {s[k].n : k \in DOMAIN s} \ {0}

\* The numbers of the events on their way to a browser.
Numbers(c) == NumbersIn(OutOf(c)) \cup NumbersIn(QueueOf(c))

\* A browser has been told of a hole, or is about to be; or a restart cost it the event.
Excused(c, m) == told[c] \/ (OutOf(c) # <<>> /\ OutOf(c)[1].n = 0) \/ m =< horizon[c]

Rising(s) == \A j, k \in DOMAIN s : j < k => s[j].n < s[k].n

\* A frame of an event the client may see and has not been shown.
AheadOf(c, f) ==
  /\ f.id > 0 /\ f.n = Base + f.id
  /\ pos[c] < f.n /\ f.n =< Len(log)
  /\ f.owner = log[f.n] /\ VisibleTo(c, f.owner)

HubTyped ==
  /\ next \in Nat /\ log \in Seq(Owners) /\ next =< Len(log)
  /\ DOMAIN conn = Clients
  /\ \A c \in Clients : conn[c] \in [sub : {"none", "live", "dropped"}, out : Seq(Frames),
                                     queue : Seq(Frames)]
  /\ lastId \in [Clients -> Nat] /\ pos \in [Clients -> Nat] /\ told \in [Clients -> BOOLEAN]
  /\ horizon \in [Clients -> Nat]

\* The entries of r are the last events of a log l, of which this process had published n
\* when the newest came, and others b before it.
Latest(r, n, b, l) ==
  /\ r \in Seq(Frames)
  /\ Len(r) =< n /\ (n > 0 => Len(r) > 0)
  /\ \A k \in DOMAIN r :
       /\ r[k].id = n - Len(r) + k
       /\ r[k].n = b + r[k].id
       /\ r[k].owner = l[r[k].n]

\* The ring holds the last events of this process, the newest at its end.
RingInv == Latest(ring, next, Base, log)

\* Where a browser stands: at the event whose id it has, or, with an id of an earlier
\* process's, before this one.
PlaceInv(c) ==
  /\ pos[c] =< Len(log) /\ horizon[c] =< Len(log)
  /\ horizon[c] = 0 /\ lastId[c] > 0 => pos[c] = Base + lastId[c]
  /\ horizon[c] > 0 => lastId[c] > 0 /\ pos[c] =< Base

FramesInv(c) ==
  /\ Rising(OutOf(c)) /\ Rising(QueueOf(c))
  /\ \A j \in DOMAIN OutOf(c), k \in DOMAIN QueueOf(c) : OutOf(c)[j].n < QueueOf(c)[k].n
  /\ \A j \in DOMAIN OutOf(c) :
       \/ OutOf(c)[j].n = 0 /\ OutOf(c)[j].id = lastId[c] /\ lastId[c] > 0
       \/ AheadOf(c, OutOf(c)[j])
  /\ \A k \in DOMAIN QueueOf(c) : AheadOf(c, QueueOf(c)[k])

\* An event the client may see and has not been shown is on its way, or lies in a hole
\* that is told of first, or comes after everything a dropped or broken connection holds.
CompleteInv(c) ==
  \A m \in (pos[c] + 1) .. Len(log) :
    VisibleTo(c, log[m]) /\ m \notin Numbers(c) =>
      \/ Excused(c, m) /\ \A x \in Numbers(c) : m < x
      \/ conn[c].sub # "live" /\ \A x \in Numbers(c) : x < m

ClientInv(c) == PlaceInv(c) /\ FramesInv(c) /\ CompleteInv(c)

HubInv == HubTyped /\ RingInv /\ \A c \in Clients : ClientInv(c)
------------------------------------------------------------------------------
\* A sequence's head and what is left of it.
LEMMA Behead ==
  ASSUME NEW T, NEW s \in Seq(T), s # <<>>
  PROVE  /\ Head(s) = s[1] /\ Head(s) \in T /\ Tail(s) \in Seq(T) /\ 1 \in DOMAIN s
         /\ \A k \in DOMAIN Tail(s) : k + 1 \in DOMAIN s /\ Tail(s)[k] = s[k + 1]
         /\ \A k \in DOMAIN s : k = 1 \/ (k - 1 \in DOMAIN Tail(s) /\ Tail(s)[k - 1] = s[k])
OBVIOUS

\* q is s with an entry put at its end, or s with its first entry gone besides.
Pushes(s, e, q) == q = Append(s, e)
Shifts(s, e, q) == q = Append(Tail(s), e)

\* Arithmetic on the places of a sequence.
LEMMA Before == \A n \in Nat : \A k \in 1 .. n : k # n => k \in 1 .. n - 1 /\ k + 1 \in 1 .. n
OBVIOUS

\* What an entry put at the end of a sequence does.
LEMMA Pushing ==
  ASSUME NEW T, NEW s \in Seq(T), NEW e \in T, NEW q, Pushes(s, e, q)
  PROVE  /\ q \in Seq(T) /\ Len(q) = Len(s) + 1 /\ Len(s) \in Nat
         /\ DOMAIN q = 1 .. Len(s) + 1 /\ DOMAIN s = 1 .. Len(s)
         /\ q[Len(s) + 1] = e
         /\ \A k \in DOMAIN s : q[k] = s[k]
BY DEF Pushes

\* What an entry put at the end does when the first one makes room for it.
LEMMA Shifting ==
  ASSUME NEW T, NEW s \in Seq(T), s # <<>>, NEW e \in T, NEW q, Shifts(s, e, q)
  PROVE  /\ q \in Seq(T) /\ Len(q) = Len(s) /\ Len(s) \in Nat \ {0}
         /\ DOMAIN q = 1 .. Len(s) /\ DOMAIN s = 1 .. Len(s)
         /\ q[Len(s)] = e
         /\ \A k \in 1 .. Len(s) : k # Len(s) => k + 1 \in DOMAIN s /\ q[k] = s[k + 1]
<1>1. PICK t : t = Tail(s)
  OBVIOUS
<1>2. /\ t \in Seq(T) /\ Len(t) = Len(s) - 1
      /\ \A k \in 1 .. Len(s) - 1 : t[k] = s[k + 1]
  BY <1>1
<1>3. Len(s) \in Nat \ {0} /\ DOMAIN s = 1 .. Len(s)
  OBVIOUS
<1>4. Pushes(t, e, q)
  BY <1>1 DEF Pushes, Shifts
<1>5. /\ q \in Seq(T) /\ Len(q) = Len(t) + 1 /\ DOMAIN q = 1 .. Len(t) + 1
      /\ DOMAIN t = 1 .. Len(t) /\ q[Len(t) + 1] = e /\ \A k \in DOMAIN t : q[k] = t[k]
  BY <1>2, <1>4, Pushing
<1>6. PICK n \in Nat \ {0} : n = Len(s)
  BY <1>3
<1>7. Len(t) = n - 1 /\ Len(t) + 1 = n
  BY <1>2, <1>6
<1>8. ASSUME NEW k \in 1 .. n, k # n
      PROVE  k + 1 \in DOMAIN s /\ q[k] = s[k + 1]
  <2>1. k \in 1 .. n - 1 /\ k + 1 \in 1 .. n
    BY <1>8, Before
  <2>2. k \in DOMAIN t
    BY <1>5, <1>7, <2>1
  <2> QED
    BY <1>2, <1>3, <1>5, <1>6, <2>1, <2>2
<1> QED
  BY <1>3, <1>5, <1>6, <1>7, <1>8

\* What the typing says of one connection.
LEMMA Typed ==
  ASSUME HubTyped, NEW c \in Clients
  PROVE  /\ OutOf(c) \in Seq(Frames) /\ QueueOf(c) \in Seq(Frames)
         /\ conn[c] = [sub |-> conn[c].sub, out |-> OutOf(c), queue |-> QueueOf(c)]
         /\ conn[c].sub \in {"none", "live", "dropped"}
         /\ lastId[c] \in Nat /\ pos[c] \in Nat /\ told[c] \in BOOLEAN
         /\ horizon[c] \in Nat
         /\ next \in Nat /\ Len(log) \in Nat /\ Base \in Nat
         /\ \A k \in DOMAIN OutOf(c) : OutOf(c)[k] \in Frames
         /\ \A k \in DOMAIN QueueOf(c) : QueueOf(c)[k] \in Frames
         /\ Numbers(c) \subseteq Nat \ {0}
<1>1. conn[c] \in [sub : {"none", "live", "dropped"}, out : Seq(Frames), queue : Seq(Frames)]
  BY DEF HubTyped
<1>2. OutOf(c) \in Seq(Frames) /\ QueueOf(c) \in Seq(Frames)
  BY <1>1 DEF OutOf, QueueOf
<1>3. /\ conn[c] = [sub |-> conn[c].sub, out |-> OutOf(c), queue |-> QueueOf(c)]
      /\ conn[c].sub \in {"none", "live", "dropped"}
  BY <1>1 DEF OutOf, QueueOf
<1>4. \A s \in Seq(Frames) : \A k \in DOMAIN s : s[k] \in Frames
  OBVIOUS
<1>5. /\ \A k \in DOMAIN OutOf(c) : OutOf(c)[k] \in Frames
      /\ \A k \in DOMAIN QueueOf(c) : QueueOf(c)[k] \in Frames
  BY <1>2, <1>4
<1>6. \A f \in Frames : f.n \in Nat
  BY DEF Frames
<1>7. Numbers(c) \subseteq Nat \ {0}
  BY <1>5, <1>6 DEF Numbers, NumbersIn
<1>8. /\ lastId[c] \in Nat /\ pos[c] \in Nat /\ told[c] \in BOOLEAN /\ horizon[c] \in Nat
      /\ next \in Nat /\ Len(log) \in Nat /\ Base \in Nat
  BY DEF HubTyped, Base
<1> QED
  BY <1>2, <1>3, <1>5, <1>7, <1>8

\* A connection is as it was, and so is its browser.
Alike(c) ==
  /\ conn'[c] = conn[c] /\ lastId'[c] = lastId[c] /\ pos'[c] = pos[c] /\ told'[c] = told[c]
  /\ horizon'[c] = horizon[c]

\* What holds of a connection goes on holding as long as nothing of it changes.
LEMMA AlikeKeeps ==
  ASSUME NEW c \in Clients, ClientInv(c), Alike(c), UNCHANGED <<log, next>>
  PROVE  ClientInv(c)'
<1>1. OutOf(c)' = OutOf(c) /\ QueueOf(c)' = QueueOf(c) /\ Base' = Base
  BY DEF Alike, OutOf, QueueOf, Base
<1>2. /\ lastId'[c] = lastId[c] /\ pos'[c] = pos[c] /\ told'[c] = told[c]
      /\ horizon'[c] = horizon[c] /\ conn'[c].sub = conn[c].sub
  BY DEF Alike
<1>3. PlaceInv(c)'
  BY <1>1, <1>2 DEF ClientInv, PlaceInv
<1>4. \A f : AheadOf(c, f)' <=> AheadOf(c, f)
  BY <1>1, <1>2 DEF AheadOf, VisibleTo
<1>5. FramesInv(c)'
  BY <1>1, <1>2, <1>4 DEF ClientInv, FramesInv, Rising
<1>6. Numbers(c)' = Numbers(c) /\ \A m : Excused(c, m)' <=> Excused(c, m)
  BY <1>1, <1>2 DEF Numbers, NumbersIn, Excused
<1>7. CompleteInv(c)'
  BY <1>2, <1>6 DEF ClientInv, CompleteInv, VisibleTo
<1> QED
  BY <1>3, <1>5, <1>7 DEF ClientInv

\* The ring goes on holding the last events as long as there are no new ones.
LEMMA RingAlike ==
  ASSUME RingInv, UNCHANGED <<log, next, ring>>
  PROVE  RingInv'
BY DEF RingInv, Base

\* Nothing is on its way over a connection that is gone.
LEMMA GoneKeeps ==
  ASSUME HubTyped, HubTyped', NEW c \in Clients, conn'[c] = Gone, PlaceInv(c)'
  PROVE  ClientInv(c)'
<1>1. OutOf(c)' = <<>> /\ QueueOf(c)' = <<>> /\ conn'[c].sub = "none"
  BY DEF OutOf, QueueOf, Gone
<1>2. Numbers(c)' = {}
  BY <1>1 DEF Numbers, NumbersIn
<1>3. FramesInv(c)'
  BY <1>1 DEF FramesInv, Rising
<1>4. CompleteInv(c)'
  BY <1>1, <1>2 DEF CompleteInv
<1> QED
  BY <1>3, <1>4 DEF ClientInv
------------------------------------------------------------------------------
(* Publishing.                                                               *)

\* A new event leaves what was ahead of a browser ahead of it.
LEMMA StillAhead ==
  ASSUME HubTyped, NEW owner \in Owners, log' = Append(log, owner), next' = next + 1
  PROVE  /\ Base' = Base /\ Len(log') = Len(log) + 1 /\ log' \in Seq(Owners)
         /\ log'[Len(log) + 1] = owner
         /\ \A m \in 1 .. Len(log) : log'[m] = log[m]
         /\ \A c \in Clients : pos'[c] = pos[c] =>
              \A f \in Frames : AheadOf(c, f) => AheadOf(c, f)' /\ f.n \in 1 .. Len(log)
<1>1. /\ Len(log') = Len(log) + 1 /\ log' \in Seq(Owners) /\ log'[Len(log) + 1] = owner
      /\ \A m \in 1 .. Len(log) : log'[m] = log[m]
  BY DEF HubTyped
<1>2. Base' = Base
  BY <1>1 DEF HubTyped, Base
<1>3. ASSUME NEW c \in Clients, pos'[c] = pos[c], NEW f \in Frames, AheadOf(c, f)
      PROVE  AheadOf(c, f)' /\ f.n \in 1 .. Len(log)
  <2>1. f.n \in Nat /\ pos[c] \in Nat /\ Len(log) \in Nat
    BY DEF Frames, HubTyped
  <2>2. f.n \in 1 .. Len(log)
    BY <1>3, <2>1 DEF AheadOf
  <2>3. log'[f.n] = log[f.n] /\ f.n =< Len(log')
    BY <1>1, <2>1, <2>2
  <2> QED
    BY <1>2, <1>3, <2>2, <2>3 DEF AheadOf, VisibleTo
<1> QED
  BY <1>1, <1>2, <1>3

\* A ring that takes one more event, with room for it or with the oldest making room.
LEMMA LatestGrows ==
  ASSUME NEW r, NEW n \in Nat, NEW b \in Nat, NEW l \in Seq(Owners), NEW o \in Owners,
         Latest(r, n, b, l), Len(l) = b + n, NEW grown, Pushes(l, o, grown),
         NEW ev \in Frames, ev.id = n + 1, ev.n = Len(l) + 1, ev.owner = o,
         NEW q, Pushes(r, ev, q) \/ (r # <<>> /\ Shifts(r, ev, q))
  PROVE  Latest(q, n + 1, b, grown)
<1>1. grown[Len(l) + 1] = o /\ (\A m \in DOMAIN l : grown[m] = l[m]) /\ DOMAIN l = 1 .. Len(l)
  BY Pushing
<1>2. r \in Seq(Frames) /\ Len(r) =< n
  BY DEF Latest
<1>3. PICK h \in Nat : h = Len(r) /\ DOMAIN r = 1 .. h /\ h =< n
  BY <1>2
<1>4. ASSUME NEW k \in DOMAIN r
      PROVE  /\ k \in Nat /\ r[k].id = n - h + k /\ r[k].n = b + r[k].id
             /\ r[k].owner = grown[r[k].n]
  <2>1. /\ r[k].id = n - h + k /\ r[k].n = b + r[k].id /\ r[k].owner = l[r[k].n]
    BY <1>3 DEF Latest
  <2>2. k \in Nat /\ r[k].n \in 1 .. b + n
    BY <1>3, <2>1
  <2> QED
    BY <1>1, <2>1, <2>2
<1>5. ev.n = b + ev.id /\ ev.owner = grown[ev.n]
  BY <1>1
<1>6. CASE Pushes(r, ev, q)
  <2>1. /\ q \in Seq(Frames) /\ Len(q) = h + 1 /\ DOMAIN q = 1 .. h + 1
        /\ q[h + 1] = ev /\ \A k \in DOMAIN r : q[k] = r[k]
    BY <1>2, <1>3, <1>6, Pushing
  <2>2. ASSUME NEW k \in 1 .. h + 1
        PROVE  q[k].id = n + 1 - (h + 1) + k /\ q[k].n = b + q[k].id /\ q[k].owner = grown[q[k].n]
    <3>1. CASE k = h + 1
      BY <1>5, <2>1, <3>1
    <3>2. CASE k # h + 1
      <4>1. k \in DOMAIN r
        BY <1>3, <3>2
      <4>2. n - h + k = n + 1 - (h + 1) + k
        BY <1>3
      <4> QED
        BY <1>4, <2>1, <4>1, <4>2
    <3> QED
      BY <3>1, <3>2
  <2>3. h + 1 =< n + 1 /\ h + 1 > 0
    BY <1>3
  <2> QED
    BY <2>1, <2>2, <2>3 DEF Latest
<1>7. CASE r # <<>> /\ Shifts(r, ev, q)
  <2>1. /\ q \in Seq(Frames) /\ Len(q) = h /\ h # 0 /\ DOMAIN q = 1 .. h /\ q[h] = ev
        /\ \A k \in 1 .. h : k # h => k + 1 \in DOMAIN r /\ q[k] = r[k + 1]
    BY <1>2, <1>3, <1>7, Shifting
  <2>2. ASSUME NEW k \in 1 .. h
        PROVE  q[k].id = n + 1 - h + k /\ q[k].n = b + q[k].id /\ q[k].owner = grown[q[k].n]
    <3>1. CASE k = h
      <4>1. n + 1 - h + k = n + 1
        BY <1>3, <3>1
      <4> QED
        BY <1>5, <2>1, <3>1, <4>1
    <3>2. CASE k # h
      <4>1. k + 1 \in DOMAIN r /\ q[k] = r[k + 1]
        BY <2>1, <3>2
      <4>2. n - h + (k + 1) = n + 1 - h + k
        BY <1>3
      <4> QED
        BY <1>4, <4>1, <4>2
    <3> QED
      BY <3>1, <3>2
  <2>3. h =< n + 1 /\ h > 0
    BY <1>3, <2>1
  <2> QED
    BY <2>1, <2>2, <2>3 DEF Latest
<1> QED
  BY <1>6, <1>7

\* The ring takes the new event.
LEMMA PushedRing ==
  ASSUME HubTyped, RingInv, NEW owner \in Owners, log' = Append(log, owner), next' = next + 1,
         ring' = Pushed([id |-> next + 1, owner |-> owner, n |-> Len(log) + 1])
  PROVE  RingInv'
<1> DEFINE ev == [id |-> next + 1, owner |-> owner, n |-> Len(log) + 1]
<1>1. /\ next \in Nat /\ log \in Seq(Owners) /\ Len(log) \in Nat
      /\ Base \in Nat /\ Len(log) = Base + next
  BY DEF HubTyped, Base
<1>2. ev \in Frames /\ ev.id = next + 1 /\ ev.n = Len(log) + 1 /\ ev.owner = owner
  BY <1>1 DEF Frames
<1> HIDE DEF ev
<1>3. Base' = Base
  BY StillAhead
<1>4. Pushes(ring, ev, ring') \/ (ring # <<>> /\ Shifts(ring, ev, ring'))
  <2>1. Len(ring) = RingLen => ring # <<>>
    BY HubAssumption
  <2> QED
    BY <2>1 DEF Pushed, Pushes, Shifts, ev
<1>5. Pushes(log, owner, log')
  BY DEF Pushes
<1>6. Latest(ring', next + 1, Base, log')
  BY <1>1, <1>2, <1>4, <1>5, LatestGrows DEF RingInv
<1> QED
  BY <1>3, <1>6 DEF RingInv

\* Numbers on their way are of events published and not shown.
LEMMA NumbersBehind ==
  ASSUME HubTyped, NEW c \in Clients, FramesInv(c), NEW x \in Numbers(c)
  PROVE  x \in Nat /\ pos[c] < x /\ x =< Len(log)
<1>1. x \in Nat /\ x # 0
  BY Typed
<1>2. \/ \E k \in DOMAIN OutOf(c) : x = OutOf(c)[k].n
      \/ \E k \in DOMAIN QueueOf(c) : x = QueueOf(c)[k].n
  BY DEF Numbers, NumbersIn
<1> QED
  BY <1>1, <1>2 DEF FramesInv, AheadOf

\* What a step must keep of a browser's events when it publishes one more.
LEMMA PlaceOfPublished ==
  ASSUME HubTyped, NEW c \in Clients, PlaceInv(c), NEW owner \in Owners,
         log' = Append(log, owner), next' = next + 1, UNCHANGED <<lastId, pos, told, horizon>>
  PROVE  PlaceInv(c)'
<1>1. /\ Base' = Base /\ Len(log') = Len(log) + 1 /\ Len(log) \in Nat
      /\ pos[c] \in Nat /\ horizon[c] \in Nat
  BY StillAhead, Typed
<1> QED
  BY <1>1 DEF PlaceInv

\* A subscriber that the event is not put in the queue of: it may not see it, or its
\* stream has ended or ends with this.
LEMMA Unqueued ==
  ASSUME HubTyped, NEW c \in Clients, ClientInv(c), NEW owner \in Owners,
         log' = Append(log, owner), next' = next + 1, UNCHANGED <<lastId, pos, told, horizon>>,
         OutOf(c)' = OutOf(c), QueueOf(c)' = QueueOf(c),
         conn'[c].sub # "live" \/ (conn'[c].sub = conn[c].sub /\ ~ VisibleTo(c, owner))
  PROVE  ClientInv(c)'
<1>1. /\ Base' = Base /\ Len(log') = Len(log) + 1
      /\ log'[Len(log) + 1] = owner /\ \A m \in 1 .. Len(log) : log'[m] = log[m]
      /\ \A f \in Frames : AheadOf(c, f) => AheadOf(c, f)' /\ f.n \in 1 .. Len(log)
  BY StillAhead
<1>2. PlaceInv(c)'
  BY PlaceOfPublished DEF ClientInv
<1>3. FramesInv(c)'
  BY <1>1, Typed DEF FramesInv, ClientInv
<1>4. Numbers(c)' = Numbers(c) /\ \A m : Excused(c, m)' <=> Excused(c, m)
  BY DEF Numbers, NumbersIn, Excused
<1>5. ASSUME NEW m \in (pos'[c] + 1) .. Len(log'), VisibleTo(c, log'[m]), m \notin Numbers(c)'
      PROVE  \/ Excused(c, m)' /\ \A x \in Numbers(c)' : m < x
             \/ conn'[c].sub # "live" /\ \A x \in Numbers(c)' : x < m
  <2>1. pos'[c] = pos[c] /\ pos[c] \in Nat /\ Len(log) \in Nat
    BY Typed
  <2>2. VisibleTo(c, log'[m])
    BY <1>5 DEF VisibleTo
  <2>3. CASE m = Len(log) + 1
    <3>1. conn'[c].sub # "live"
      BY <1>1, <2>2, <2>3
    <3>2. \A x \in Numbers(c) : x < m
      BY <2>1, <2>3, NumbersBehind DEF ClientInv
    <3> QED
      BY <1>4, <3>1, <3>2
  <2>4. CASE m # Len(log) + 1
    <3>1. m \in (pos[c] + 1) .. Len(log) /\ m \in 1 .. Len(log)
      BY <1>1, <2>1, <2>4
    <3>2. VisibleTo(c, log[m])
      BY <1>1, <2>2, <3>1
    <3>3. \/ Excused(c, m) /\ \A x \in Numbers(c) : m < x
          \/ conn[c].sub # "live" /\ \A x \in Numbers(c) : x < m
      BY <1>4, <1>5, <3>1, <3>2 DEF ClientInv, CompleteInv
    <3> QED
      BY <1>4, <3>3
  <2> QED
    BY <2>3, <2>4
<1>6. CompleteInv(c)'
  BY <1>5 DEF CompleteInv
<1> QED
  BY <1>2, <1>3, <1>6 DEF ClientInv

\* A subscriber that the event is put in the queue of.
LEMMA Queued ==
  ASSUME HubTyped, NEW c \in Clients, ClientInv(c), NEW owner \in Owners,
         log' = Append(log, owner), next' = next + 1, UNCHANGED <<lastId, pos, told, horizon>>,
         VisibleTo(c, owner), conn[c].sub = "live", OutOf(c)' = OutOf(c),
         Pushes(QueueOf(c), [id |-> next + 1, owner |-> owner, n |-> Len(log) + 1], QueueOf(c)')
  PROVE  ClientInv(c)'
<1>1. /\ Base' = Base /\ Len(log') = Len(log) + 1
      /\ log'[Len(log) + 1] = owner /\ \A m \in 1 .. Len(log) : log'[m] = log[m]
      /\ \A f \in Frames : AheadOf(c, f) => AheadOf(c, f)' /\ f.n \in 1 .. Len(log)
  BY StillAhead
<1>2. /\ Base \in Nat /\ next \in Nat /\ pos'[c] = pos[c] /\ pos[c] \in Nat /\ Len(log) \in Nat
      /\ QueueOf(c) \in Seq(Frames) /\ OutOf(c) \in Seq(Frames)
  BY Typed
<1>3. pos[c] =< Len(log) /\ Len(log) = Base + next
  BY <1>2 DEF Base, ClientInv, PlaceInv
<1>4. PICK ev \in Frames : /\ Pushes(QueueOf(c), ev, QueueOf(c)')
                          /\ ev.id = next + 1 /\ ev.n = Len(log) + 1 /\ ev.owner = owner
  <2> DEFINE e == [id |-> next + 1, owner |-> owner, n |-> Len(log) + 1]
  <2>1. e \in Frames /\ e.id = next + 1 /\ e.n = Len(log) + 1 /\ e.owner = owner
    BY <1>2 DEF Frames
  <2>2. Pushes(QueueOf(c), e, QueueOf(c)')
    OBVIOUS
  <2> HIDE DEF e
  <2> QED
    BY <2>1, <2>2
<1>5. AheadOf(c, ev)'
  BY <1>1, <1>2, <1>3, <1>4 DEF AheadOf, VisibleTo
<1>6. PICK n0 \in Nat \ {0} :
        /\ DOMAIN QueueOf(c) = 1 .. n0 - 1
        /\ DOMAIN (QueueOf(c)') = 1 .. n0 /\ QueueOf(c)'[n0] = ev
        /\ \A k \in DOMAIN QueueOf(c) : QueueOf(c)'[k] = QueueOf(c)[k]
  <2>1. /\ Len(QueueOf(c)) \in Nat /\ DOMAIN QueueOf(c) = 1 .. Len(QueueOf(c))
        /\ DOMAIN (QueueOf(c)') = 1 .. Len(QueueOf(c)) + 1
        /\ QueueOf(c)'[Len(QueueOf(c)) + 1] = ev
        /\ \A k \in DOMAIN QueueOf(c) : QueueOf(c)'[k] = QueueOf(c)[k]
    BY <1>2, <1>4, Pushing
  <2>2. /\ Len(QueueOf(c)) + 1 \in Nat \ {0} /\ Len(QueueOf(c)) + 1 - 1 = Len(QueueOf(c))
    BY <2>1
  <2> QED
    BY <2>1, <2>2
<1>7. \A k \in 1 .. n0 : k = n0 \/ k \in DOMAIN QueueOf(c)
  BY <1>6
<1>8. PlaceInv(c)'
  BY PlaceOfPublished DEF ClientInv
<1>9. /\ \A j \in DOMAIN OutOf(c) : OutOf(c)[j].n \in Nat /\ OutOf(c)[j].n < ev.n
      /\ \A j \in DOMAIN QueueOf(c) : QueueOf(c)[j].n \in Nat /\ QueueOf(c)[j].n < ev.n
  <2>1. ASSUME NEW f \in Frames, f.n = 0 \/ AheadOf(c, f)
        PROVE  f.n \in Nat /\ f.n < ev.n
    BY <1>2, <1>4, <2>1 DEF AheadOf, Frames
  <2>2. /\ \A j \in DOMAIN OutOf(c) : OutOf(c)[j] \in Frames
        /\ \A j \in DOMAIN QueueOf(c) : QueueOf(c)[j] \in Frames
    BY Typed
  <2> QED
    BY <2>1, <2>2 DEF ClientInv, FramesInv
<1>10. FramesInv(c)'
  <2>1. Rising(OutOf(c))'
    BY DEF ClientInv, FramesInv, Rising
  <2>2. Rising(QueueOf(c)')
    <3>1. ASSUME NEW j \in 1 .. n0, NEW k \in 1 .. n0, j < k
          PROVE  QueueOf(c)'[j].n < QueueOf(c)'[k].n
      <4>1. j # n0
        BY <1>6, <3>1
      <4>2. j \in DOMAIN QueueOf(c)
        BY <1>7, <4>1
      <4> QED
        BY <1>6, <1>7, <1>9, <3>1, <4>2 DEF ClientInv, FramesInv, Rising
    <3> QED
      BY <1>6, <3>1 DEF Rising
  <2>3. \A j \in DOMAIN OutOf(c), k \in 1 .. n0 : OutOf(c)[j].n < QueueOf(c)'[k].n
    BY <1>6, <1>7, <1>9 DEF ClientInv, FramesInv
  <2>4. \A j \in DOMAIN OutOf(c) :
          \/ OutOf(c)[j].n = 0 /\ OutOf(c)[j].id = lastId[c] /\ lastId[c] > 0
          \/ AheadOf(c, OutOf(c)[j])'
    BY <1>1, Typed DEF ClientInv, FramesInv
  <2>5. \A k \in 1 .. n0 : AheadOf(c, QueueOf(c)[k])'
    BY <1>1, <1>5, <1>6, <1>7, Typed DEF ClientInv, FramesInv
  <2> QED
    BY <1>6, <2>1, <2>2, <2>3, <2>4, <2>5 DEF FramesInv, Rising
<1>11. Numbers(c)' = Numbers(c) \cup {Len(log) + 1}
  <2>1. NumbersIn(QueueOf(c))' = NumbersIn(QueueOf(c)) \cup {Len(log) + 1}
    <3>1. n0 \in DOMAIN (QueueOf(c)') /\ DOMAIN QueueOf(c) \subseteq DOMAIN (QueueOf(c)')
      BY <1>6
    <3>2. ev.n # 0
      BY <1>2, <1>4
    <3>3. \A k \in DOMAIN QueueOf(c) : QueueOf(c)'[k].n = QueueOf(c)[k].n
      BY <1>6
    <3>4. \A k \in DOMAIN (QueueOf(c)') : k = n0 \/ k \in DOMAIN QueueOf(c)
      BY <1>6, <1>7
    <3>5. QueueOf(c)'[n0].n = ev.n
      BY <1>6
    <3>6. NumbersIn(QueueOf(c))' = NumbersIn(QueueOf(c)) \cup {ev.n}
      BY <3>1, <3>2, <3>3, <3>4, <3>5 DEF NumbersIn
    <3> QED
      BY <1>4, <3>6
  <2>2. Len(log) + 1 # 0
    BY <1>1
  <2> QED
    BY <2>1, <2>2 DEF Numbers, NumbersIn
<1>12. ASSUME NEW m \in (pos'[c] + 1) .. Len(log'), VisibleTo(c, log'[m]), m \notin Numbers(c)'
       PROVE  Excused(c, m)' /\ \A x \in Numbers(c)' : m < x
  <2>0. m \in (pos[c] + 1) .. Len(log) + 1 /\ m # Len(log) + 1 /\ m \notin Numbers(c)
    BY <1>1, <1>2, <1>11, <1>12
  <2>1. m \in (pos[c] + 1) .. Len(log) /\ m \in 1 .. Len(log) /\ m \notin Numbers(c)
    BY <1>2, <2>0
  <2>2. VisibleTo(c, log[m])
    BY <1>1, <1>12, <2>1 DEF VisibleTo
  <2>3. Excused(c, m) /\ \A x \in Numbers(c) : m < x
    BY <2>1, <2>2 DEF ClientInv, CompleteInv
  <2>4. Excused(c, m)'
    BY <2>3 DEF Excused
  <2>5. m < Len(log) + 1
    BY <1>1, <2>1
  <2> QED
    BY <1>11, <2>3, <2>4, <2>5
<1>13. CompleteInv(c)'
  BY <1>12 DEF CompleteInv
<1> QED
  BY <1>8, <1>10, <1>13 DEF ClientInv

\* An event published: it joins the ring and the queues that have room.
LEMMA PublishKeeps ==
  ASSUME HubInv, HubTyped', NEW owner \in Owners, Publish(owner)
  PROVE  HubInv'
<1> DEFINE ev == [id |-> next + 1, owner |-> owner, n |-> Len(log) + 1]
<1>1. /\ log' = Append(log, owner) /\ next' = next + 1 /\ UNCHANGED <<lastId, pos, told, horizon>>
      /\ ring' = Pushed(ev) /\ \A c \in Clients : conn'[c] = Offered(c, ev)
  BY DEF Publish, histories
<1>2. RingInv'
  BY <1>1, PushedRing DEF HubInv
<1>3. ASSUME NEW c \in Clients
      PROVE  ClientInv(c)'
  <2>1. /\ HubTyped /\ ClientInv(c) /\ conn'[c] = Offered(c, ev) /\ ev.owner = owner
        /\ conn[c] = [sub |-> conn[c].sub, out |-> OutOf(c), queue |-> QueueOf(c)]
    BY <1>1, Typed DEF HubInv
  <2>2. CASE conn[c].sub # "live" \/ ~ VisibleTo(c, owner)
    <3>1. conn'[c] = conn[c]
      BY <2>1, <2>2 DEF Offered
    <3>2. OutOf(c)' = OutOf(c) /\ QueueOf(c)' = QueueOf(c)
      BY <3>1 DEF OutOf, QueueOf
    <3> QED
      BY <1>1, <2>1, <2>2, <3>1, <3>2, Unqueued
  <2>3. CASE conn[c].sub = "live" /\ VisibleTo(c, owner) /\ Len(conn[c].queue) < QueueLen
    <3>1. conn'[c] = [conn[c] EXCEPT !.queue = Append(QueueOf(c), ev)]
      BY <2>1, <2>3 DEF Offered, QueueOf
    <3>2. OutOf(c)' = OutOf(c) /\ QueueOf(c)' = Append(QueueOf(c), ev)
      BY <2>1, <3>1 DEF OutOf, QueueOf
    <3>3. Pushes(QueueOf(c), ev, QueueOf(c)')
      BY <3>2 DEF Pushes
    <3> QED
      BY <1>1, <2>1, <2>3, <3>2, <3>3, Queued
  <2>4. CASE conn[c].sub = "live" /\ VisibleTo(c, owner) /\ ~ (Len(conn[c].queue) < QueueLen)
    <3>1. conn'[c] = [conn[c] EXCEPT !.sub = "dropped"]
      BY <2>1, <2>4 DEF Offered
    <3>2. OutOf(c)' = OutOf(c) /\ QueueOf(c)' = QueueOf(c) /\ conn'[c].sub = "dropped"
      BY <2>1, <3>1 DEF OutOf, QueueOf
    <3> QED
      BY <1>1, <2>1, <3>2, Unqueued
  <2> QED
    BY <2>2, <2>3, <2>4
<1> QED
  BY <1>2, <1>3 DEF HubInv
------------------------------------------------------------------------------
(* Connecting: the replay.                                                   *)

Replayed(c) == Selected(ring, Unseen(c))

\* The entries of a sequence of frames are frames.
LEMMA FramesNumbered ==
  \A q \in Seq(Frames) : \A j \in DOMAIN q : q[j] \in Frames /\ q[j].n \in Nat
<1>1. ASSUME NEW q \in Seq(Frames), NEW j \in DOMAIN q PROVE q[j] \in Frames
  OBVIOUS
<1>2. \A f \in Frames : f.n \in Nat
  BY DEF Frames
<1> QED
  BY <1>1, <1>2

\* q is s with an entry put before it.
Precedes(e, s, q) == q = <<e>> \o s

\* What an entry put at the front of a sequence does.
LEMMA Preceding ==
  ASSUME NEW T, NEW s \in Seq(T), NEW e \in T, NEW q, Precedes(e, s, q)
  PROVE  /\ q \in Seq(T) /\ q # <<>> /\ q[1] = e /\ 1 \in DOMAIN q
         /\ \A k \in DOMAIN q :
              k \in Nat \ {0} /\ (k = 1 \/ (k - 1 \in DOMAIN s /\ q[k] = s[k - 1]))
         /\ \A k \in DOMAIN s : k + 1 \in DOMAIN q /\ q[k + 1] = s[k]
<1>1. /\ q \in Seq(T) /\ Len(q) = Len(s) + 1 /\ q[1] = e
      /\ \A k \in 1 .. Len(s) + 1 : k # 1 => q[k] = s[k - 1]
  BY DEF Precedes
<1>2. PICK n \in Nat : n = Len(s) /\ DOMAIN s = 1 .. n
  OBVIOUS
<1>3. DOMAIN q = 1 .. n + 1 /\ \A k \in 1 .. n + 1 : k # 1 => q[k] = s[k - 1]
  BY <1>1, <1>2
<1>4. /\ \A k \in 1 .. n + 1 : k \in Nat \ {0} /\ (k = 1 \/ k - 1 \in 1 .. n)
      /\ \A k \in 1 .. n : k + 1 \in 1 .. n + 1 /\ k + 1 # 1 /\ (k + 1) - 1 = k
      /\ 1 \in 1 .. n + 1
  OBVIOUS
<1>5. \A k \in 1 .. n : q[k + 1] = s[k]
  BY <1>3, <1>4
<1>6. q # <<>>
  BY <1>3, <1>4
<1> QED
  BY <1>1, <1>2, <1>3, <1>4, <1>5, <1>6

\* What the ring replays: what it has of the events behind the browser's id, in order.
LEMMA ReplayedFrames ==
  ASSUME HubTyped, RingInv, NEW c \in Clients, PlaceInv(c), lastId[c] > 0
  PROVE  /\ Replayed(c) \in Seq(Frames)
         /\ Rising(Replayed(c))
         /\ \A j \in DOMAIN Replayed(c) :
              /\ AheadOf(c, Replayed(c)[j])
              /\ Replayed(c)[j].n > Base + lastId[c]
              /\ Replayed(c)[j].n > Len(log) - Len(ring)
         /\ \A k \in DOMAIN ring :
              ring[k].id > lastId[c] /\ VisibleTo(c, ring[k].owner) =>
                \E j \in DOMAIN Replayed(c) : Replayed(c)[j] = ring[k]
<1>1. /\ ring \in Seq(Frames) /\ Len(ring) =< next
      /\ \A k \in DOMAIN ring :
           /\ ring[k].id = next - Len(ring) + k
           /\ ring[k].n = Base + ring[k].id
           /\ ring[k].owner = log[ring[k].n]
  BY DEF RingInv, Latest
<1>2. PICK h \in Nat : h = Len(ring) /\ DOMAIN ring = 1 .. h /\ h =< next
  BY <1>1
<1>3. /\ lastId[c] \in Nat /\ pos[c] \in Nat /\ horizon[c] \in Nat
      /\ next \in Nat /\ Base \in Nat /\ Len(log) \in Nat
  BY Typed
<1>4. Len(log) = Base + next
  BY <1>3 DEF Base
<1>5. ASSUME NEW k \in 1 .. h
      PROVE  /\ ring[k] \in Frames /\ ring[k].n = Len(log) - h + k
             /\ ring[k].id > lastId[c] /\ VisibleTo(c, ring[k].owner) =>
                  AheadOf(c, ring[k]) /\ ring[k].n > Base + lastId[c]
  <2>1. ring[k] \in Frames
    BY <1>1, <1>2
  <2>2. ring[k].id = next - h + k /\ ring[k].n = Base + ring[k].id /\ ring[k].owner = log[ring[k].n]
    BY <1>1, <1>2
  <2>3. ring[k].n = Len(log) - h + k /\ ring[k].n =< Len(log) /\ ring[k].n \in Nat
    BY <1>2, <1>3, <1>4, <2>2
  <2>4. ASSUME ring[k].id > lastId[c], VisibleTo(c, ring[k].owner)
        PROVE  AheadOf(c, ring[k]) /\ ring[k].n > Base + lastId[c]
    <3>1. ring[k].id \in Nat
      BY <2>1 DEF Frames
    <3>2. ring[k].id > 0 /\ pos[c] < ring[k].n /\ ring[k].n > Base + lastId[c]
      BY <1>3, <2>2, <2>4, <3>1 DEF PlaceInv
    <3> QED
      BY <2>2, <2>3, <2>4, <3>2 DEF AheadOf
  <2> QED
    BY <2>1, <2>3, <2>4
<1>6. /\ Replayed(c) \in Seq(Frames)
      /\ Chosen(ring, Unseen(c), h, Replayed(c)) /\ InOrder(ring, h, Replayed(c))
  BY <1>1, <1>2, SelectedEntries DEF Replayed
<1>7. \A x : x \in Unseen(c) <=> /\ \E k \in 1 .. h : ring[k] = x
                                /\ x.id > lastId[c] /\ VisibleTo(c, x.owner)
  BY <1>2 DEF Unseen, Range
<1>8. ASSUME NEW j \in DOMAIN Replayed(c)
      PROVE  /\ AheadOf(c, Replayed(c)[j])
             /\ Replayed(c)[j].n > Base + lastId[c]
             /\ Replayed(c)[j].n > Len(log) - Len(ring)
  <2>1. PICK k \in 1 .. h : /\ ring[k] = Replayed(c)[j]
                            /\ ring[k].id > lastId[c] /\ VisibleTo(c, ring[k].owner)
    BY <1>6, <1>7 DEF Chosen
  <2>2. ring[k].n = Len(log) - h + k
    BY <1>5
  <2>3. ring[k].n > Len(log) - h
    BY <1>3, <2>2
  <2> QED
    BY <1>2, <1>5, <2>1, <2>3
<1>9. ASSUME NEW k \in DOMAIN ring, ring[k].id > lastId[c], VisibleTo(c, ring[k].owner)
      PROVE  \E j \in DOMAIN Replayed(c) : Replayed(c)[j] = ring[k]
  BY <1>2, <1>6, <1>7, <1>9 DEF Chosen
<1>10. Rising(Replayed(c))
  <2>1. ASSUME NEW j \in DOMAIN Replayed(c), NEW k \in DOMAIN Replayed(c), j < k
        PROVE  Replayed(c)[j].n < Replayed(c)[k].n
    <3>1. PICK a \in 1 .. h, b \in 1 .. h :
            a < b /\ Replayed(c)[j] = ring[a] /\ Replayed(c)[k] = ring[b]
      BY <1>6, <2>1 DEF InOrder
    <3>2. ring[a].n = Len(log) - h + a /\ ring[b].n = Len(log) - h + b
      BY <1>5
    <3>3. Len(log) - h + a < Len(log) - h + b
      BY <1>3, <3>1
    <3> QED
      BY <3>1, <3>2, <3>3
  <2> QED
    BY <2>1 DEF Rising
<1> QED
  BY <1>6, <1>8, <1>9, <1>10

\* The word that events were missed, before a replay that rises.
LEMMA WordFirst ==
  ASSUME NEW e \in Frames, e.n = 0, NEW q \in Seq(Frames), Rising(q),
         \A j \in DOMAIN q : q[j].n # 0,
         NEW out, Precedes(e, q, out)
  PROVE  /\ Rising(out) /\ out # <<>> /\ out[1] = e
         /\ \A j \in DOMAIN out : out[j] = e \/ \E k \in DOMAIN q : out[j] = q[k]
         /\ NumbersIn(out) = NumbersIn(q)
<1>1. /\ out # <<>> /\ out[1] = e /\ 1 \in DOMAIN out
      /\ \A k \in DOMAIN out :
           k \in Nat \ {0} /\ (k = 1 \/ (k - 1 \in DOMAIN q /\ out[k] = q[k - 1]))
      /\ \A k \in DOMAIN q : k + 1 \in DOMAIN out /\ out[k + 1] = q[k]
  BY Preceding
<1>2. \A k \in DOMAIN q : q[k].n \in Nat \ {0}
  BY FramesNumbered
<1>3. ASSUME NEW j \in DOMAIN out, NEW k \in DOMAIN out, j < k
      PROVE  out[j].n < out[k].n
  <2>1. j \in Nat \ {0} /\ k \in Nat \ {0} /\ k # 1
    BY <1>1, <1>3
  <2>2. k - 1 \in DOMAIN q /\ out[k] = q[k - 1]
    BY <1>1, <2>1
  <2>3. CASE j = 1
    BY <1>1, <1>2, <2>2, <2>3
  <2>4. CASE j # 1
    <3>1. j - 1 \in DOMAIN q /\ out[j] = q[j - 1]
      BY <1>1, <2>4
    <3>2. j - 1 < k - 1
      BY <1>3, <2>1
    <3> QED
      BY <2>2, <3>1, <3>2 DEF Rising
  <2> QED
    BY <2>3, <2>4
<1>4. \A j \in DOMAIN out : out[j] = e \/ \E k \in DOMAIN q : out[j] = q[k]
  BY <1>1
<1>5. NumbersIn(out) = NumbersIn(q)
  <2>1. ASSUME NEW k \in DOMAIN out, out[k].n # 0
        PROVE  \E j \in DOMAIN q : out[k].n = q[j].n
    BY <1>4, <2>1
  <2>2. ASSUME NEW k \in DOMAIN q
        PROVE  q[k].n # 0 /\ \E j \in DOMAIN out : out[j].n = q[k].n
    BY <1>1, <1>2
  <2> QED
    BY <2>1, <2>2 DEF NumbersIn
<1>6. Rising(out)
  BY <1>3 DEF Rising
<1> QED
  BY <1>1, <1>4, <1>5, <1>6

\* out is what a browser that has an id is answered with.
Answers(c, out) == out = Word(c) \o Replayed(c)

\* What a browser that comes back is answered with rises, is ahead of the browser, and
\* starts with the word when the ring no longer reaches back to its id.
LEMMA AnswerFrames ==
  ASSUME HubTyped, RingInv, NEW c \in Clients, PlaceInv(c), lastId[c] > 0, NEW out,
         Answers(c, out)
  PROVE  /\ Rising(out)
         /\ \A j \in DOMAIN out : (out[j].n = 0 /\ out[j].id = lastId[c]) \/ AheadOf(c, out[j])
         /\ NumbersIn(out) = NumbersIn(Replayed(c))
         /\ RingStartsPast(lastId[c]) => out # <<>> /\ out[1].n = 0
<1>1. PICK q : q = Replayed(c)
  OBVIOUS
<1>2. q \in Seq(Frames) /\ Rising(q) /\ \A j \in DOMAIN q : AheadOf(c, q[j])
  BY <1>1, ReplayedFrames
<1>3. lastId[c] \in Nat /\ pos[c] \in Nat
  BY Typed
<1>4. ASSUME NEW j \in DOMAIN q
      PROVE  q[j].n \in Nat /\ q[j].n # 0
  <2>1. q[j] \in Frames /\ pos[c] < q[j].n
    BY <1>2 DEF AheadOf
  <2> QED
    BY <1>3, <2>1 DEF Frames
<1>5. CASE RingStartsPast(lastId[c])
  <2> DEFINE w == MissedFrame(lastId[c])
  <2>1. w \in Frames /\ w.n = 0 /\ w.id = lastId[c]
    BY <1>3, HubAssumption DEF MissedFrame, Frames
  <2>2. Precedes(w, q, out)
    BY <1>1, <1>5 DEF Word, Precedes, Answers
  <2> HIDE DEF w
  <2>3. /\ Rising(out) /\ out # <<>> /\ out[1] = w
        /\ \A j \in DOMAIN out : out[j] = w \/ \E k \in DOMAIN q : out[j] = q[k]
        /\ NumbersIn(out) = NumbersIn(q)
    <3>1. \A j \in DOMAIN q : q[j].n # 0
      BY <1>4
    <3> QED
      BY <1>2, <2>1, <2>2, <3>1, WordFirst
  <2> QED
    BY <1>1, <1>2, <2>1, <2>3
<1>6. CASE ~ RingStartsPast(lastId[c])
  <2>1. out = <<>> \o q
    BY <1>1, <1>6 DEF Word, Answers
  <2>2. out = q
    BY <1>2, <2>1
  <2> QED
    BY <1>1, <1>2, <1>6, <2>2
<1> QED
  BY <1>5, <1>6

\* A browser that comes back finds the events it has not been shown in the replay, or is
\* told first that some are gone.
LEMMA ReplayKeeps ==
  ASSUME HubTyped, RingInv, NEW c \in Clients, PlaceInv(c), lastId[c] > 0,
         UNCHANGED <<log, next, lastId, told>>, pos'[c] = pos[c],
         horizon'[c] = IF horizon[c] > 0 THEN Len(log) ELSE 0,
         Answers(c, OutOf(c)'), QueueOf(c)' = <<>>
  PROVE  ClientInv(c)'
<1>1. PICK q : /\ q = Replayed(c) /\ q \in Seq(Frames)
               /\ \A j \in DOMAIN q : q[j].n > Base + lastId[c] /\ q[j].n > Len(log) - Len(ring)
               /\ \A k \in DOMAIN ring : ring[k].id > lastId[c] /\ VisibleTo(c, ring[k].owner) =>
                    \E j \in DOMAIN q : q[j] = ring[k]
  BY ReplayedFrames
<1>2. /\ lastId[c] \in Nat /\ pos[c] \in Nat /\ horizon[c] \in Nat
      /\ next \in Nat /\ Base \in Nat /\ Len(log) \in Nat
      /\ Base' = Base
  BY Typed DEF Base
<1>3. \A j \in DOMAIN q : q[j].n \in Nat
  BY <1>1, FramesNumbered
<1>4. PICK out : /\ out = OutOf(c)' /\ Rising(out)
                 /\ \A j \in DOMAIN out :
                      \/ out[j].n = 0 /\ out[j].id = lastId[c]
                      \/ AheadOf(c, out[j])
                 /\ NumbersIn(out) = NumbersIn(q)
                 /\ RingStartsPast(lastId[c]) => out # <<>> /\ out[1].n = 0
  <2>1. PICK out : out = OutOf(c)'
    OBVIOUS
  <2>2. Answers(c, out)
    BY <2>1
  <2>3. /\ Rising(out)
        /\ \A j \in DOMAIN out : (out[j].n = 0 /\ out[j].id = lastId[c]) \/ AheadOf(c, out[j])
        /\ NumbersIn(out) = NumbersIn(q)
        /\ RingStartsPast(lastId[c]) => out # <<>> /\ out[1].n = 0
    BY <1>1, <2>2, AnswerFrames
  <2> QED
    BY <2>1, <2>3
<1>5. Numbers(c)' = NumbersIn(q)
  <2>1. NumbersIn(QueueOf(c))' = {}
    BY DEF NumbersIn
  <2>2. NumbersIn(OutOf(c))' = NumbersIn(q)
    BY <1>4 DEF NumbersIn
  <2> QED
    BY <2>1, <2>2 DEF Numbers
<1>6. PlaceInv(c)'
  BY <1>2 DEF PlaceInv
<1>7. FramesInv(c)'
  <2>1. \A f : AheadOf(c, f)' <=> AheadOf(c, f)
    BY <1>2 DEF AheadOf, VisibleTo
  <2> QED
    BY <1>4, <2>1 DEF FramesInv, Rising
<1>8. ASSUME NEW m \in (pos[c] + 1) .. Len(log), VisibleTo(c, log[m]), m \notin Numbers(c)'
      PROVE  Excused(c, m)' /\ \A x \in Numbers(c)' : m < x
  <2>1. /\ ring \in Seq(Frames) /\ Len(ring) =< next /\ (next > 0 => Len(ring) > 0)
        /\ \A k \in DOMAIN ring :
             /\ ring[k].id = next - Len(ring) + k
             /\ ring[k].n = Base + ring[k].id
             /\ ring[k].owner = log[ring[k].n]
    BY DEF RingInv, Latest
  <2>2. PICK h \in Nat : h = Len(ring) /\ DOMAIN ring = 1 .. h /\ h =< next
    BY <2>1
  <2>3. m \in Nat /\ pos[c] < m /\ m =< Len(log) /\ Len(log) = Base + next
    BY <1>2, <1>8 DEF Base
  <2>4. \/ pos[c] = Base + lastId[c]
        \/ Excused(c, m)'
    <3>1. horizon[c] \in Nat
      BY DEF HubTyped
    <3>2. CASE horizon[c] = 0
      BY <3>2 DEF PlaceInv
    <3>3. CASE horizon[c] > 0
      BY <2>3, <3>3 DEF Excused
    <3> QED
      BY <3>1, <3>2, <3>3
  <2>5. \A x \in Numbers(c)' : x \in Nat /\ x > Base + lastId[c] /\ x > Len(log) - h
    BY <1>1, <1>3, <1>5, <2>2 DEF NumbersIn
  <2>6. CASE m > Len(log) - h
    <3>1. PICK k \in DOMAIN ring : k = m - (Len(log) - h)
      <4>1. m \in Nat /\ h \in Nat /\ Len(log) \in Nat /\ m =< Len(log)
        BY <1>2, <2>2, <2>3
      <4>2. m - (Len(log) - h) \in 1 .. h
        BY <2>6, <4>1
      <4>3. m - (Len(log) - h) \in DOMAIN ring
        BY <2>2, <4>2
      <4> QED
        BY <4>3
    <3>2. /\ ring[k].id = next - h + k /\ ring[k].n = Base + ring[k].id
          /\ ring[k].owner = log[ring[k].n]
      BY <2>1, <2>2
    <3>3. ring[k].n = m /\ ring[k].id = m - Base
      <4>1. h \in Nat /\ Base \in Int /\ next \in Int /\ k \in Int
        BY <1>2, <2>2, <2>3, <3>1
      <4> QED
        BY <2>3, <3>1, <3>2, <4>1
    <3>4. ~ (ring[k].id > lastId[c])
      <4>1. SUFFICES ASSUME ring[k].id > lastId[c] PROVE FALSE
        OBVIOUS
      <4>2. PICK j \in DOMAIN q : q[j] = ring[k]
        BY <1>1, <1>8, <3>2, <3>3, <4>1
      <4>3. m \in NumbersIn(q)
        BY <1>2, <2>3, <3>3, <4>2 DEF NumbersIn
      <4> QED
        BY <1>5, <1>8, <4>3
    <3>5. m =< Base + lastId[c]
      BY <1>2, <2>3, <3>3, <3>4
    <3>6. Excused(c, m)'
      BY <1>2, <2>3, <2>4, <3>5
    <3>7. \A x \in Numbers(c)' : m < x
      BY <1>2, <2>3, <2>5, <3>5
    <3> QED
      BY <3>6, <3>7
  <2>7. CASE ~ (m > Len(log) - h)
    <3>1. \A x \in Numbers(c)' : m < x
      BY <1>2, <2>2, <2>3, <2>5, <2>7
    <3>2. CASE Excused(c, m)'
      BY <3>1, <3>2
    <3>3. CASE pos[c] = Base + lastId[c]
      <4>1. next - h > lastId[c]
        BY <1>2, <2>2, <2>3, <2>7, <3>3
      <4>2. h # 0
        BY <1>2, <2>1, <2>2, <4>1
      <4>3. 1 \in DOMAIN ring /\ ring[1].id = next - h + 1
        BY <2>1, <2>2, <4>2
      <4>4. ring[1].id > lastId[c] + 1
        BY <1>2, <2>2, <4>1, <4>3
      <4>5. RingStartsPast(lastId[c])
        BY <2>1, <4>3, <4>4 DEF RingStartsPast
      <4> QED
        BY <1>4, <3>1, <4>5 DEF Excused
    <3> QED
      BY <2>4, <3>2, <3>3
  <2> QED
    BY <2>6, <2>7
<1>9. CompleteInv(c)'
  <2>1. \A m : VisibleTo(c, log'[m]) <=> VisibleTo(c, log[m])
    BY DEF VisibleTo
  <2> QED
    BY <1>8, <2>1 DEF CompleteInv
<1> QED
  BY <1>6, <1>7, <1>9 DEF ClientInv

\* A browser connects: what it is answered with misses nothing it is not told of.
LEMMA ConnectKeeps ==
  ASSUME HubInv, HubTyped', NEW c \in Clients, Connect(c)
  PROVE  HubInv'
<1>1. /\ HubTyped /\ RingInv
      /\ conn' = [conn EXCEPT ![c] = [sub |-> "live", out |-> Replay(c), queue |-> <<>>]]
      /\ pos' = [pos EXCEPT ![c] = IF lastId[c] = 0 THEN Len(log) ELSE @]
      /\ horizon' = [horizon EXCEPT ![c] = IF @ > 0 THEN Len(log) ELSE 0]
      /\ UNCHANGED <<next, ring, lastId, log, told>>
  BY DEF Connect, HubInv
<1>2. RingInv'
  BY <1>1, RingAlike
<1>3. ASSUME NEW d \in Clients \ {c}
      PROVE  ClientInv(d)'
  <2>1. Alike(d)
    BY <1>1 DEF Alike, HubTyped
  <2> QED
    BY <1>1, <2>1, AlikeKeeps DEF HubInv
<1>4. /\ conn'[c] = [sub |-> "live", out |-> Replay(c), queue |-> <<>>]
      /\ pos'[c] = IF lastId[c] = 0 THEN Len(log) ELSE pos[c]
      /\ horizon'[c] = IF horizon[c] > 0 THEN Len(log) ELSE 0
  BY <1>1 DEF HubTyped
<1>5. lastId[c] \in Nat /\ Len(log) \in Nat
  BY <1>1, Typed
<1>6. ClientInv(c)'
  <2>1. CASE lastId[c] = 0
    <3>1. OutOf(c)' = <<>> /\ QueueOf(c)' = <<>> /\ pos'[c] = Len(log)
      BY <1>4, <2>1 DEF OutOf, QueueOf, Replay
    <3>2. FramesInv(c)'
      BY <3>1 DEF FramesInv, Rising
    <3>3. CompleteInv(c)'
      <4>1. \A m \in (pos'[c] + 1) .. Len(log') : FALSE
        BY <1>1, <1>5, <3>1
      <4> QED
        BY <4>1 DEF CompleteInv
    <3>4. PlaceInv(c)'
      BY <1>1, <1>4, <1>5, <2>1, <3>1 DEF PlaceInv, HubInv, ClientInv
    <3> QED
      BY <3>2, <3>3, <3>4 DEF ClientInv
  <2>2. CASE lastId[c] # 0
    <3>1. OutOf(c)' = Word(c) \o Replayed(c) /\ QueueOf(c)' = <<>>
      BY <1>4, <2>2 DEF OutOf, QueueOf, Replay, Replayed
    <3>2. Answers(c, OutOf(c)')
      BY <3>1 DEF Answers
    <3>3. UNCHANGED <<log, next, lastId, told>> /\ pos'[c] = pos[c]
      BY <1>1, <1>4, <2>2
    <3>4. lastId[c] > 0 /\ PlaceInv(c)
      BY <1>5, <2>2 DEF HubInv, ClientInv
    <3> QED
      BY <1>1, <1>4, <3>1, <3>2, <3>3, <3>4, ReplayKeeps
  <2> QED
    BY <2>1, <2>2
<1> QED
  BY <1>2, <1>3, <1>6 DEF HubInv
------------------------------------------------------------------------------
(* Writing: a browser gets the first of the frames on their way to it.       *)

\* Arithmetic on the places of a sequence and of what it leaves.
LEMMA Places ==
  ASSUME NEW h \in Nat, h # 0
  PROVE  /\ \A k \in 1 .. h - 1 : k + 1 \in 1 .. h /\ 1 < k + 1
         /\ \A j, k \in 1 .. h - 1 : j < k => j + 1 < k + 1
         /\ \A k \in 1 .. h : k # 1 => k - 1 \in 1 .. h - 1 /\ (k - 1) + 1 = k /\ 1 < k
         /\ 1 \in 1 .. h
OBVIOUS

\* r is what is left of s without its first entry.
Leaves(s, r) == r = Tail(s)

\* What is left of a sequence of frames that rises, without the first.
LEMMA Leaving ==
  ASSUME NEW s \in Seq(Frames), s # <<>>, Rising(s), NEW r, Leaves(s, r)
  PROVE  /\ 1 \in DOMAIN s /\ Head(s) = s[1] /\ s[1] \in Frames
         /\ Rising(r) /\ \A k \in DOMAIN r : \E j \in DOMAIN s : r[k] = s[j] /\ s[1].n < s[j].n
         /\ NumbersIn(r) = NumbersIn(s) \ {s[1].n}
         /\ s[1].n = 0 \/ s[1].n \in NumbersIn(s)
         /\ \A x \in NumbersIn(s) : s[1].n =< x
<1>1. PICK h \in Nat : h = Len(s) /\ DOMAIN s = 1 .. h
  OBVIOUS
<1>2. h # 0
  BY <1>1
<1>3. DOMAIN r = 1 .. h - 1 /\ \A k \in 1 .. h - 1 : r[k] = s[k + 1]
  BY <1>1, <1>2 DEF Leaves
<1>4. 1 \in DOMAIN s /\ Head(s) = s[1]
  BY <1>1, <1>2
<1>5. \A k \in 1 .. h : s[k] \in Frames /\ s[k].n \in Nat
  BY <1>1, FramesNumbered
<1>6. \A j, k \in 1 .. h : j < k => s[j].n < s[k].n
  BY <1>1 DEF Rising
<1>7. /\ \A k \in 1 .. h - 1 : k + 1 \in 1 .. h /\ 1 < k + 1
      /\ \A j, k \in 1 .. h - 1 : j < k => j + 1 < k + 1
      /\ \A k \in 1 .. h : k # 1 => k - 1 \in 1 .. h - 1 /\ (k - 1) + 1 = k /\ 1 < k
      /\ 1 \in 1 .. h
  BY <1>2, Places
<1>8. Rising(r)
  <2>1. ASSUME NEW j \in 1 .. h - 1, NEW k \in 1 .. h - 1, j < k
        PROVE  r[j].n < r[k].n
    <3>1. j + 1 \in 1 .. h /\ k + 1 \in 1 .. h /\ j + 1 < k + 1
      BY <1>7, <2>1
    <3> QED
      BY <1>3, <1>6, <3>1
  <2> QED
    BY <1>3, <2>1 DEF Rising
<1>9. \A k \in 1 .. h - 1 : r[k] = s[k + 1] /\ s[1].n < s[k + 1].n
  BY <1>3, <1>6, <1>7
<1>10. \A k \in 1 .. h : k # 1 => s[k] = r[k - 1] /\ s[1].n < s[k].n
  BY <1>3, <1>6, <1>7
<1>11. NumbersIn(r) = NumbersIn(s) \ {s[1].n}
  <2>1. ASSUME NEW x \in NumbersIn(r)
        PROVE  x \in NumbersIn(s) /\ x # s[1].n
    <3>1. PICK k \in 1 .. h - 1 : x = r[k].n /\ x # 0
      BY <1>3 DEF NumbersIn
    <3>2. x = s[k + 1].n /\ s[1].n < s[k + 1].n /\ k + 1 \in 1 .. h
      BY <1>7, <1>9, <3>1
    <3>3. s[1].n \in Nat /\ s[k + 1].n \in Nat
      BY <1>5, <1>7
    <3> QED
      BY <1>1, <3>1, <3>2, <3>3 DEF NumbersIn
  <2>2. ASSUME NEW x \in NumbersIn(s), x # s[1].n
        PROVE  x \in NumbersIn(r)
    <3>1. PICK k \in 1 .. h : x = s[k].n /\ x # 0
      BY <1>1 DEF NumbersIn
    <3>2. k - 1 \in 1 .. h - 1 /\ x = r[k - 1].n
      BY <1>7, <1>10, <2>2, <3>1
    <3> QED
      BY <1>3, <3>1, <3>2 DEF NumbersIn
  <2> QED
    BY <2>1, <2>2
<1>12. \A x \in NumbersIn(s) : s[1].n =< x
  <2>1. ASSUME NEW k \in 1 .. h
        PROVE  s[1].n =< s[k].n
    <3>1. s[1].n \in Nat /\ s[k].n \in Nat
      BY <1>5, <1>7
    <3>2. k = 1 \/ s[1].n < s[k].n
      BY <1>10
    <3> QED
      BY <3>1, <3>2
  <2> QED
    BY <1>1, <2>1 DEF NumbersIn
<1>13. s[1].n = 0 \/ s[1].n \in NumbersIn(s)
  BY <1>4 DEF NumbersIn
<1>14. \A k \in DOMAIN r : \E j \in DOMAIN s : r[k] = s[j] /\ s[1].n < s[j].n
  BY <1>1, <1>3, <1>7, <1>9
<1> QED
  BY <1>4, <1>5, <1>7, <1>8, <1>11, <1>12, <1>13, <1>14

\* f is the first of the frames on their way: the word of a hole, or the first event.
Coming(c, f) ==
  /\ (f.n = 0 /\ f.id = lastId[c] /\ lastId[c] > 0) \/ AheadOf(c, f)
  /\ f.n # 0 => ~ (OutOf(c) # <<>> /\ OutOf(c)[1].n = 0)
  /\ f.n = 0 \/ f.n \in Numbers(c)
  /\ \A x \in Numbers(c) : f.n =< x

\* The first frame of a replay is the first on its way.
LEMMA ReplayComing ==
  ASSUME HubTyped, NEW c \in Clients, FramesInv(c), OutOf(c) # <<>>
  PROVE  /\ Head(OutOf(c)) \in Frames /\ Coming(c, Head(OutOf(c)))
         /\ \A k \in DOMAIN QueueOf(c) : Head(OutOf(c)).n < QueueOf(c)[k].n
<1>1. OutOf(c) \in Seq(Frames) /\ QueueOf(c) \in Seq(Frames)
  BY Typed
<1>2. PICK r : Leaves(OutOf(c), r)
  BY DEF Leaves
<1>3. PICK f : f = Head(OutOf(c)) /\ f = OutOf(c)[1]
  BY <1>1, <1>2, Leaving DEF FramesInv
<1>4. /\ 1 \in DOMAIN OutOf(c) /\ f \in Frames
      /\ f.n = 0 \/ f.n \in NumbersIn(OutOf(c))
      /\ \A x \in NumbersIn(OutOf(c)) : f.n =< x
  BY <1>1, <1>2, <1>3, Leaving DEF FramesInv
<1>5. /\ (f.n = 0 /\ f.id = lastId[c] /\ lastId[c] > 0) \/ AheadOf(c, f)
      /\ f.n # 0 => ~ (OutOf(c) # <<>> /\ OutOf(c)[1].n = 0)
      /\ \A k \in DOMAIN QueueOf(c) : QueueOf(c)[k] \in Frames /\ f.n < QueueOf(c)[k].n
  BY <1>1, <1>3, <1>4, FramesNumbered DEF FramesInv
<1>6. f.n \in Nat /\ \A k \in DOMAIN QueueOf(c) : QueueOf(c)[k].n \in Nat
  BY <1>4, <1>5 DEF Frames
<1>7. \A x \in NumbersIn(QueueOf(c)) : f.n =< x
  BY <1>5, <1>6 DEF NumbersIn
<1> QED
  BY <1>3, <1>4, <1>5, <1>7 DEF Coming, Numbers

\* The first frame of a queue is the first on its way once the replay is written.
LEMMA LiveComing ==
  ASSUME HubTyped, NEW c \in Clients, FramesInv(c), OutOf(c) = <<>>, QueueOf(c) # <<>>
  PROVE  Head(QueueOf(c)) \in Frames /\ Coming(c, Head(QueueOf(c)))
<1>1. QueueOf(c) \in Seq(Frames)
  BY Typed
<1>2. PICK r : Leaves(QueueOf(c), r)
  BY DEF Leaves
<1>3. PICK f : f = Head(QueueOf(c)) /\ f = QueueOf(c)[1]
  BY <1>1, <1>2, Leaving DEF FramesInv
<1>4. /\ 1 \in DOMAIN QueueOf(c) /\ f \in Frames
      /\ f.n = 0 \/ f.n \in NumbersIn(QueueOf(c))
      /\ \A x \in NumbersIn(QueueOf(c)) : f.n =< x
  BY <1>1, <1>2, <1>3, Leaving DEF FramesInv
<1>5. AheadOf(c, f)
  BY <1>3, <1>4 DEF FramesInv
<1>6. NumbersIn(OutOf(c)) = {}
  BY DEF NumbersIn
<1> QED
  BY <1>3, <1>4, <1>5, <1>6 DEF Coming, Numbers

\* A browser that gets the first frame on its way stands at it, or knows of the hole
\* before the next.
LEMMA Received ==
  ASSUME HubTyped, NEW c \in Clients, ClientInv(c), UNCHANGED <<log, next>>,
         NEW f \in Frames, Coming(c, f), lastId'[c] = f.id,
         pos'[c] = IF f.n = 0 THEN pos[c] ELSE f.n, told'[c] = (f.n = 0),
         horizon'[c] = IF f.n = 0 THEN horizon[c] ELSE 0,
         conn'[c].sub = conn[c].sub, Numbers(c)' = Numbers(c) \ {f.n}
  PROVE  /\ PlaceInv(c)' /\ CompleteInv(c)'
         /\ \A g \in Frames : AheadOf(c, g) /\ f.n < g.n => AheadOf(c, g)'
<1>1. /\ lastId[c] \in Nat /\ pos[c] \in Nat /\ Base \in Nat /\ Len(log) \in Nat
      /\ f.n \in Nat /\ f.id \in Nat /\ Base' = Base /\ Numbers(c) \subseteq Nat \ {0}
  BY Typed DEF Base, Frames
<1>2. /\ (f.n = 0 /\ f.id = lastId[c] /\ lastId[c] > 0) \/ AheadOf(c, f)
      /\ f.n = 0 \/ f.n \in Numbers(c)
      /\ \A x \in Numbers(c) : f.n =< x
      /\ f.n = 0 \/ pos[c] < f.n
  BY DEF Coming, AheadOf
<1>3. PlaceInv(c)'
  <2>1. CASE f.n = 0
    <3>1. f.id = lastId[c] /\ lastId[c] > 0
      BY <1>1, <1>2, <2>1 DEF AheadOf
    <3> QED
      BY <1>1, <2>1, <3>1 DEF PlaceInv, ClientInv
  <2>2. CASE f.n # 0
    BY <1>1, <1>2, <2>2 DEF PlaceInv, AheadOf
  <2> QED
    BY <2>1, <2>2
<1>4. ASSUME NEW g \in Frames, AheadOf(c, g), f.n < g.n
      PROVE  AheadOf(c, g)'
  BY <1>1, <1>2, <1>4 DEF AheadOf, VisibleTo
<1>5. ASSUME NEW m \in (pos'[c] + 1) .. Len(log), VisibleTo(c, log[m]), m \notin Numbers(c)'
      PROVE  \/ Excused(c, m)' /\ \A x \in Numbers(c)' : m < x
             \/ conn'[c].sub # "live" /\ \A x \in Numbers(c)' : x < m
  <2>1. CASE f.n = 0
    <3>1. m \in (pos[c] + 1) .. Len(log) /\ m \notin Numbers(c)
      BY <1>1, <1>5, <2>1
    <3>2. \/ Excused(c, m) /\ \A x \in Numbers(c) : m < x
          \/ conn[c].sub # "live" /\ \A x \in Numbers(c) : x < m
      BY <1>5, <3>1 DEF CompleteInv, ClientInv
    <3>3. Excused(c, m)'
      BY <2>1 DEF Excused
    <3> QED
      BY <3>2, <3>3
  <2>2. CASE f.n # 0
    <3>1. pos[c] < f.n /\ f.n < m /\ m =< Len(log) /\ m \in Nat
      BY <1>1, <1>2, <1>5, <2>2 DEF AheadOf
    <3>2. m \in (pos[c] + 1) .. Len(log) /\ m \notin Numbers(c)
      BY <1>1, <1>5, <3>1
    <3>3. \/ Excused(c, m) /\ \A x \in Numbers(c) : m < x
          \/ conn[c].sub # "live" /\ \A x \in Numbers(c) : x < m
      BY <1>5, <3>2 DEF CompleteInv, ClientInv
    <3>4. ~ (m < f.n)
      BY <1>1, <3>1
    <3> QED
      BY <1>2, <2>2, <3>3, <3>4
  <2> QED
    BY <2>1, <2>2
<1>6. CompleteInv(c)'
  <2>1. \A m : VisibleTo(c, log'[m]) <=> VisibleTo(c, log[m])
    BY DEF VisibleTo
  <2> QED
    BY <1>5, <2>1 DEF CompleteInv
<1> QED
  BY <1>3, <1>4, <1>6

\* A step of one client alone.
LEMMA OneClient ==
  ASSUME HubInv, HubTyped', NEW c \in Clients, UNCHANGED <<next, ring, log>>,
         \A d \in Clients \ {c} : Alike(d), ClientInv(c)'
  PROVE  HubInv'
<1>1. RingInv'
  BY RingAlike DEF HubInv
<1>2. ASSUME NEW d \in Clients \ {c}
      PROVE  ClientInv(d)'
  BY AlikeKeeps DEF HubInv
<1> QED
  BY <1>1, <1>2 DEF HubInv

\* What a browser gets, and what it does to the rest of its state.
LEMMA Receives ==
  ASSUME HubTyped, NEW c \in Clients, NEW f \in Frames, Receive(c, f)
  PROVE  /\ lastId'[c] = f.id /\ pos'[c] = IF f.n = 0 THEN pos[c] ELSE f.n
         /\ told'[c] = (f.n = 0) /\ horizon'[c] = IF f.n = 0 THEN horizon[c] ELSE 0
         /\ lastId' \in [Clients -> Nat] /\ pos' \in [Clients -> Nat]
         /\ told' \in [Clients -> BOOLEAN] /\ horizon' \in [Clients -> Nat]
         /\ \A d \in Clients \ {c} :
              /\ lastId'[d] = lastId[d] /\ pos'[d] = pos[d] /\ told'[d] = told[d]
              /\ horizon'[d] = horizon[d]
BY DEF Receive, HubTyped, Frames

\* A frame of the replay is written.
LEMMA WriteReplayKeeps ==
  ASSUME HubInv, HubTyped', NEW c \in Clients, WriteReplay(c)
  PROVE  HubInv'
<1>1. HubTyped /\ RingInv /\ ClientInv(c) /\ UNCHANGED <<next, ring, log>> /\ OutOf(c) # <<>>
  BY DEF WriteReplay, HubInv, OutOf
<1>2. PICK f : f = OutOf(c)[1]
  OBVIOUS
<1>3. conn' = [conn EXCEPT ![c].out = Tail(@)] /\ Receive(c, Head(OutOf(c)))
  BY DEF WriteReplay, OutOf
<1>4. OutOf(c) \in Seq(Frames) /\ QueueOf(c) \in Seq(Frames) /\ FramesInv(c)
  BY <1>1, Typed DEF ClientInv
<1>5. /\ conn'[c] = [conn[c] EXCEPT !.out = Tail(@)] /\ \A d \in Clients \ {c} : conn'[d] = conn[d]
  BY <1>1, <1>3 DEF HubTyped
<1>6. conn[c] = [sub |-> conn[c].sub, out |-> OutOf(c), queue |-> QueueOf(c)]
  BY <1>1, Typed
<1>7. OutOf(c)' = Tail(OutOf(c)) /\ QueueOf(c)' = QueueOf(c) /\ conn'[c].sub = conn[c].sub
  BY <1>5, <1>6 DEF OutOf, QueueOf
<1>8. PICK r : r = OutOf(c)' /\ Leaves(OutOf(c), r)
  BY <1>7 DEF Leaves
<1>9. /\ 1 \in DOMAIN OutOf(c) /\ Head(OutOf(c)) = f /\ f \in Frames
      /\ Rising(r)
      /\ \A k \in DOMAIN r : \E j \in DOMAIN OutOf(c) : r[k] = OutOf(c)[j] /\ f.n < OutOf(c)[j].n
      /\ NumbersIn(r) = NumbersIn(OutOf(c)) \ {f.n}
  BY <1>1, <1>2, <1>4, <1>8, Leaving DEF FramesInv
<1>10. /\ Coming(c, f)
       /\ \A k \in DOMAIN QueueOf(c) : QueueOf(c)[k] \in Frames /\ f.n < QueueOf(c)[k].n
  BY <1>1, <1>4, <1>9, ReplayComing, FramesNumbered
<1>11. f.n \in Nat /\ \A k \in DOMAIN QueueOf(c) : QueueOf(c)[k].n \in Nat
  BY <1>9, <1>10 DEF Frames
<1>12. \A x \in NumbersIn(QueueOf(c)) : x # f.n
  BY <1>10, <1>11 DEF NumbersIn
<1>13. Numbers(c)' = Numbers(c) \ {f.n}
  <2>1. NumbersIn(OutOf(c))' = NumbersIn(r) /\ NumbersIn(QueueOf(c))' = NumbersIn(QueueOf(c))
    BY <1>7, <1>8 DEF NumbersIn
  <2> QED
    BY <1>9, <1>12, <2>1 DEF Numbers
<1>14. /\ lastId'[c] = f.id /\ pos'[c] = IF f.n = 0 THEN pos[c] ELSE f.n
       /\ told'[c] = (f.n = 0) /\ horizon'[c] = IF f.n = 0 THEN horizon[c] ELSE 0
       /\ \A d \in Clients \ {c} : Alike(d)
  BY <1>1, <1>3, <1>5, <1>9, Receives DEF Alike
<1>15. /\ PlaceInv(c)' /\ CompleteInv(c)'
       /\ \A g \in Frames : AheadOf(c, g) /\ f.n < g.n => AheadOf(c, g)'
  BY <1>1, <1>7, <1>9, <1>10, <1>13, <1>14, Received
<1>16. FramesInv(c)'
  <2>1. ASSUME NEW k \in DOMAIN r
        PROVE  AheadOf(c, r[k])' /\ \A j \in DOMAIN QueueOf(c) : r[k].n < QueueOf(c)[j].n
    <3>1. PICK j \in DOMAIN OutOf(c) : r[k] = OutOf(c)[j] /\ f.n < OutOf(c)[j].n
      BY <1>9
    <3>2. OutOf(c)[j] \in Frames /\ OutOf(c)[j].n # 0
      BY <1>4, <1>11, <3>1, FramesNumbered
    <3>3. AheadOf(c, OutOf(c)[j])
      BY <1>4, <3>2 DEF FramesInv
    <3>4. r[k] \in Frames /\ AheadOf(c, r[k]) /\ f.n < r[k].n
      BY <3>1, <3>2, <3>3
    <3>5. r'[k] = r[k]
      OBVIOUS
    <3> QED
      BY <1>4, <1>15, <3>1, <3>4 DEF FramesInv
  <2>2. \A k \in DOMAIN QueueOf(c) : AheadOf(c, QueueOf(c)[k])'
    BY <1>4, <1>7, <1>10, <1>15 DEF FramesInv
  <2>3. Rising(QueueOf(c))' /\ Rising(OutOf(c))'
    BY <1>4, <1>7, <1>8, <1>9 DEF FramesInv, Rising
  <2> QED
    BY <1>7, <1>8, <2>1, <2>2, <2>3 DEF FramesInv
<1> QED
  BY <1>1, <1>14, <1>15, <1>16, OneClient DEF ClientInv

\* A frame of the queue is written.
LEMMA WriteLiveKeeps ==
  ASSUME HubInv, HubTyped', NEW c \in Clients, WriteLive(c)
  PROVE  HubInv'
<1>1. /\ HubTyped /\ RingInv /\ ClientInv(c) /\ UNCHANGED <<next, ring, log>>
      /\ OutOf(c) = <<>> /\ QueueOf(c) # <<>>
  BY DEF WriteLive, HubInv, OutOf, QueueOf
<1>2. PICK f : f = QueueOf(c)[1]
  OBVIOUS
<1>3. conn' = [conn EXCEPT ![c].queue = Tail(@)] /\ Receive(c, Head(QueueOf(c)))
  BY DEF WriteLive, QueueOf
<1>4. QueueOf(c) \in Seq(Frames) /\ FramesInv(c)
  BY <1>1, Typed DEF ClientInv
<1>5. /\ conn'[c] = [conn[c] EXCEPT !.queue = Tail(@)]
      /\ \A d \in Clients \ {c} : conn'[d] = conn[d]
  BY <1>1, <1>3 DEF HubTyped
<1>6. conn[c] = [sub |-> conn[c].sub, out |-> OutOf(c), queue |-> QueueOf(c)]
  BY <1>1, Typed
<1>7. QueueOf(c)' = Tail(QueueOf(c)) /\ OutOf(c)' = OutOf(c) /\ conn'[c].sub = conn[c].sub
  BY <1>5, <1>6 DEF OutOf, QueueOf
<1>8. PICK r : r = QueueOf(c)' /\ Leaves(QueueOf(c), r)
  BY <1>7 DEF Leaves
<1>9. /\ 1 \in DOMAIN QueueOf(c) /\ Head(QueueOf(c)) = f /\ f \in Frames
      /\ Rising(r)
      /\ \A k \in DOMAIN r :
           \E j \in DOMAIN QueueOf(c) : r[k] = QueueOf(c)[j] /\ f.n < QueueOf(c)[j].n
      /\ NumbersIn(r) = NumbersIn(QueueOf(c)) \ {f.n}
  BY <1>1, <1>2, <1>4, <1>8, Leaving DEF FramesInv
<1>10. Coming(c, f)
  BY <1>1, <1>4, <1>9, LiveComing
<1>11. NumbersIn(OutOf(c)) = {} /\ NumbersIn(OutOf(c))' = {}
  BY <1>1, <1>7 DEF NumbersIn
<1>12. Numbers(c)' = Numbers(c) \ {f.n}
  <2>1. NumbersIn(QueueOf(c))' = NumbersIn(r)
    BY <1>8 DEF NumbersIn
  <2> QED
    BY <1>9, <1>11, <2>1 DEF Numbers
<1>13. /\ lastId'[c] = f.id /\ pos'[c] = IF f.n = 0 THEN pos[c] ELSE f.n
       /\ told'[c] = (f.n = 0) /\ horizon'[c] = IF f.n = 0 THEN horizon[c] ELSE 0
       /\ \A d \in Clients \ {c} : Alike(d)
  BY <1>1, <1>3, <1>5, <1>9, Receives DEF Alike
<1>14. /\ PlaceInv(c)' /\ CompleteInv(c)'
       /\ \A g \in Frames : AheadOf(c, g) /\ f.n < g.n => AheadOf(c, g)'
  BY <1>1, <1>7, <1>9, <1>10, <1>12, <1>13, Received
<1>15. FramesInv(c)'
  <2>1. ASSUME NEW k \in DOMAIN r
        PROVE  AheadOf(c, r[k])'
    <3>1. PICK j \in DOMAIN QueueOf(c) : r[k] = QueueOf(c)[j] /\ f.n < QueueOf(c)[j].n
      BY <1>9
    <3>2. r[k] \in Frames /\ AheadOf(c, r[k]) /\ f.n < r[k].n
      BY <1>4, <3>1, FramesNumbered DEF FramesInv
    <3>3. r'[k] = r[k]
      OBVIOUS
    <3> QED
      BY <1>14, <3>2
  <2>2. Rising(QueueOf(c))' /\ Rising(OutOf(c))'
    BY <1>1, <1>7, <1>8, <1>9 DEF Rising
  <2> QED
    BY <1>1, <1>7, <1>8, <2>1, <2>2 DEF FramesInv
<1> QED
  BY <1>1, <1>13, <1>14, <1>15, OneClient DEF ClientInv
------------------------------------------------------------------------------
(* The ends of connections and of processes.                                 *)

\* A connection is over, and its browser is as it was.
LEMMA EndKeeps ==
  ASSUME HubInv, HubTyped', NEW c \in Clients, conn' = [conn EXCEPT ![c] = Gone],
         UNCHANGED <<next, ring, lastId, log, pos, told, horizon>>
  PROVE  HubInv'
<1>1. conn'[c] = Gone /\ \A d \in Clients \ {c} : conn'[d] = conn[d]
  BY DEF HubInv, HubTyped
<1>2. \A d \in Clients \ {c} : Alike(d)
  BY <1>1 DEF Alike
<1>3. PlaceInv(c)'
  BY DEF HubInv, ClientInv, PlaceInv, Base
<1>4. ClientInv(c)'
  BY <1>1, <1>3, GoneKeeps DEF HubInv
<1> QED
  BY <1>2, <1>4, OneClient

\* The hub closes: every live connection is left to be drained.
LEMMA CloseKeeps ==
  ASSUME HubInv, HubTyped', Close
  PROVE  HubInv'
<1>1. UNCHANGED <<next, ring, lastId, log, pos, told, horizon>>
  BY DEF Close, histories
<1>2. RingInv'
  BY <1>1, RingAlike DEF HubInv
<1>3. ASSUME NEW c \in Clients
      PROVE  ClientInv(c)'
  <2>1. conn'[c] = IF conn[c].sub = "live" THEN [conn[c] EXCEPT !.sub = "dropped"] ELSE conn[c]
    BY DEF Close
  <2>2. conn[c] = [sub |-> conn[c].sub, out |-> OutOf(c), queue |-> QueueOf(c)]
    BY Typed DEF HubInv
  <2>3. /\ OutOf(c)' = OutOf(c) /\ QueueOf(c)' = QueueOf(c)
        /\ conn'[c].sub # "live"
    BY <2>1, <2>2 DEF OutOf, QueueOf
  <2>4. ClientInv(c)
    BY DEF HubInv
  <2>5. PlaceInv(c)' /\ FramesInv(c)'
    BY <1>1, <2>3, <2>4 DEF ClientInv, PlaceInv, FramesInv, AheadOf, Base, Rising, VisibleTo
  <2>6. Numbers(c)' = Numbers(c) /\ \A m : Excused(c, m)' <=> Excused(c, m)
    BY <1>1, <2>3 DEF Numbers, NumbersIn, Excused
  <2>7. CompleteInv(c)'
    BY <1>1, <2>3, <2>4, <2>6 DEF ClientInv, CompleteInv, VisibleTo
  <2> QED
    BY <2>5, <2>7 DEF ClientInv
<1> QED
  BY <1>2, <1>3 DEF HubInv

\* A new process numbers from 1 again: what a browser has been shown lies before it.
LEMMA RestartKeeps ==
  ASSUME HubInv, HubTyped', Restart
  PROVE  HubInv'
<1>1. /\ next' = 0 /\ ring' = <<>> /\ UNCHANGED <<lastId, log, pos, told>>
      /\ \A c \in Clients : /\ conn'[c] = Gone
                             /\ horizon'[c] = IF lastId[c] > 0 THEN Len(log) ELSE 0
  BY DEF Restart
<1>2. RingInv'
  <2>1. ring' \in Seq(Frames) /\ Len(ring') = 0 /\ DOMAIN ring' = {}
    BY <1>1
  <2> QED
    BY <1>1, <2>1 DEF RingInv, Latest
<1>3. ASSUME NEW c \in Clients
      PROVE  ClientInv(c)'
  <2>1. /\ lastId[c] \in Nat /\ pos[c] \in Nat /\ horizon[c] \in Nat
        /\ Len(log) \in Nat /\ Base \in Nat /\ PlaceInv(c)
    BY Typed DEF HubInv, ClientInv
  <2>2. /\ pos[c] =< Len(log) /\ lastId[c] > 0 => Len(log) > 0
    BY <2>1 DEF PlaceInv
  <2>3. Base' = Len(log)
    BY <1>1, <2>1 DEF Base
  <2>4. PlaceInv(c)'
    BY <1>1, <2>1, <2>2, <2>3 DEF PlaceInv
  <2> QED
    BY <1>1, <2>4, GoneKeeps DEF HubInv
<1> QED
  BY <1>2, <1>3 DEF HubInv
------------------------------------------------------------------------------
(* The invariant is inductive.                                               *)

Connection == [sub : {"none", "live", "dropped"}, out : Seq(Frames), queue : Seq(Frames)]

\* What subscribe hands over are frames.
LEMMA ReplayTyped ==
  ASSUME HubTyped, RingInv, NEW c \in Clients
  PROVE  Replay(c) \in Seq(Frames)
<1>1. Selected(ring, Unseen(c)) \in Seq(Frames)
  BY SelectedEntries DEF RingInv, Latest
<1>2. Word(c) \in Seq(Frames)
  <2>1. MissedFrame(lastId[c]) \in Frames
    BY Typed, HubAssumption DEF MissedFrame, Frames
  <2> QED
    BY <2>1 DEF Word
<1>3. Word(c) \o Selected(ring, Unseen(c)) \in Seq(Frames)
  <2> DEFINE u == Selected(ring, Unseen(c))
             w == Word(c)
  <2>1. u \in Seq(Frames) /\ w \in Seq(Frames)
    BY <1>1, <1>2
  <2> HIDE DEF u, w
  <2>2. w \o u \in Seq(Frames)
    BY <2>1
  <2> QED
    BY <2>2 DEF u, w
<1> QED
  BY <1>3 DEF Replay

\* Every step keeps the types of the hub and of its connections.
LEMMA TypedStep ==
  ASSUME HubInv, [Next]_vars
  PROVE  HubTyped'
<1>0. /\ HubTyped /\ RingInv /\ DOMAIN conn = Clients
      /\ next \in Nat /\ log \in Seq(Owners) /\ next =< Len(log)
      /\ \A c \in Clients : conn[c] \in Connection
      /\ lastId \in [Clients -> Nat] /\ pos \in [Clients -> Nat] /\ told \in [Clients -> BOOLEAN]
      /\ horizon \in [Clients -> Nat]
  BY DEF HubInv, HubTyped, Connection
<1>1. \A c \in Clients : /\ Gone \in Connection
                        /\ conn[c].out \in Seq(Frames) /\ conn[c].queue \in Seq(Frames)
  BY <1>0 DEF Gone, Connection
<1>2. ASSUME NEW owner \in Owners, Publish(owner)
      PROVE  HubTyped'
  <2> DEFINE ev == [id |-> next + 1, owner |-> owner, n |-> Len(log) + 1]
  <2>1. /\ next' = next + 1 /\ log' = Append(log, owner) /\ UNCHANGED <<lastId, pos, told, horizon>>
        /\ conn' = [c \in Clients |-> Offered(c, ev)]
    BY <1>2 DEF Publish, histories
  <2>2. next' \in Nat /\ log' \in Seq(Owners) /\ next' =< Len(log')
    BY <1>0, <2>1
  <2>3. ev \in Frames
    BY <1>0 DEF Frames
  <2> HIDE DEF ev
  <2>4. ASSUME NEW c \in Clients
        PROVE  conn'[c] \in Connection
    <3>1. Append(conn[c].queue, ev) \in Seq(Frames)
      BY <1>1, <2>3
    <3>2. [conn[c] EXCEPT !.queue = Append(@, ev)] \in Connection
      BY <1>0, <3>1 DEF Connection
    <3>3. [conn[c] EXCEPT !.sub = "dropped"] \in Connection
      BY <1>0 DEF Connection
    <3>4. conn'[c] = Offered(c, ev)
      BY <2>1
    <3> QED
      BY <1>0, <3>2, <3>3, <3>4 DEF Offered
  <2> QED
    BY <1>0, <2>1, <2>2, <2>4 DEF HubTyped, Connection
<1>3. ASSUME NEW c \in Clients, Connect(c)
      PROVE  HubTyped'
  <2>1. Replay(c) \in Seq(Frames)
    BY <1>0, ReplayTyped
  <2>2. /\ conn' = [conn EXCEPT ![c] = [sub |-> "live", out |-> Replay(c), queue |-> <<>>]]
        /\ pos' = [pos EXCEPT ![c] = IF lastId[c] = 0 THEN Len(log) ELSE @]
        /\ horizon' = [horizon EXCEPT ![c] = IF @ > 0 THEN Len(log) ELSE 0]
        /\ UNCHANGED <<next, lastId, log, told>>
    BY <1>3 DEF Connect
  <2>3. [sub |-> "live", out |-> Replay(c), queue |-> <<>>] \in Connection
    BY <2>1 DEF Connection
  <2>4. \A d \in Clients : conn'[d] \in Connection
    BY <1>0, <2>2, <2>3
  <2>5. pos' \in [Clients -> Nat] /\ horizon' \in [Clients -> Nat]
    BY <1>0, <2>2
  <2> QED
    BY <1>0, <2>2, <2>4, <2>5 DEF HubTyped, Connection
<1>4. ASSUME NEW c \in Clients, WriteReplay(c)
      PROVE  HubTyped'
  <2>1. /\ conn[c].out # <<>> /\ Receive(c, Head(conn[c].out))
        /\ conn' = [conn EXCEPT ![c] = [conn[c] EXCEPT !.out = Tail(@)]]
        /\ UNCHANGED <<next, log>>
    BY <1>0, <1>4 DEF WriteReplay
  <2>2. Head(conn[c].out) \in Frames /\ Tail(conn[c].out) \in Seq(Frames)
    BY <1>1, <2>1
  <2>3. [conn[c] EXCEPT !.out = Tail(@)] \in Connection
    BY <1>0, <2>2 DEF Connection
  <2>4. \A d \in Clients : conn'[d] \in Connection
    BY <1>0, <2>1, <2>3
  <2> QED
    BY <1>0, <2>1, <2>2, <2>4, Receives DEF HubTyped, Connection
<1>5. ASSUME NEW c \in Clients, WriteLive(c)
      PROVE  HubTyped'
  <2>1. /\ conn[c].queue # <<>> /\ Receive(c, Head(conn[c].queue))
        /\ conn' = [conn EXCEPT ![c] = [conn[c] EXCEPT !.queue = Tail(@)]]
        /\ UNCHANGED <<next, log>>
    BY <1>0, <1>5 DEF WriteLive
  <2>2. Head(conn[c].queue) \in Frames /\ Tail(conn[c].queue) \in Seq(Frames)
    BY <1>1, <2>1
  <2>3. [conn[c] EXCEPT !.queue = Tail(@)] \in Connection
    BY <1>0, <2>2 DEF Connection
  <2>4. \A d \in Clients : conn'[d] \in Connection
    BY <1>0, <2>1, <2>3
  <2> QED
    BY <1>0, <2>1, <2>2, <2>4, Receives DEF HubTyped, Connection
<1>6. ASSUME NEW c \in Clients, EndDropped(c) \/ Break(c)
      PROVE  HubTyped'
  <2>1. conn' = [conn EXCEPT ![c] = Gone] /\ UNCHANGED <<next, lastId, log, pos, told, horizon>>
    BY <1>6 DEF EndDropped, Break, histories
  <2>2. \A d \in Clients : conn'[d] \in Connection
    BY <1>0, <1>1, <2>1
  <2> QED
    BY <1>0, <2>1, <2>2 DEF HubTyped, Connection
<1>7. CASE Close
  <2>1. /\ conn' = [c \in Clients |->
             IF conn[c].sub = "live" THEN [conn[c] EXCEPT !.sub = "dropped"] ELSE conn[c]]
        /\ UNCHANGED <<next, lastId, log, pos, told, horizon>>
    BY <1>7 DEF Close, histories
  <2>2. \A c \in Clients : [conn[c] EXCEPT !.sub = "dropped"] \in Connection
    BY <1>0 DEF Connection
  <2> QED
    BY <1>0, <2>1, <2>2 DEF HubTyped, Connection
<1>8. CASE Restart
  <2>1. /\ next' = 0 /\ conn' = [c \in Clients |-> Gone]
        /\ horizon' = [c \in Clients |-> IF lastId[c] > 0 THEN Len(log) ELSE 0]
        /\ UNCHANGED <<lastId, log, pos, told>>
    BY <1>8 DEF Restart
  <2>2. Len(log) \in Nat
    BY <1>0
  <2> QED
    BY <1>0, <1>1, <2>1, <2>2 DEF HubTyped, Connection
<1>9. CASE UNCHANGED vars
  BY <1>0, <1>9 DEF HubTyped, vars, histories
<1> QED
  BY <1>2, <1>3, <1>4, <1>5, <1>6, <1>7, <1>8, <1>9 DEF Next

\* Every step keeps what holds of the ring and of every connection.
LEMMA HubStep == HubInv /\ [Next]_vars => HubInv'
<1> SUFFICES ASSUME HubInv, [Next]_vars
             PROVE  HubInv'
  OBVIOUS
<1>1. HubTyped'
  BY TypedStep
<1>2. ASSUME NEW owner \in Owners, Publish(owner) PROVE HubInv'
  BY <1>1, <1>2, PublishKeeps
<1>3. ASSUME NEW c \in Clients, Connect(c) PROVE HubInv'
  BY <1>1, <1>3, ConnectKeeps
<1>4. ASSUME NEW c \in Clients, WriteReplay(c) PROVE HubInv'
  BY <1>1, <1>4, WriteReplayKeeps
<1>5. ASSUME NEW c \in Clients, WriteLive(c) PROVE HubInv'
  BY <1>1, <1>5, WriteLiveKeeps
<1>6. ASSUME NEW c \in Clients, EndDropped(c) \/ Break(c) PROVE HubInv'
  <2>1. conn' = [conn EXCEPT ![c] = Gone] /\ UNCHANGED <<next, ring, lastId, log, pos, told, horizon>>
    BY <1>6 DEF EndDropped, Break, histories
  <2> QED
    BY <1>1, <2>1, EndKeeps
<1>7. CASE Close
  BY <1>1, <1>7, CloseKeeps
<1>8. CASE Restart
  BY <1>1, <1>8, RestartKeeps
<1>9. CASE UNCHANGED vars
  <2>1. UNCHANGED <<next, ring, log, conn, lastId, pos, told, horizon>>
    BY <1>9 DEF vars, histories
  <2>2. RingInv'
    BY <2>1, RingAlike DEF HubInv
  <2>3. ASSUME NEW c \in Clients PROVE ClientInv(c)'
    <3>1. Alike(c)
      BY <2>1 DEF Alike
    <3> QED
      BY <2>1, <3>1, AlikeKeeps DEF HubInv
  <2> QED
    BY <1>1, <2>2, <2>3 DEF HubInv
<1> QED
  BY <1>2, <1>3, <1>4, <1>5, <1>6, <1>7, <1>8, <1>9 DEF Next

\* Nothing is published and nobody is there.
LEMMA HubInit == Init => HubInv
<1> SUFFICES ASSUME Init PROVE HubInv
  OBVIOUS
<1>1. /\ next = 0 /\ ring = <<>> /\ log = <<>> /\ Len(log) = 0 /\ Len(ring) = 0
      /\ conn = [c \in Clients |-> Gone] /\ lastId = [c \in Clients |-> 0]
      /\ pos = [c \in Clients |-> 0] /\ told = [c \in Clients |-> FALSE]
      /\ horizon = [c \in Clients |-> 0]
  BY DEF Init
<1>2. HubTyped
  <2>1. Gone \in Connection
    BY DEF Gone, Connection
  <2>2. log \in Seq(Owners)
    BY <1>1
  <2> QED
    BY <1>1, <2>1, <2>2 DEF HubTyped, Connection
<1>3. RingInv
  <2>1. ring \in Seq(Frames) /\ DOMAIN ring = {}
    BY <1>1
  <2> QED
    BY <1>1, <2>1 DEF RingInv, Latest
<1>4. ASSUME NEW c \in Clients
      PROVE  ClientInv(c)
  <2>1. OutOf(c) = <<>> /\ QueueOf(c) = <<>> /\ pos[c] = 0 /\ lastId[c] = 0
    BY <1>1 DEF OutOf, QueueOf, Gone
  <2>2. PlaceInv(c)
    BY <1>1, <2>1 DEF PlaceInv
  <2>3. FramesInv(c)
    BY <2>1 DEF FramesInv, Rising
  <2>4. CompleteInv(c)
    BY <1>1, <2>1 DEF CompleteInv
  <2> QED
    BY <2>2, <2>3, <2>4 DEF ClientInv
<1> QED
  BY <1>2, <1>3, <1>4 DEF HubInv

\* What a connection holds is in order, of events behind the browser, and complete up to
\* a hole that is told of or a connection that is over.
THEOREM HubCorrect == HubSpec => []HubInv
<1>1. Init => HubInv
  BY HubInit
<1>2. HubInv /\ [Next]_vars => HubInv'
  BY HubStep
<1> QED
  BY <1>1, <1>2, PTL DEF HubSpec
------------------------------------------------------------------------------
(* The hub implements the feed.                                              *)

\* The first frame on its way shows the browser the next event it may see, or tells it
\* of a hole.
LEMMA FrameShows ==
  ASSUME HubInv, HubInv', NEW c \in Clients, NEW f \in Frames, Coming(c, f), Receive(c, f),
         UNCHANGED log
  PROVE  Feed!Show(c) \/ Feed!TellOfHole(c)
<1>1. HubTyped /\ ClientInv(c)
  BY DEF HubInv
<1>2. /\ lastId[c] \in Nat /\ pos[c] \in Nat /\ Len(log) \in Nat /\ told[c] \in BOOLEAN
      /\ f.n \in Nat /\ f.id \in Nat
      /\ lastId \in [Clients -> Nat] /\ pos \in [Clients -> Nat] /\ told \in [Clients -> BOOLEAN]
      /\ horizon \in [Clients -> Nat]
  BY <1>1, Typed DEF Frames, HubTyped
<1>3. /\ lastId' = [lastId EXCEPT ![c] = f.id]
      /\ pos' = [pos EXCEPT ![c] = IF f.n = 0 THEN @ ELSE f.n]
      /\ told' = [told EXCEPT ![c] = f.n = 0]
      /\ horizon' = [horizon EXCEPT ![c] = IF f.n = 0 THEN @ ELSE 0]
  BY DEF Receive
<1>4. CASE f.n = 0
  <2>1. f.id = lastId[c] /\ lastId[c] > 0
    BY <1>2, <1>4 DEF Coming, AheadOf
  <2>2. UNCHANGED <<lastId, pos, horizon>> /\ told' = [told EXCEPT ![c] = TRUE]
    BY <1>2, <1>3, <1>4, <2>1
  <2> QED
    BY <2>1, <2>2 DEF Feed!TellOfHole
<1>5. CASE f.n # 0
  <2>1. AheadOf(c, f) /\ f.n \in Numbers(c) /\ (\A x \in Numbers(c) : f.n =< x)
        /\ \A m : Excused(c, m) => told[c] \/ m =< horizon[c]
    BY <1>5 DEF Coming, Excused
  <2>2. f.n \in (pos[c] + 1) .. Len(log) /\ VisibleTo(c, log[f.n]) /\ f.id > 0
    BY <1>2, <2>1 DEF AheadOf
  <2>3. f.n \in Feed!Due(c, Len(log))
    BY <2>2 DEF Feed!Due, Feed!VisibleTo, VisibleTo
  <2>4. told[c] \/ \A m \in Feed!Due(c, f.n - 1) : m =< horizon[c]
    <3>1. SUFFICES ASSUME NEW m \in (pos[c] + 1) .. f.n - 1, VisibleTo(c, log[m])
                   PROVE  told[c] \/ m =< horizon[c]
      BY DEF Feed!Due, Feed!VisibleTo, VisibleTo
    <3>2. m \in (pos[c] + 1) .. Len(log) /\ m < f.n /\ m \in Nat
      BY <1>2, <2>2
    <3>3. m \notin Numbers(c)
      BY <1>2, <2>1, <3>2
    <3>4. \/ Excused(c, m)
          \/ \A x \in Numbers(c) : x < m
      BY <1>1, <3>1, <3>2, <3>3 DEF ClientInv, CompleteInv
    <3>5. ~ (f.n < m)
      BY <1>2, <3>2
    <3> QED
      BY <2>1, <3>4, <3>5
  <2>5. /\ pos' = [pos EXCEPT ![c] = f.n] /\ told' = [told EXCEPT ![c] = FALSE]
        /\ horizon' = [horizon EXCEPT ![c] = 0]
    BY <1>2, <1>3, <1>5
  <2>6. [d \in Clients |-> lastId'[d] > 0] = [[d \in Clients |-> lastId[d] > 0] EXCEPT ![c] = TRUE]
    BY <1>2, <1>3, <2>2
  <2>7. Feed!Show(c)
    BY <2>3, <2>4, <2>5, <2>6 DEF Feed!Show
  <2> QED
    BY <2>7
<1> QED
  BY <1>4, <1>5

\* Every step of the hub is a step of the feed, or none.
LEMMA FeedStep ==
  ASSUME HubInv, HubInv', [Next]_vars
  PROVE  [Feed!FeedNext]_Feed!feedVars
<1>0. /\ HubTyped /\ lastId \in [Clients -> Nat] /\ pos \in [Clients -> Nat]
      /\ horizon \in [Clients -> Nat] /\ \A c \in Clients : horizon[c] > 0 => lastId[c] > 0
  BY DEF HubInv, HubTyped, ClientInv, PlaceInv
<1>1. ASSUME NEW owner \in Owners, Publish(owner)
      PROVE  Feed!Append1
  BY <1>1 DEF Publish, Feed!Append1, histories
<1>2. ASSUME NEW c \in Clients, Connect(c)
      PROVE  Feed!Join(c) \/ Feed!ComeBack(c) \/ UNCHANGED Feed!feedVars
  <2>1. /\ pos' = [pos EXCEPT ![c] = IF lastId[c] = 0 THEN Len(log) ELSE @]
        /\ horizon' = [horizon EXCEPT ![c] = IF @ > 0 THEN Len(log) ELSE 0]
        /\ UNCHANGED <<lastId, log, told>>
    BY <1>2 DEF Connect
  <2>2. CASE lastId[c] = 0
    <3>1. pos' = [pos EXCEPT ![c] = Len(log)] /\ horizon' = horizon
      BY <1>0, <2>1, <2>2
    <3>2. ~ ([d \in Clients |-> lastId[d] > 0])[c]
      <4>1. ~ (lastId[c] > 0)
        BY <2>2
      <4> QED
        BY <4>1, Zenon
    <3>3. [d \in Clients |-> lastId'[d] > 0] = [d \in Clients |-> lastId[d] > 0]
      BY <2>1
    <3> QED
      BY <2>1, <3>1, <3>2, <3>3 DEF Feed!Join
  <2>3. CASE lastId[c] # 0
    <3>1. pos' = pos
      BY <1>0, <2>1, <2>3
    <3>2. CASE horizon[c] > 0
      <4>1. horizon' = [horizon EXCEPT ![c] = Len(log)]
        BY <1>0, <2>1, <3>2
      <4>2. UNCHANGED <<log, pos, [d \in Clients |-> lastId[d] > 0], told>>
        BY <2>1, <3>1
      <4> QED
        BY <3>2, <4>1, <4>2 DEF Feed!ComeBack
    <3>3. CASE ~ (horizon[c] > 0)
      <4>1. horizon' = horizon
        BY <1>0, <2>1, <3>3
      <4> QED
        BY <2>1, <3>1, <4>1 DEF Feed!feedVars
    <3> QED
      BY <3>2, <3>3
  <2> QED
    BY <2>2, <2>3
<1>3. ASSUME NEW c \in Clients, WriteReplay(c)
      PROVE  Feed!Show(c) \/ Feed!TellOfHole(c)
  <2>1. OutOf(c) # <<>> /\ Receive(c, Head(OutOf(c))) /\ UNCHANGED log
    BY <1>3 DEF WriteReplay, OutOf
  <2>2. Head(OutOf(c)) \in Frames /\ Coming(c, Head(OutOf(c)))
    BY <2>1, ReplayComing DEF HubInv, ClientInv
  <2> QED
    BY <2>1, <2>2, FrameShows
<1>4. ASSUME NEW c \in Clients, WriteLive(c)
      PROVE  Feed!Show(c) \/ Feed!TellOfHole(c)
  <2>1. /\ OutOf(c) = <<>> /\ QueueOf(c) # <<>> /\ Receive(c, Head(QueueOf(c))) /\ UNCHANGED log
    BY <1>4 DEF WriteLive, OutOf, QueueOf
  <2>2. Head(QueueOf(c)) \in Frames /\ Coming(c, Head(QueueOf(c)))
    BY <2>1, LiveComing DEF HubInv, ClientInv
  <2> QED
    BY <2>1, <2>2, FrameShows
<1>5. ASSUME NEW c \in Clients, EndDropped(c) \/ Break(c)
      PROVE  UNCHANGED Feed!feedVars
  BY <1>5 DEF EndDropped, Break, histories, Feed!feedVars
<1>6. CASE Close
  <2>1. UNCHANGED <<log, pos, lastId, told, horizon>>
    BY <1>6 DEF Close, histories
  <2> QED
    BY <2>1 DEF Feed!feedVars
<1>7. CASE Restart
  <2>1. /\ horizon' = [c \in Clients |-> IF lastId[c] > 0 THEN Len(log) ELSE 0]
        /\ UNCHANGED <<log, pos, lastId, told>>
    BY <1>7 DEF Restart
  <2>2. UNCHANGED [c \in Clients |-> lastId[c] > 0]
    BY <2>1
  <2>3. UNCHANGED <<log, pos, [c \in Clients |-> lastId[c] > 0], told>>
    BY <2>1, <2>2
  <2>4. horizon' = [c \in Clients |->
                      IF [d \in Clients |-> lastId[d] > 0][c] THEN Len(log) ELSE 0]
    BY <2>1, Zenon
  <2>5. Feed!ServerRestarts
    BY <2>3, <2>4, Zenon DEF Feed!ServerRestarts
  <2> QED
    BY <2>5, Zenon DEF Feed!FeedNext
<1>8. CASE UNCHANGED vars
  BY <1>8 DEF vars, histories, Feed!feedVars
<1> QED
  BY <1>1, <1>2, <1>3, <1>4, <1>5, <1>6, <1>7, <1>8 DEF Next, Feed!FeedNext

\* The hub implements the feed: whatever queues overflow, connections break and replays
\* race, a browser gets every event it may see, in order, or the word that some were
\* missed; a restart costs it what was published before it was back, and no more
\* (events.go:178).
THEOREM HubImplementsFeed == HubSpec => ImplementsFeed
<1>1. Init => Feed!FeedInit
  <2>1. SUFFICES ASSUME Init
                 PROVE  Feed!FeedInit
    OBVIOUS
  <2>2. /\ log = <<>> /\ pos = [c \in Clients |-> 0] /\ lastId = [c \in Clients |-> 0]
        /\ told = [c \in Clients |-> FALSE] /\ horizon = [c \in Clients |-> 0]
    BY <2>1 DEF Init
  <2>3. [c \in Clients |-> lastId[c] > 0] = [c \in Clients |-> FALSE]
    <3>1. \A c \in Clients : ~ (lastId[c] > 0)
      BY <2>2
    <3>2. \A c \in Clients : (lastId[c] > 0) = FALSE
      BY <3>1
    <3> QED
      BY <3>2, Zenon
  <2> QED
    BY <2>2, <2>3 DEF Feed!FeedInit
<1>2. HubInv /\ HubInv' /\ [Next]_vars => [Feed!FeedNext]_Feed!feedVars
  BY FeedStep
<1> QED
  BY <1>1, <1>2, HubCorrect, PTL DEF HubSpec, ImplementsFeed, Feed!FeedSpec
------------------------------------------------------------------------------
(* The grid, page by page.                                                  *)

\* A row as the grid carries it, and a position in an order.
Entries == [id : Works, key : Nat, type : MediaTypes]
Cursors == [sort : Sorts, key : Nat, id : Nat, tail : BOOLEAN]

\* A position agrees with the order it is in: the tail is of the undated rows.
Fits(q, cur) ==
  /\ cur \in Cursors /\ cur.sort = q.sort
  /\ cur.tail <=> q.sort = "added_at" /\ cur.key = Undated

\* The row of a work lies after a position.
Left(d, q, cur, w) == cur = Start \/ Ahead(q.sort, cur, RowOf(d, q.sort, w))

\* A sequence of rows has a work once, or never.
Shows(seq, w, once) ==
  IF once THEN \E n \in DOMAIN seq : seq[n].id = w /\ \A m \in DOMAIN seq : seq[m].id = w => m = n
          ELSE \A n \in DOMAIN seq : seq[n].id # w

\* What a walk showed so far: the works nobody touched that are admitted and lie before its
\* position, once, and rows of no other media type than asked for.
Told(d, writ, q, cur, seq) ==
  /\ seq \in Seq(Entries)
  /\ \A n \in DOMAIN seq : q.media # Every => seq[n].type = q.media
  /\ \A w \in Works \ writ : Shows(seq, w, Admitted(d, q, w) /\ ~ Left(d, q, cur, w))

\* All there is: the works nobody touched that are admitted, once.
Whole(d, writ, q, seq) ==
  /\ seq \in Seq(Entries)
  /\ \A n \in DOMAIN seq : q.media # Every => seq[n].type = q.media
  /\ \A w \in Works \ writ : Shows(seq, w, Admitted(d, q, w))

\* Rows that lie after a position, in order, and are still what the table holds unless
\* somebody touched them since.
Gathered(d, writ, q, cur, page) ==
  /\ page \in Seq(Entries)
  /\ \A n \in DOMAIN page : /\ q.media # Every => page[n].type = q.media
                            /\ cur = Start \/ Ahead(q.sort, cur, page[n])
                            /\ page[n].id \notin writ =>
                                 page[n] = RowOf(d, q.sort, page[n].id) /\ Admitted(d, q, page[n].id)
  /\ \A m, n \in DOMAIN page : m < n => Ahead(q.sort, page[m], page[n])

\* A page that is short of rows has every dated row after its position.
Dated(d, writ, q, cur, page) ==
  /\ Gathered(d, writ, q, cur, page) /\ Len(page) <= BrowseLimit
  /\ \A n \in DOMAIN page : page[n].key # Undated
  /\ \A w \in Works \ writ :
       Admitted(d, q, w) /\ Left(d, q, cur, w) /\ RowOf(d, q.sort, w).key # Undated =>
         \E n \in DOMAIN page : page[n].id = w

\* A page that is read has the first rows after its position: all, unless it is full.
Filled(d, writ, q, cur, page) ==
  /\ Gathered(d, writ, q, cur, page) /\ Len(page) <= BrowseLimit + 1
  /\ \A w \in Works \ writ :
       Admitted(d, q, w) /\ Left(d, q, cur, w) =>
         \/ \E n \in DOMAIN page : page[n].id = w
         \/ /\ Len(page) = BrowseLimit + 1
            /\ \A n \in DOMAIN page : Ahead(q.sort, page[n], RowOf(d, q.sort, w))

\* The request for the grid that is being served.
Walking == {"page", "tail", "shown", "walked"}
Walks == [at : Walking, from : {"works", "recent"}, q : GridQueries, cur : Cursors \cup {Start},
          page : Seq(Entries), shown : Seq(Entries)]

WalkInv ==
  /\ rows \in Tables /\ "at" \in DOMAIN reader
  /\ token # NoToken => reader.at = "shown"
  /\ reader.at \in Walking => reader \in Walks
  /\ reader.at = "shown" =>
       /\ Fits(reader.q, token.cur)
       /\ Told(rows, touched, reader.q, token.cur, reader.shown)
  /\ reader.at \in {"page", "tail"} =>
       /\ reader.cur = Start \/ Fits(reader.q, reader.cur)
       /\ Told(rows, touched, reader.q, reader.cur, reader.shown)
  /\ reader.at = "tail" =>
       /\ reader.q.sort = "added_at" /\ reader.cur # Start /\ ~ reader.cur.tail
       /\ Dated(rows, touched, reader.q, reader.cur, reader.page)
  /\ WalkExact

\* The first of the two counts still stands.
FacetsInv ==
  /\ reader.at = "audiobooks" /\ touched = {} =>
       reader.counts = mediaTypeCounts(rows, reader.owner)
  /\ FacetsExact
------------------------------------------------------------------------------
\* The SQL predicate and the MIN of the column ask the same of the editions.
LEMMA SameQuestion ==
  ASSUME NEW row  PROVE AllAudiobook(row) <=> browseAudiobookPredicate(row)
<1>1. Audiobook # Unreported
  BY DEF Audiobook, Unreported
<1> QED
  BY <1>1 DEF AllAudiobook, browseAudiobookPredicate

\* The kinds of a media type, one by one.
LEMMA KindsOfTypes ==
  /\ browseKinds["movies"] = {"movie"} /\ browseKinds["tv"] = {"series"}
  /\ browseKinds["music"] = {"artist", "album"} /\ browseKinds["comics"] = {"comic"}
  /\ browseKinds["ebooks"] = {"book"} /\ browseKinds["audiobooks"] = {"book"}
  /\ browseKinds[Every] = {"movie", "series", "artist", "album", "book", "comic"}
BY DEF browseKinds, MediaTypes, Every

\* A kind other than book is of one media type.
LEMMA OneTypePerKind ==
  ASSUME NEW k \in browseKinds[Every], k # "book"
  PROVE  /\ \E m \in MediaTypes : k \in browseKinds[m]
         /\ \A m, n \in MediaTypes : k \in browseKinds[m] /\ k \in browseKinds[n] => m = n
BY KindsOfTypes DEF MediaTypes

\* A work has a media type: of a book by its editions, of another by its kind.
LEMMA TypeOfWork ==
  ASSUME ReadSideAssumption, NEW d, NEW w \in Works
  PROVE  /\ mediaTypeOf(d, w) \in MediaTypes
         /\ KindOf[w] \in browseKinds[mediaTypeOf(d, w)]
         /\ KindOf[w] = "book" =>
              mediaTypeOf(d, w) = IF browseAudiobookPredicate(d[w]) THEN "audiobooks" ELSE "ebooks"
         /\ \A m \in MediaTypes : KindOf[w] # "book" /\ KindOf[w] \in browseKinds[m] =>
              mediaTypeOf(d, w) = m
<1>1. KindOf[w] \in browseKinds[Every]
  BY DEF ReadSideAssumption
<1>2. CASE KindOf[w] = "book"
  <2>1. mediaTypeOf(d, w) = IF browseAudiobookPredicate(d[w]) THEN "audiobooks" ELSE "ebooks"
    BY <1>2, SameQuestion DEF mediaTypeOf
  <2> QED
    BY <1>2, <2>1, KindsOfTypes DEF MediaTypes
<1>3. CASE KindOf[w] # "book"
  <2>1. mediaTypeOf(d, w) = CHOOSE m \in MediaTypes : KindOf[w] \in browseKinds[m]
    BY <1>3 DEF mediaTypeOf
  <2>2. mediaTypeOf(d, w) \in MediaTypes /\ KindOf[w] \in browseKinds[mediaTypeOf(d, w)]
    BY <1>1, <1>3, <2>1, OneTypePerKind
  <2> QED
    BY <1>1, <1>3, <2>2, OneTypePerKind
<1> QED
  BY <1>2, <1>3

\* A work that a filter admits has the media type asked for.
LEMMA AdmittedType ==
  ASSUME ReadSideAssumption, NEW d, NEW q \in GridQueries, NEW w \in Works,
         Admitted(d, q, w), q.media # Every
  PROVE  mediaTypeOf(d, w) = q.media
<1>1. q.media \in MediaTypes /\ KindOf[w] \in browseKinds[q.media] /\ Split(d, q.media, w)
  BY DEF GridQueries, Admitted
<1>2. CASE KindOf[w] = "book"
  <2>1. q.media \in {"ebooks", "audiobooks"}
    BY <1>1, <1>2, KindsOfTypes DEF MediaTypes
  <2>2. browseAudiobookPredicate(d[w]) <=> q.media = "audiobooks"
    BY <1>1, <2>1 DEF Split
  <2> QED
    BY <1>2, <2>1, <2>2, TypeOfWork
<1>3. CASE KindOf[w] # "book"
  BY <1>1, <1>3, TypeOfWork
<1> QED
  BY <1>2, <1>3

\* The row of a work.
LEMMA RowTyped ==
  ASSUME ReadSideAssumption, NEW d \in Tables, NEW sort \in Sorts, NEW w \in Works
  PROVE  /\ RowOf(d, sort, w) \in Entries
         /\ RowOf(d, sort, w).id = w /\ RowOf(d, sort, w).type = mediaTypeOf(d, w)
         /\ sort = "added_at" => RowOf(d, sort, w).key = d[w].added
<1>1. d[w].added \in Nat /\ d[w].title \in Nat
  BY DEF Tables
<1>2. KeyOf(d, sort, w) \in Nat /\ (sort = "added_at" => KeyOf(d, sort, w) = d[w].added)
  BY <1>1 DEF KeyOf, Sorts
<1>3. mediaTypeOf(d, w) \in MediaTypes
  BY TypeOfWork
<1> QED
  BY <1>2, <1>3 DEF RowOf, Entries
------------------------------------------------------------------------------
\* The orders of the grid are strict and total over rows of different ids.
LEMMA AheadOrders ==
  ASSUME NEW sort, NEW a, NEW b, NEW c,
         a.key \in Nat, a.id \in Nat, b.key \in Nat, b.id \in Nat, c.key \in Nat, c.id \in Nat
  PROVE  /\ ~ Ahead(sort, a, a)
         /\ Ahead(sort, a, b) => ~ Ahead(sort, b, a)
         /\ a.id # b.id => Ahead(sort, a, b) \/ Ahead(sort, b, a)
         /\ Ahead(sort, a, b) /\ Ahead(sort, b, c) => Ahead(sort, a, c)
         /\ ~ Ahead(sort, a, b) /\ Ahead(sort, a, c) => ~ Ahead(sort, c, b)
BY DEF Ahead

\* What one statement of the grid gives: the rows that the filter admits after a position, in
\* order, from the first on, and all of them if they are fewer than it asked for.
IsPageOf(p, d, q, cur, n) ==
  /\ p \in Seq(Entries) /\ Len(p) \in Nat /\ Len(p) <= n /\ DOMAIN p = 1 .. Len(p)
  /\ \A i \in DOMAIN p : /\ Admitted(d, q, p[i].id) /\ p[i] = RowOf(d, q.sort, p[i].id)
                         /\ Beyond(q.sort, cur, p[i])
  /\ \A i, j \in DOMAIN p : i < j => Ahead(q.sort, p[i], p[j])
  /\ \A w \in Works : Admitted(d, q, w) /\ Beyond(q.sort, cur, RowOf(d, q.sort, w)) =>
       \/ \E i \in DOMAIN p : p[i].id = w
       \/ Len(p) = n /\ \A i \in DOMAIN p : Ahead(q.sort, p[i], RowOf(d, q.sort, w))

\* The statement does.
LEMMA PageRead ==
  ASSUME ReadSideAssumption, NEW d \in Tables, NEW q \in GridQueries, NEW cur, NEW n \in Nat
  PROVE  IsPageOf(browseWorksPage(d, q, cur, n), d, q, cur, n)
<1> DEFINE admitted == {RowOf(d, q.sort, w) : w \in {u \in Works : Admitted(d, q, u)}}
           S == {r \in admitted : Beyond(q.sort, cur, r)}
           full == [k \in 1 .. Cardinality(S) |->
                      CHOOSE x \in S : Cardinality({y \in S : Ahead(q.sort, y, x)}) = k - 1]
           top == IF n < Len(full) THEN n ELSE Len(full)
           before == [x \in S |-> {y \in S : Ahead(q.sort, y, x)}]
           ids == {u \in Works : Admitted(d, q, u) /\ Beyond(q.sort, cur, RowOf(d, q.sort, u))}
           f == [w \in ids |-> RowOf(d, q.sort, w)]
<1>1. browseWorksPage(d, q, cur, n) = SubSeq(full, 1, top)
  BY DEF browseWorksPage, Sorted
<1>2. q.sort \in Sorts
  BY DEF GridQueries
<1>3. \A w \in Works : /\ RowOf(d, q.sort, w) \in Entries /\ RowOf(d, q.sort, w).id = w
  BY <1>2, RowTyped
<1>4. \A x \in S : /\ x \in Entries /\ x = RowOf(d, q.sort, x.id) /\ x.id \in Works
                   /\ Admitted(d, q, x.id) /\ Beyond(q.sort, cur, x)
                   /\ x.key \in Nat /\ x.id \in Nat
  <2>1. \A x \in S : /\ x = RowOf(d, q.sort, x.id) /\ x.id \in Works
                     /\ Admitted(d, q, x.id) /\ Beyond(q.sort, cur, x)
    BY <1>3
  <2>2. Works \subseteq Nat
    BY DEF ReadSideAssumption
  <2> QED
    BY <1>3, <2>1, <2>2 DEF Entries
<1>5. IsFiniteSet(S)
  <2>1. f \in [ids -> S]
    BY <1>3
  <2>2. \A x \in S : \E w \in ids : f[w] = x
    BY <1>4
  <2>3. f \in Surjection(ids, S)
    BY <2>1, <2>2 DEF Surjection
  <2>4. IsFiniteSet(ids)
    BY FS_Subset DEF ReadSideAssumption
  <2> QED
    BY <2>3, <2>4, FS_Surjection
<1> HIDE DEF admitted
<1>6. Orders(S, before)
  <2>1. before \in [S -> SUBSET S]
    OBVIOUS
  <2>2. \A x, y \in S : x \in before[y] <=> Ahead(q.sort, x, y)
    OBVIOUS
  <2>3. \A x, y \in S : x # y => x.id # y.id
    BY <1>4
  <2> HIDE DEF before, S
  <2>4. \A x \in S : x \notin before[x]
    BY <1>4, <2>2, AheadOrders
  <2>5. ASSUME NEW x \in S, NEW y \in S, x # y  PROVE x \in before[y] \/ y \in before[x]
    <3>1. x.id # y.id /\ x.key \in Nat /\ x.id \in Nat /\ y.key \in Nat /\ y.id \in Nat
      BY <1>4, <2>3, <2>5
    <3> QED
      BY <2>2, <3>1, AheadOrders
  <2>6. ASSUME NEW x \in S, NEW y \in S, NEW z \in S, x \in before[y], y \in before[z]
        PROVE  x \in before[z]
    <3>1. /\ x.key \in Nat /\ x.id \in Nat /\ y.key \in Nat /\ y.id \in Nat
          /\ z.key \in Nat /\ z.id \in Nat
      BY <1>4
    <3> QED
      BY <2>2, <2>6, <3>1, AheadOrders
  <2> QED
    BY <2>1, <2>4, <2>5, <2>6 DEF Orders
<1>7. ASSUME NEW k \in 1 .. Cardinality(S)
      PROVE  full[k] \in S /\ Cardinality(before[full[k]]) = k - 1
  <2>1. \E x \in S : Cardinality(before[x]) = k - 1
    <3>1. \A i \in 1 .. Cardinality(S) : \E x \in S : Cardinality(before[x]) = i - 1
      BY <1>5, <1>6, Ranks
    <3> QED
      BY <1>7, <3>1
  <2>2. \A x \in S : before[x] = {y \in S : Ahead(q.sort, y, x)}
    OBVIOUS
  <2>3. \E x \in S : Cardinality({y \in S : Ahead(q.sort, y, x)}) = k - 1
    BY <2>1, <2>2
  <2>4. full[k] \in S /\ Cardinality({y \in S : Ahead(q.sort, y, full[k])}) = k - 1
    BY <2>3
  <2> QED
    BY <2>2, <2>4
<1>8. Placed(full, S, before)
  BY <1>7 DEF Placed
<1> HIDE DEF full
<1>9. \A x, y \in S : x \in before[y] <=> Ahead(q.sort, x, y)
  OBVIOUS
<1>10. \A w \in Works : Admitted(d, q, w) /\ Beyond(q.sort, cur, RowOf(d, q.sort, w)) =>
         RowOf(d, q.sort, w) \in S
  BY DEF admitted
<1> HIDE DEF S, before
<1>11. /\ full \in Seq(S) /\ Len(full) = Cardinality(S) /\ DOMAIN full = 1 .. Cardinality(S)
       /\ Cardinality(S) \in Nat
       /\ \A i, j \in DOMAIN full : i < j <=> full[i] \in before[full[j]]
       /\ \A x \in S : \E k \in DOMAIN full : full[k] = x
  BY <1>5, <1>6, <1>8, Listed DEF IsListOf
<1>12. top \in Nat /\ top <= n /\ top <= Len(full) /\ (top < n => top = Len(full))
  BY <1>11
<1> HIDE DEF top
<1> DEFINE p == SubSeq(full, 1, top)
<1>13. /\ p \in Seq(S) /\ Len(p) = top /\ DOMAIN p = 1 .. top
       /\ \A i \in 1 .. top : p[i] = full[i] /\ i \in DOMAIN full /\ p[i] \in S
  BY <1>11, <1>12
<1> HIDE DEF p
<1>14. p \in Seq(Entries)
  <2>1. \A i \in 1 .. top : p[i] \in Entries
    BY <1>4, <1>13
  <2> QED
    BY <1>12, <1>13, <2>1
<1>15. ASSUME NEW i \in DOMAIN p, NEW j \in DOMAIN p, i < j  PROVE Ahead(q.sort, p[i], p[j])
  BY <1>9, <1>11, <1>13, <1>15
<1>16. ASSUME NEW w \in Works, Admitted(d, q, w), Beyond(q.sort, cur, RowOf(d, q.sort, w)),
              \A i \in DOMAIN p : p[i].id # w
       PROVE  Len(p) = n /\ \A i \in DOMAIN p : Ahead(q.sort, p[i], RowOf(d, q.sort, w))
  <2>1. RowOf(d, q.sort, w) \in S
    BY <1>10, <1>16
  <2>2. PICK k \in DOMAIN full : full[k] = RowOf(d, q.sort, w)
    BY <1>11, <2>1
  <2>3. k \notin 1 .. top
    BY <1>3, <1>13, <1>16, <2>2
  <2>4. top < k /\ k <= Len(full)
    BY <1>11, <1>12, <2>2, <2>3
  <2>5. top = n
    BY <1>11, <1>12, <2>4
  <2>6. ASSUME NEW i \in DOMAIN p  PROVE Ahead(q.sort, p[i], RowOf(d, q.sort, w))
    BY <1>9, <1>11, <1>12, <1>13, <2>1, <2>2, <2>4
  <2> QED
    BY <1>13, <2>5, <2>6
<1>17. \A i \in DOMAIN p : /\ Admitted(d, q, p[i].id) /\ p[i] = RowOf(d, q.sort, p[i].id)
                           /\ Beyond(q.sort, cur, p[i])
  BY <1>4, <1>13
<1> QED
  BY <1>1, <1>12, <1>13, <1>14, <1>15, <1>16, <1>17 DEF IsPageOf, p
------------------------------------------------------------------------------
\* What a statement reads of a work depends on its row alone.
LEMMA SameRow ==
  ASSUME NEW d, NEW e, NEW q, NEW cur, NEW w, d[w] = e[w]
  PROVE  /\ Admitted(d, q, w) <=> Admitted(e, q, w)
         /\ RowOf(d, q.sort, w) = RowOf(e, q.sort, w)
         /\ Left(d, q, cur, w) <=> Left(e, q, cur, w)
<1>1. Admitted(d, q, w) <=> Admitted(e, q, w)
  BY DEF Admitted, Visible, Split
<1>2. mediaTypeOf(d, w) = mediaTypeOf(e, w)
  BY DEF mediaTypeOf
<1>3. KeyOf(d, q.sort, w) = KeyOf(e, q.sort, w)
  BY DEF KeyOf
<1>4. RowOf(d, q.sort, w) = RowOf(e, q.sort, w)
  BY <1>2, <1>3 DEF RowOf
<1> QED
  BY <1>1, <1>4 DEF Left

\* A sequence of rows has rows of works.
LEMMA EntryOf ==
  ASSUME NEW seq \in Seq(Entries), NEW n \in DOMAIN seq
  PROVE  /\ seq[n] \in Entries /\ seq[n].id \in Works /\ seq[n].key \in Nat
         /\ n \in 1 .. Len(seq) /\ Len(seq) \in Nat
<1>1. seq[n] \in Entries /\ n \in 1 .. Len(seq) /\ Len(seq) \in Nat
  OBVIOUS
<1> QED
  BY <1>1 DEF Entries

\* What was shown stays right for the works that nobody touches.
LEMMA ToldStays ==
  ASSUME NEW d, NEW e, NEW t, NEW u, NEW q, NEW cur, NEW seq,
         t \subseteq u, \A w \in Works \ u : d[w] = e[w], Told(d, t, q, cur, seq)
  PROVE  Told(e, u, q, cur, seq)
<1>1. ASSUME NEW w \in Works \ u  PROVE Shows(seq, w, Admitted(e, q, w) /\ ~ Left(e, q, cur, w))
  <2>1. Shows(seq, w, Admitted(d, q, w) /\ ~ Left(d, q, cur, w))
    BY <1>1 DEF Told
  <2>2. d[w] = e[w]
    BY <1>1
  <2>3. (Admitted(d, q, w) /\ ~ Left(d, q, cur, w)) <=> (Admitted(e, q, w) /\ ~ Left(e, q, cur, w))
    BY <2>2, SameRow
  <2> QED
    BY <2>1, <2>3 DEF Shows
<1> QED
  BY <1>1 DEF Told

\* And so does a page that waits for its tail.
LEMMA DatedStays ==
  ASSUME NEW d, NEW e, NEW t, NEW u, NEW q, NEW cur, NEW page,
         t \subseteq u, \A w \in Works \ u : d[w] = e[w], Dated(d, t, q, cur, page)
  PROVE  Dated(e, u, q, cur, page)
<1>1. ASSUME NEW n \in DOMAIN page, page[n].id \notin u
      PROVE  page[n] = RowOf(e, q.sort, page[n].id) /\ Admitted(e, q, page[n].id)
  <2>1. page[n].id \in Works \ u /\ page[n].id \notin t
    BY <1>1, EntryOf DEF Dated, Gathered
  <2>2. page[n] = RowOf(d, q.sort, page[n].id) /\ Admitted(d, q, page[n].id)
    BY <2>1 DEF Dated, Gathered
  <2>3. d[page[n].id] = e[page[n].id]
    BY <2>1
  <2> QED
    BY <2>2, <2>3, SameRow
<1>2. Gathered(e, u, q, cur, page)
  BY <1>1 DEF Dated, Gathered
<1>3. ASSUME NEW w \in Works \ u,
             Admitted(e, q, w), Left(e, q, cur, w), RowOf(e, q.sort, w).key # Undated
      PROVE  \E n \in DOMAIN page : page[n].id = w
  <2>1. w \in Works \ t /\ d[w] = e[w]
    BY <1>3
  <2>2. Admitted(d, q, w) /\ Left(d, q, cur, w) /\ RowOf(d, q.sort, w).key # Undated
    BY <1>3, <2>1, SameRow
  <2> QED
    BY <2>1, <2>2 DEF Dated
<1> QED
  BY <1>2, <1>3 DEF Dated
------------------------------------------------------------------------------
\* A page has a work that nobody touched at most once.
LEMMA OnceInPage ==
  ASSUME ReadSideAssumption, NEW d, NEW t, NEW q, NEW cur, NEW page, Gathered(d, t, q, cur, page),
         NEW m \in DOMAIN page, NEW n \in DOMAIN page, page[m].id = page[n].id, page[m].id \notin t
  PROVE  m = n
<1>1. page \in Seq(Entries) /\ m \in Nat /\ n \in Nat
  BY DEF Gathered
<1>2. page[m] = page[n]
  BY DEF Gathered
<1>3. page[m].key \in Nat /\ page[m].id \in Nat
  BY <1>1, EntryOf DEF ReadSideAssumption
<1>4. ~ Ahead(q.sort, page[m], page[m])
  BY <1>3, AheadOrders
<1>5. (m < n => Ahead(q.sort, page[m], page[n])) /\ (n < m => Ahead(q.sort, page[n], page[m]))
  BY DEF Gathered
<1> QED
  BY <1>1, <1>2, <1>4, <1>5

\* Rows after rows: a work that only one of two sequences has is in both together as often.
LEMMA ShowsBoth ==
  ASSUME NEW a \in Seq(Entries), NEW b \in Seq(Entries), NEW w, NEW x, NEW y,
         x \in BOOLEAN, y \in BOOLEAN, Shows(a, w, x), Shows(b, w, y), ~ (x /\ y)
  PROVE  Shows(a \o b, w, x \/ y)
<1> DEFINE c == a \o b
<1>1. /\ Len(a) \in Nat /\ Len(b) \in Nat /\ DOMAIN a = 1 .. Len(a) /\ DOMAIN b = 1 .. Len(b)
      /\ DOMAIN c = 1 .. (Len(a) + Len(b))
      /\ \A n \in 1 .. Len(a) : c[n] = a[n]
      /\ \A n \in 1 .. Len(b) : c[Len(a) + n] = b[n]
  OBVIOUS
<1> HIDE DEF c
<1>2. \A n \in DOMAIN c : \/ n \in DOMAIN a /\ c[n] = a[n]
                          \/ n - Len(a) \in DOMAIN b /\ c[n] = b[n - Len(a)]
  <2>1. ASSUME NEW n \in DOMAIN c, n \notin 1 .. Len(a)
        PROVE  n - Len(a) \in 1 .. Len(b) /\ Len(a) + (n - Len(a)) = n
    BY <1>1, <2>1
  <2> QED
    BY <1>1, <2>1
<1>3. CASE ~ x /\ ~ y
  BY <1>2, <1>3 DEF Shows, c
<1>4. CASE x /\ ~ y
  <2>1. PICK n \in DOMAIN a : a[n].id = w /\ \A m \in DOMAIN a : a[m].id = w => m = n
    BY <1>4 DEF Shows
  <2>2. n \in DOMAIN c /\ c[n].id = w
    BY <1>1, <2>1
  <2>3. \A m \in DOMAIN c : c[m].id = w => m = n
    BY <1>2, <1>4, <2>1 DEF Shows
  <2> QED
    BY <1>4, <2>2, <2>3 DEF Shows, c
<1>5. CASE ~ x /\ y
  <2>1. PICK n \in DOMAIN b : b[n].id = w /\ \A m \in DOMAIN b : b[m].id = w => m = n
    BY <1>5 DEF Shows
  <2>2. Len(a) + n \in DOMAIN c /\ c[Len(a) + n].id = w
    BY <1>1, <2>1
  <2>3. ASSUME NEW m \in DOMAIN c, c[m].id = w  PROVE m = Len(a) + n
    <3>1. m - Len(a) \in DOMAIN b /\ b[m - Len(a)].id = w
      BY <1>2, <1>5, <2>3 DEF Shows
    <3>2. m - Len(a) = n
      BY <2>1, <3>1
    <3> QED
      BY <1>1, <2>1, <2>3, <3>2
  <2> QED
    BY <1>5, <2>2, <2>3 DEF Shows, c
<1> QED
  BY <1>3, <1>4, <1>5

\* What holds of the media types of two sequences holds of both together.
LEMMA TypesBoth ==
  ASSUME NEW a \in Seq(Entries), NEW b \in Seq(Entries), NEW m,
         \A n \in DOMAIN a : a[n].type = m, \A n \in DOMAIN b : b[n].type = m,
         NEW k \in DOMAIN (a \o b)
  PROVE  (a \o b)[k].type = m
<1>1. k \in 1 .. (Len(a) + Len(b)) /\ Len(a) \in Nat /\ Len(b) \in Nat
  OBVIOUS
<1>2. CASE k <= Len(a)
  <2>1. (a \o b)[k] = a[k] /\ k \in DOMAIN a
    BY <1>1, <1>2
  <2> QED
    BY <2>1
<1>3. CASE k > Len(a)
  <2>1. (a \o b)[k] = b[k - Len(a)] /\ k - Len(a) \in DOMAIN b
    BY <1>1, <1>3
  <2> QED
    BY <2>1
<1> QED
  BY <1>1, <1>2, <1>3

\* How often a sequence has a work.
LEMMA Counted ==
  ASSUME NEW seq, NEW w, NEW once \in BOOLEAN, Shows(seq, w, once)
  PROVE  Times(seq, w) = IF once THEN 1 ELSE 0
<1> DEFINE places == {n \in DOMAIN seq : seq[n].id = w}
<1>1. CASE once
  <2>1. PICK n \in DOMAIN seq : seq[n].id = w /\ \A m \in DOMAIN seq : seq[m].id = w => m = n
    BY <1>1 DEF Shows
  <2>2. places = {n}
    BY <2>1
  <2> QED
    BY <1>1, <2>2, FS_Singleton DEF Times
<1>2. CASE ~ once
  <2>1. places = {}
    BY <1>2 DEF Shows
  <2> QED
    BY <1>2, <2>1, FS_EmptySet DEF Times
<1> QED
  BY <1>1, <1>2
------------------------------------------------------------------------------
\* A page that is not full completes the walk.
LEMMA LastPage ==
  ASSUME ReadSideAssumption, NEW d, NEW t, NEW q \in GridQueries, NEW cur, NEW seq, NEW page,
         Told(d, t, q, cur, seq), Filled(d, t, q, cur, page), Len(page) <= BrowseLimit
  PROVE  Whole(d, t, q, seq \o page)
<1>1. seq \in Seq(Entries) /\ page \in Seq(Entries) /\ BrowseLimit \in Nat /\ Len(page) \in Nat
  BY DEF Told, Filled, Gathered, ReadSideAssumption
<1>2. ASSUME NEW w \in Works \ t  PROVE Shows(seq \o page, w, Admitted(d, q, w))
  <2> DEFINE x == Admitted(d, q, w) /\ ~ Left(d, q, cur, w)
             y == Admitted(d, q, w) /\ Left(d, q, cur, w)
  <2>1. Shows(seq, w, x)
    BY <1>2 DEF Told
  <2>2. \A n \in DOMAIN page : page[n].id = w => Admitted(d, q, w) /\ Left(d, q, cur, w)
    BY <1>2 DEF Filled, Gathered, Left
  <2>3. y => \E n \in DOMAIN page : page[n].id = w
    BY <1>1, <1>2 DEF Filled
  <2>4. \A m, n \in DOMAIN page : page[m].id = w /\ page[n].id = w => m = n
    BY <1>2, OnceInPage DEF Filled
  <2>5. Shows(page, w, y)
    BY <2>2, <2>3, <2>4 DEF Shows
  <2>6. x \in BOOLEAN /\ y \in BOOLEAN /\ ~ (x /\ y) /\ ((x \/ y) <=> Admitted(d, q, w))
    OBVIOUS
  <2> HIDE DEF x, y
  <2>7. Shows(seq \o page, w, x \/ y)
    BY <1>1, <2>1, <2>5, <2>6, ShowsBoth
  <2> QED
    BY <2>6, <2>7 DEF Shows
<1>3. ASSUME q.media # Every, NEW n \in DOMAIN (seq \o page)  PROVE (seq \o page)[n].type = q.media
  BY <1>1, <1>3, TypesBoth DEF Told, Filled, Gathered
<1> QED
  BY <1>1, <1>2, <1>3 DEF Whole

\* A full page takes the walk to the position after the last row shown of it.
LEMMA NextPage ==
  ASSUME ReadSideAssumption, NEW d \in Tables, NEW t, NEW q \in GridQueries, NEW cur, NEW seq, NEW page,
         cur = Start \/ Fits(q, cur),
         Told(d, t, q, cur, seq), Filled(d, t, q, cur, page), Len(page) > BrowseLimit
  PROVE  /\ Fits(q, browseNextCursor(q.sort, page))
         /\ Told(d, t, q, browseNextCursor(q.sort, page), seq \o SubSeq(page, 1, BrowseLimit))
<1> DEFINE after == browseNextCursor(q.sort, page)
           last == page[BrowseLimit]
           head == SubSeq(page, 1, BrowseLimit)
<1>1. /\ seq \in Seq(Entries) /\ page \in Seq(Entries) /\ BrowseLimit \in Nat \ {0}
      /\ Len(page) = BrowseLimit + 1 /\ DOMAIN page = 1 .. (BrowseLimit + 1)
  BY DEF Told, Filled, Gathered, ReadSideAssumption
<1>2. /\ head \in Seq(Entries) /\ DOMAIN head = 1 .. BrowseLimit
      /\ \A n \in 1 .. BrowseLimit : head[n] = page[n] /\ n \in DOMAIN page
  BY <1>1
<1>3. BrowseLimit \in DOMAIN page /\ last \in Entries /\ last.id \in Works
      /\ last.key \in Nat /\ last.id \in Nat
  <2>1. BrowseLimit \in DOMAIN page
    BY <1>1
  <2> QED
    BY <1>1, <2>1, EntryOf DEF ReadSideAssumption
<1>4. /\ after = [sort |-> q.sort, key |-> last.key, id |-> last.id,
                 tail |-> q.sort = "added_at" /\ last.key = Undated]
  BY DEF browseNextCursor
<1>5. q.sort \in Sorts /\ q.sort # "start"
  BY DEF GridQueries, Sorts
<1>6. after # Start /\ Fits(q, after)
  <2> HIDE DEF last
  <2> DEFINE tail == q.sort = "added_at" /\ last.key = Undated
  <2>1. tail \in BOOLEAN
    OBVIOUS
  <2>2. after = [sort |-> q.sort, key |-> last.key, id |-> last.id, tail |-> tail]
    BY <1>4
  <2>3. tail <=> q.sort = "added_at" /\ last.key = Undated
    OBVIOUS
  <2> HIDE DEF after, tail
  <2>4. after \in Cursors /\ after.sort = q.sort /\ after.key = last.key /\ after.tail = tail
    BY <1>3, <1>5, <2>1, <2>2 DEF Cursors
  <2>5. after # Start
    BY <1>5, <2>4 DEF Start
  <2> QED
    BY <2>3, <2>4, <2>5 DEF Fits
<1>7. \A r : Ahead(q.sort, after, r) <=> Ahead(q.sort, last, r)
  BY <1>4 DEF Ahead
<1> HIDE DEF head, last, after
<1>8. ASSUME NEW w \in Works  PROVE Left(d, q, after, w) <=> Ahead(q.sort, last, RowOf(d, q.sort, w))
  BY <1>6, <1>7 DEF Left
<1>9. ASSUME NEW w \in Works
      PROVE  /\ RowOf(d, q.sort, w).key \in Nat /\ RowOf(d, q.sort, w).id = w /\ w \in Nat
  BY <1>5, RowTyped DEF Entries, ReadSideAssumption
<1>10. ASSUME NEW w \in Works \ t, ~ Left(d, q, cur, w)  PROVE ~ Left(d, q, after, w)
  <2> DEFINE row == RowOf(d, q.sort, w)
  <2>1. cur # Start /\ ~ Ahead(q.sort, cur, row)
    BY <1>10 DEF Left
  <2>2. cur.key \in Nat /\ cur.id \in Nat
    BY <2>1 DEF Fits, Cursors
  <2>3. Ahead(q.sort, cur, last)
    BY <1>3, <2>1 DEF Filled, Gathered, last
  <2>4. row.key \in Nat /\ row.id \in Nat
    BY <1>9
  <2> HIDE DEF row
  <2>5. ~ Ahead(q.sort, last, row)
    BY <1>3, <2>1, <2>2, <2>3, <2>4, AheadOrders
  <2>6. w \in Works /\ ~ Ahead(q.sort, last, RowOf(d, q.sort, w))
    BY <1>10, <2>5 DEF row
  <2> QED
    BY <1>8, <2>6
<1>11. ASSUME NEW n \in 1 .. BrowseLimit, page[n].id \notin t  PROVE ~ Left(d, q, after, page[n].id)
  <2>1. n \in DOMAIN page /\ page[n].id \in Works /\ page[n].key \in Nat /\ page[n].id \in Nat
    <3>1. n \in DOMAIN page /\ page \in Seq(Entries)
      BY <1>1
    <3>2. page[n].id \in Works /\ page[n].key \in Nat
      BY <3>1, EntryOf
    <3> QED
      BY <3>1, <3>2 DEF ReadSideAssumption
  <2>2. page[n] = RowOf(d, q.sort, page[n].id)
    BY <1>11, <2>1 DEF Filled, Gathered
  <2>3. n < BrowseLimit => Ahead(q.sort, page[n], last)
    BY <1>3, <2>1 DEF Filled, Gathered, last
  <2>4. n = BrowseLimit => page[n] = last
    BY DEF last
  <2>5. ~ Ahead(q.sort, last, page[n])
    BY <1>1, <1>3, <2>1, <2>3, <2>4, AheadOrders
  <2> QED
    BY <1>8, <2>1, <2>2, <2>5
<1>12. ASSUME NEW w \in Works \ t, Admitted(d, q, w), Left(d, q, cur, w), ~ Left(d, q, after, w)
       PROVE  \E n \in 1 .. BrowseLimit : page[n].id = w
  <2>1. ~ Ahead(q.sort, last, RowOf(d, q.sort, w))
    BY <1>8, <1>12
  <2>2. PICK n \in DOMAIN page : page[n].id = w
    BY <1>3, <1>12, <2>1 DEF Filled, last
  <2>3. n # BrowseLimit + 1
    <3>1. SUFFICES ASSUME n = BrowseLimit + 1  PROVE FALSE
      OBVIOUS
    <3>2. Ahead(q.sort, last, page[n])
      BY <1>1, <1>3, <2>2, <3>1 DEF Filled, Gathered, last
    <3>3. page[n] = RowOf(d, q.sort, w)
      BY <1>12, <2>2 DEF Filled, Gathered
    <3> QED
      BY <2>1, <3>2, <3>3
  <2> QED
    BY <1>1, <2>2, <2>3
<1>13. ASSUME NEW w \in Works \ t
       PROVE  Shows(seq \o head, w, Admitted(d, q, w) /\ ~ Left(d, q, after, w))
  <2> DEFINE x == Admitted(d, q, w) /\ ~ Left(d, q, cur, w)
             y == Admitted(d, q, w) /\ Left(d, q, cur, w) /\ ~ Left(d, q, after, w)
  <2>1. Shows(seq, w, x)
    BY <1>13 DEF Told
  <2>2. ASSUME NEW n \in DOMAIN head, head[n].id = w  PROVE y
    <3>1. n \in DOMAIN page /\ n \in 1 .. BrowseLimit /\ page[n].id = w
      BY <1>2, <2>2
    <3>2. page[n] = RowOf(d, q.sort, w) /\ Admitted(d, q, w)
      BY <1>13, <3>1 DEF Filled, Gathered
    <3>3. Left(d, q, cur, w)
      BY <3>1, <3>2 DEF Filled, Gathered, Left
    <3> QED
      BY <1>11, <1>13, <3>1, <3>2, <3>3
  <2>3. ASSUME y  PROVE \E n \in DOMAIN head : head[n].id = w
    BY <1>2, <1>12, <1>13, <2>3
  <2>4. \A m, n \in DOMAIN head : head[m].id = w /\ head[n].id = w => m = n
    BY <1>2, <1>13, OnceInPage DEF Filled
  <2>5. Shows(head, w, y)
    BY <2>2, <2>3, <2>4 DEF Shows
  <2>6. x \in BOOLEAN /\ y \in BOOLEAN /\ ~ (x /\ y)
    OBVIOUS
  <2>7. (x \/ y) <=> Admitted(d, q, w) /\ ~ Left(d, q, after, w)
    BY <1>10, <1>13
  <2> HIDE DEF x, y
  <2>8. Shows(seq \o head, w, x \/ y)
    BY <1>1, <1>2, <2>1, <2>5, <2>6, ShowsBoth
  <2> QED
    BY <2>7, <2>8 DEF Shows
<1>14. seq \o head \in Seq(Entries)
  BY <1>1, <1>2
<1>15. ASSUME q.media # Every, NEW n \in DOMAIN (seq \o head)  PROVE (seq \o head)[n].type = q.media
  <2>1. \A m \in DOMAIN head : head[m].type = q.media
    BY <1>2, <1>15 DEF Filled, Gathered
  <2>2. \A m \in DOMAIN seq : seq[m].type = q.media
    BY <1>15 DEF Told
  <2> QED
    BY <1>1, <1>2, <1>15, <2>1, <2>2, TypesBoth
<1>16. Told(d, t, q, after, seq \o head)
  BY <1>13, <1>14, <1>15 DEF Told
<1> QED
  BY <1>6, <1>16 DEF head, after
------------------------------------------------------------------------------
\* The undated tail begins above every work.
LEMMA TailAbove ==
  ASSUME ReadSideAssumption, NEW w \in Works
  PROVE  TailStart.id \in Nat /\ w < TailStart.id
<1> DEFINE newer == [x \in Works |-> {y \in Works : y > x}]
<1>1. Works \subseteq Nat /\ IsFiniteSet(Works)
  BY DEF ReadSideAssumption
<1>2. newer \in [Works -> SUBSET Works] /\ \A x, y \in Works : y \in newer[x] <=> y > x
  OBVIOUS
<1> HIDE DEF newer
<1>3. Orders(Works, newer)
  BY <1>1, <1>2 DEF Orders
<1>4. Cardinality(Works) \in Nat \ {0}
  BY <1>1, FS_CardinalityType, FS_EmptySet
<1>5. 1 \in 1 .. Cardinality(Works)
  BY <1>4
<1>6. PICK x \in Works : Cardinality(newer[x]) = 0
  <2>1. \A n \in 1 .. Cardinality(Works) : \E x \in Works : Cardinality(newer[x]) = n - 1
    BY <1>1, <1>3, Ranks
  <2>2. PICK x \in Works : Cardinality(newer[x]) = 1 - 1
    BY <1>5, <2>1
  <2>3. Cardinality(newer[x]) = 0
    BY <2>2
  <2> QED
    BY <2>3
<1>7. newer[x] = {}
  BY <1>1, <1>2, <1>6, FS_Subset, FS_EmptySet
<1>8. \A u \in Works : u <= x
  BY <1>1, <1>2, <1>7
<1> DEFINE newest == CHOOSE v \in Works : \A u \in Works : u <= v
<1>9. newest \in Works /\ \A u \in Works : u <= newest
  BY <1>8
<1>10. TailStart.id = 1 + newest
  BY DEF TailStart
<1> HIDE DEF newest
<1>11. newest \in Nat /\ w \in Nat /\ w <= newest
  BY <1>1, <1>9
<1> QED
  BY <1>10, <1>11

\* A position and the rows that a statement finds after it.
LEMMA BeyondIsLeft ==
  ASSUME NEW q, NEW cur, NEW r, cur = Start \/ Fits(q, cur), r.key \in Nat, r.id \in Nat
  PROVE  /\ Beyond(q.sort, cur, r) => cur = Start \/ Ahead(q.sort, cur, r)
         /\ cur = Start \/ Ahead(q.sort, cur, r) =>
              \/ Beyond(q.sort, cur, r)
              \/ q.sort = "added_at" /\ cur # Start /\ ~ cur.tail /\ r.key = Undated
         /\ Beyond(q.sort, cur, r) /\ q.sort = "added_at" /\ cur # Start /\ ~ cur.tail =>
              r.key # Undated
<1>1. CASE cur = Start
  BY <1>1 DEF Beyond
<1>2. CASE cur # Start
  <2>1. cur.key \in Nat /\ cur.id \in Nat /\ (cur.tail <=> q.sort = "added_at" /\ cur.key = Undated)
    BY <1>2 DEF Fits, Cursors
  <2>2. CASE cur.tail
    BY <1>2, <2>1, <2>2 DEF Beyond, Ahead, Undated
  <2>3. CASE ~ cur.tail
    BY <1>2, <2>1, <2>3 DEF Beyond, Ahead, Undated
  <2> QED
    BY <2>2, <2>3
<1> QED
  BY <1>1, <1>2

\* The rows of a statement, as long as nobody has touched them.
LEMMA PageGathered ==
  ASSUME ReadSideAssumption, NEW d \in Tables, NEW t, NEW q \in GridQueries, NEW cur, NEW n, NEW p,
         cur = Start \/ Fits(q, cur), IsPageOf(p, d, q, cur, n)
  PROVE  Gathered(d, t, q, cur, p)
<1>1. p \in Seq(Entries) /\ \A i, j \in DOMAIN p : i < j => Ahead(q.sort, p[i], p[j])
  BY DEF IsPageOf
<1>2. ASSUME NEW i \in DOMAIN p
      PROVE  /\ q.media # Every => p[i].type = q.media
             /\ cur = Start \/ Ahead(q.sort, cur, p[i])
             /\ p[i] = RowOf(d, q.sort, p[i].id) /\ Admitted(d, q, p[i].id)
  <2>1. /\ Admitted(d, q, p[i].id) /\ p[i] = RowOf(d, q.sort, p[i].id)
        /\ Beyond(q.sort, cur, p[i])
    BY DEF IsPageOf
  <2>2. p[i].id \in Works /\ p[i].key \in Nat /\ p[i].id \in Nat
    BY <1>1, EntryOf DEF ReadSideAssumption
  <2>3. q.sort \in Sorts
    BY DEF GridQueries
  <2>4. p[i].type = mediaTypeOf(d, p[i].id)
    BY <2>1, <2>2, <2>3, RowTyped
  <2>5. q.media # Every => p[i].type = q.media
    BY <2>1, <2>2, <2>4, AdmittedType
  <2>6. cur = Start \/ Ahead(q.sort, cur, p[i])
    BY <2>1, <2>2, BeyondIsLeft
  <2> QED
    BY <2>1, <2>5, <2>6
<1> QED
  BY <1>1, <1>2 DEF Gathered

\* A statement that gives more rows than a page shows, or that no tail follows, fills the page.
LEMMA PageFilled ==
  ASSUME ReadSideAssumption, NEW d \in Tables, NEW t, NEW q \in GridQueries, NEW cur, NEW p,
         cur = Start \/ Fits(q, cur), IsPageOf(p, d, q, cur, BrowseLimit + 1),
         ~ NeedsTail(q, cur, p)
  PROVE  Filled(d, t, q, cur, p)
<1>1. Gathered(d, t, q, cur, p)
  BY PageGathered
<1>2. Len(p) \in Nat /\ Len(p) <= BrowseLimit + 1 /\ p \in Seq(Entries) /\ BrowseLimit \in Nat
  BY DEF IsPageOf, ReadSideAssumption
<1>3. ASSUME NEW w \in Works \ t, Admitted(d, q, w), Left(d, q, cur, w)
      PROVE  \/ \E n \in DOMAIN p : p[n].id = w
             \/ /\ Len(p) = BrowseLimit + 1
                /\ \A n \in DOMAIN p : Ahead(q.sort, p[n], RowOf(d, q.sort, w))
  <2> DEFINE row == RowOf(d, q.sort, w)
  <2>1. q.sort \in Sorts
    BY DEF GridQueries
  <2>2. row.key \in Nat /\ row.id = w /\ row.id \in Nat
    BY <2>1, RowTyped DEF Entries, ReadSideAssumption
  <2>3. cur = Start \/ Ahead(q.sort, cur, row)
    BY <1>3 DEF Left
  <2>4. CASE Beyond(q.sort, cur, row)
    BY <1>3, <2>4 DEF IsPageOf
  <2>5. CASE ~ Beyond(q.sort, cur, row)
    <3> HIDE DEF row
    <3>1. q.sort = "added_at" /\ cur # Start /\ ~ cur.tail /\ row.key = Undated
      BY <2>2, <2>3, <2>5, BeyondIsLeft
    <3>2. Len(p) = BrowseLimit + 1
      BY <1>2, <3>1 DEF NeedsTail
    <3>3. ASSUME NEW n \in DOMAIN p  PROVE Ahead(q.sort, p[n], row)
      <4>1. Beyond(q.sort, cur, p[n]) /\ p[n].key \in Nat /\ p[n].id \in Nat
        BY <1>2, EntryOf DEF IsPageOf, ReadSideAssumption
      <4>2. p[n].key # Undated
        BY <3>1, <4>1, BeyondIsLeft
      <4> QED
        BY <3>1, <4>1, <4>2 DEF Ahead, Undated
    <3> QED
      BY <3>2, <3>3 DEF row
  <2> QED
    BY <2>4, <2>5
<1> QED
  BY <1>1, <1>2, <1>3 DEF Filled

\* A statement whose page is short has every dated row after the position.
LEMMA PageDated ==
  ASSUME ReadSideAssumption, NEW d \in Tables, NEW t, NEW q \in GridQueries, NEW cur, NEW p,
         cur = Start \/ Fits(q, cur), IsPageOf(p, d, q, cur, BrowseLimit + 1),
         NeedsTail(q, cur, p)
  PROVE  Dated(d, t, q, cur, p)
<1>1. Gathered(d, t, q, cur, p)
  BY PageGathered
<1>2. /\ q.sort = "added_at" /\ cur # Start /\ ~ cur.tail /\ Len(p) <= BrowseLimit
      /\ Len(p) \in Nat /\ p \in Seq(Entries) /\ BrowseLimit \in Nat
  BY DEF IsPageOf, NeedsTail, ReadSideAssumption
<1>3. ASSUME NEW n \in DOMAIN p  PROVE p[n].key # Undated
  <2>1. Beyond(q.sort, cur, p[n]) /\ p[n].key \in Nat /\ p[n].id \in Nat
    BY <1>2, EntryOf DEF IsPageOf, ReadSideAssumption
  <2> QED
    BY <1>2, <2>1, BeyondIsLeft
<1>4. ASSUME NEW w \in Works \ t,
             Admitted(d, q, w), Left(d, q, cur, w), RowOf(d, q.sort, w).key # Undated
      PROVE  \E n \in DOMAIN p : p[n].id = w
  <2> DEFINE row == RowOf(d, q.sort, w)
  <2>1. q.sort \in Sorts
    BY DEF GridQueries
  <2>2. row.key \in Nat /\ row.id \in Nat
    BY <2>1, RowTyped DEF Entries, ReadSideAssumption
  <2>3. Ahead(q.sort, cur, row)
    BY <1>2, <1>4 DEF Left
  <2> HIDE DEF row
  <2>4. Beyond(q.sort, cur, row)
    BY <1>4, <2>2, <2>3, BeyondIsLeft DEF row
  <2>5. (\E i \in DOMAIN p : p[i].id = w) \/ Len(p) = BrowseLimit + 1
    BY <1>4, <2>4 DEF IsPageOf, row
  <2> QED
    BY <1>2, <2>5
<1> QED
  BY <1>1, <1>2, <1>3, <1>4 DEF Dated

\* The rows of the tail after a page of dated rows.
LEMMA TailFilled ==
  ASSUME ReadSideAssumption, NEW d \in Tables, NEW t, NEW q \in GridQueries, NEW cur, NEW page, NEW p,
         cur # Start, Fits(q, cur), q.sort = "added_at", ~ cur.tail, Dated(d, t, q, cur, page),
         IsPageOf(p, d, q, TailStart, BrowseLimit + 1 - Len(page))
  PROVE  Filled(d, t, q, cur, page \o p)
<1> DEFINE both == page \o p
<1>1. /\ page \in Seq(Entries) /\ p \in Seq(Entries) /\ BrowseLimit \in Nat
      /\ Len(page) \in Nat /\ Len(p) \in Nat
      /\ Len(page) <= BrowseLimit /\ Len(p) <= BrowseLimit + 1 - Len(page)
      /\ DOMAIN page = 1 .. Len(page) /\ DOMAIN p = 1 .. Len(p)
  BY DEF Dated, Gathered, IsPageOf, ReadSideAssumption
<1>2. /\ both \in Seq(Entries) /\ Len(both) = Len(page) + Len(p)
      /\ DOMAIN both = 1 .. (Len(page) + Len(p))
      /\ \A n \in 1 .. Len(page) : both[n] = page[n]
      /\ \A n \in 1 .. Len(p) : both[Len(page) + n] = p[n]
  BY <1>1
<1> HIDE DEF both
<1>3. ASSUME NEW n \in DOMAIN both
      PROVE  \/ n \in DOMAIN page /\ both[n] = page[n]
             \/ n > Len(page) /\ n - Len(page) \in DOMAIN p /\ both[n] = p[n - Len(page)]
  <2>1. CASE n <= Len(page)
    BY <1>1, <1>2, <2>1
  <2>2. CASE n > Len(page)
    <3>1. n - Len(page) \in 1 .. Len(p) /\ Len(page) + (n - Len(page)) = n
      BY <1>1, <1>2, <2>2
    <3> QED
      BY <1>1, <1>2, <2>2, <3>1
  <2> QED
    BY <1>1, <1>2, <2>1, <2>2
<1>4. cur.key \in Nat /\ cur.id \in Nat /\ cur.key # Undated
  BY DEF Fits, Cursors
<1>5. TailStart # Start /\ TailStart.tail
  BY DEF TailStart, Start
<1>6. ASSUME NEW n \in DOMAIN p
      PROVE  /\ p[n].key = Undated /\ p[n].id \in Nat
             /\ q.media # Every => p[n].type = q.media
             /\ Ahead(q.sort, cur, p[n])
             /\ p[n] = RowOf(d, q.sort, p[n].id) /\ Admitted(d, q, p[n].id)
  <2>1. /\ Admitted(d, q, p[n].id) /\ p[n] = RowOf(d, q.sort, p[n].id)
        /\ Beyond(q.sort, TailStart, p[n])
    BY DEF IsPageOf
  <2>2. p[n].id \in Works /\ p[n].id \in Nat
    BY <1>1, EntryOf DEF ReadSideAssumption
  <2>3. p[n].key = Undated
    BY <1>5, <2>1 DEF Beyond
  <2>4. q.sort \in Sorts
    BY DEF GridQueries
  <2>5. p[n].type = mediaTypeOf(d, p[n].id)
    BY <2>1, <2>2, <2>4, RowTyped
  <2>6. q.media # Every => p[n].type = q.media
    BY <2>1, <2>2, <2>5, AdmittedType
  <2>7. Ahead(q.sort, cur, p[n])
    BY <1>4, <2>3 DEF Ahead, Undated
  <2> QED
    BY <2>1, <2>2, <2>3, <2>6, <2>7
<1>7. ASSUME NEW n \in DOMAIN page
      PROVE  /\ page[n].key \in Nat /\ page[n].key # Undated
             /\ q.media # Every => page[n].type = q.media
             /\ Ahead(q.sort, cur, page[n])
             /\ page[n].id \notin t =>
                  page[n] = RowOf(d, q.sort, page[n].id) /\ Admitted(d, q, page[n].id)
  BY <1>1, EntryOf DEF Dated, Gathered
<1>8. ASSUME NEW m \in DOMAIN both, NEW n \in DOMAIN both, m < n
      PROVE  Ahead(q.sort, both[m], both[n])
  <2>1. m \in Nat /\ n \in Nat
    BY <1>1, <1>2
  <2>2. CASE n <= Len(page)
    <3>1. m \in DOMAIN page /\ n \in DOMAIN page
      BY <1>1, <1>2, <1>8, <2>1, <2>2
    <3> QED
      BY <1>1, <1>2, <1>8, <3>1 DEF Dated, Gathered
  <2>3. CASE m <= Len(page) /\ n > Len(page)
    <3>1. m \in DOMAIN page /\ both[m] = page[m]
      BY <1>1, <1>2, <2>3
    <3>2. n - Len(page) \in DOMAIN p /\ both[n] = p[n - Len(page)]
      BY <1>1, <1>3, <2>1, <2>3
    <3> QED
      BY <1>6, <1>7, <3>1, <3>2 DEF Ahead, Undated
  <2>4. CASE m > Len(page)
    <3>1. m - Len(page) \in DOMAIN p /\ both[m] = p[m - Len(page)]
      BY <1>1, <1>3, <2>1, <2>4
    <3>2. n - Len(page) \in DOMAIN p /\ both[n] = p[n - Len(page)]
      BY <1>1, <1>3, <1>8, <2>1, <2>4
    <3>3. m - Len(page) < n - Len(page)
      BY <1>1, <1>8, <2>1
    <3> QED
      BY <3>1, <3>2, <3>3 DEF IsPageOf
  <2> QED
    BY <1>1, <2>1, <2>2, <2>3, <2>4
<1>9. ASSUME NEW w \in Works \ t, Admitted(d, q, w), Left(d, q, cur, w)
      PROVE  \/ \E n \in DOMAIN both : both[n].id = w
             \/ /\ Len(both) = BrowseLimit + 1
                /\ \A n \in DOMAIN both : Ahead(q.sort, both[n], RowOf(d, q.sort, w))
  <2> DEFINE row == RowOf(d, q.sort, w)
  <2>1. q.sort \in Sorts
    BY DEF GridQueries
  <2>2. row.key \in Nat /\ row.id = w /\ w \in Nat
    BY <2>1, RowTyped DEF Entries, ReadSideAssumption
  <2>3. CASE row.key # Undated
    <3>1. PICK n \in DOMAIN page : page[n].id = w
      BY <1>9, <2>3 DEF Dated
    <3>2. n \in DOMAIN both /\ both[n].id = w
      BY <1>1, <1>2, <3>1
    <3> QED
      BY <3>2
  <2>4. CASE row.key = Undated
    <3>1. Beyond(q.sort, TailStart, row)
      BY <1>5, <2>2, <2>4, TailAbove DEF Beyond
    <3>2. \/ \E i \in DOMAIN p : p[i].id = w
          \/ /\ Len(p) = BrowseLimit + 1 - Len(page)
             /\ \A i \in DOMAIN p : Ahead(q.sort, p[i], row)
      BY <1>9, <3>1 DEF IsPageOf
    <3>3. ASSUME NEW i \in DOMAIN p, p[i].id = w  PROVE \E n \in DOMAIN both : both[n].id = w
      <4>1. Len(page) + i \in DOMAIN both /\ both[Len(page) + i] = p[i]
        BY <1>1, <1>2
      <4> QED
        BY <3>3, <4>1
    <3>4. ASSUME Len(p) = BrowseLimit + 1 - Len(page), \A i \in DOMAIN p : Ahead(q.sort, p[i], row)
          PROVE  /\ Len(both) = BrowseLimit + 1
                 /\ \A n \in DOMAIN both : Ahead(q.sort, both[n], row)
      <4>1. \A n \in DOMAIN page : Ahead(q.sort, page[n], row)
        BY <1>7, <2>4 DEF Ahead, Undated
      <4>2. \A n \in DOMAIN both : Ahead(q.sort, both[n], row)
        BY <1>3, <3>4, <4>1
      <4> QED
        BY <1>1, <1>2, <3>4, <4>2
    <3> QED
      BY <3>2, <3>3, <3>4
  <2> QED
    BY <2>3, <2>4
<1>10. ASSUME NEW n \in DOMAIN both
       PROVE  /\ q.media # Every => both[n].type = q.media
              /\ Ahead(q.sort, cur, both[n])
              /\ both[n].id \notin t =>
                   both[n] = RowOf(d, q.sort, both[n].id) /\ Admitted(d, q, both[n].id)
  BY <1>3, <1>6, <1>7
<1>11. Gathered(d, t, q, cur, both)
  BY <1>2, <1>8, <1>10 DEF Gathered
<1>12. Len(both) <= BrowseLimit + 1
  BY <1>1, <1>2
<1> QED
  BY <1>9, <1>11, <1>12 DEF Filled, both
------------------------------------------------------------------------------
\* A transaction of the importer changes the rows of what it touches alone.
LEMMA WritesTouch ==
  ASSUME ReadSideAssumption, rows \in Tables, Import
  PROVE  /\ rows' \in Tables /\ touched \subseteq touched'
         /\ \A w \in Works \ touched' : rows'[w] = rows[w]
         /\ UNCHANGED <<reader, token>>
         /\ touched' # {}
<1> DEFINE Row == [live : BOOLEAN, added : Nat, title : Nat, formats : SUBSET Formats,
                   libs : SUBSET LibraryIds, filed : SUBSET LibraryIds]
           Touches(x) == touched' = touched \cup {x} /\ UNCHANGED <<reader, token>>
<1>1. rows \in [Works -> Row] /\ Tables = [Works -> Row] /\ Stamps \subseteq Nat
  BY DEF Tables, ReadSideAssumption
<1> HIDE DEF Row
<1>2. ASSUME NEW w \in Works, NEW row \in Row, rows' = [rows EXCEPT ![w] = row], Touches(w)
      PROVE  /\ rows' \in Tables /\ touched \subseteq touched'
             /\ \A v \in Works \ touched' : rows'[v] = rows[v]
             /\ UNCHANGED <<reader, token>>
             /\ touched' # {}
  BY <1>1, <1>2
<1>3. ASSUME NEW x, rows' = rows, Touches(x)
      PROVE  /\ rows' \in Tables /\ touched \subseteq touched'
             /\ \A v \in Works \ touched' : rows'[v] = rows[v]
             /\ UNCHANGED <<reader, token>>
             /\ touched' # {}
  BY <1>3
<1>4. ASSUME NEW w \in Works, NEW l \in LibraryIds, NEW title \in Stamps, NEW added \in Stamps,
             InsertWork(w, added, title, l)
      PROVE  \E row \in Row : rows' = [rows EXCEPT ![w] = row] /\ Touches(w)
  <2> DEFINE row == [live |-> TRUE, added |-> added, title |-> title,
                     formats |-> {}, libs |-> {l}, filed |-> {l}]
  <2>1. row \in Row
    BY <1>1 DEF Row
  <2>2. rows' = [rows EXCEPT ![w] = row] /\ Touches(w)
    BY <1>4 DEF InsertWork, Write
  <2> QED
    BY <2>1, <2>2
<1>5. ASSUME NEW w \in Works, NEW l \in LibraryIds, NEW title \in Stamps, UpdateWork(w, title, l)
      PROVE  \E row \in Row : rows' = [rows EXCEPT ![w] = row] /\ Touches(w)
  <2> DEFINE libs == rows[w].libs \cup {l}
             retitled == [rows[w] EXCEPT !.live = TRUE, !.title = title]
             row == Refiled(retitled, libs)
  <2>1. rows[w] \in Row
    BY <1>1
  <2>2. libs \subseteq LibraryIds
    BY <2>1 DEF Row
  <2>3. retitled \in Row
    BY <1>1, <2>1 DEF Row
  <2>4. row \in Row
    BY <2>2, <2>3 DEF Row, Refiled
  <2>5. rows' = [rows EXCEPT ![w] = row] /\ Touches(w)
    BY <1>1, <1>5 DEF UpdateWork, Write
  <2> QED
    BY <2>4, <2>5
<1>6. ASSUME NEW w \in Works, TombstoneWork(w)
      PROVE  \E row \in Row : rows' = [rows EXCEPT ![w] = row] /\ Touches(w)
  <2> DEFINE row == [rows[w] EXCEPT !.live = FALSE]
  <2>1. rows[w] \in Row
    BY <1>1
  <2>2. row \in Row
    BY <2>1 DEF Row
  <2>3. rows' = [rows EXCEPT ![w] = row] /\ Touches(w)
    BY <1>6 DEF TombstoneWork, Write
  <2> QED
    BY <2>2, <2>3
<1>7. ASSUME NEW w \in Works, NEW f \in Formats, WriteEdition(w, f)
      PROVE  \E row \in Row : rows' = [rows EXCEPT ![w] = row] /\ Touches(w)
  <2> DEFINE row == [rows[w] EXCEPT !.formats = {f}]
  <2>1. rows[w] \in Row
    BY <1>1
  <2>2. row \in Row
    BY <2>1 DEF Row
  <2>3. rows' = [rows EXCEPT ![w] = row] /\ Touches(w)
    BY <1>7 DEF WriteEdition, Write
  <2> QED
    BY <2>2, <2>3
<1>8. \/ \E w \in Works : \E row \in Row : rows' = [rows EXCEPT ![w] = row] /\ Touches(w)
      \/ \E x : rows' = rows /\ Touches(x)
  <2>1. CASE \E c \in Containers, shape \in NoteShapes, items \in 0 .. 1 :
               ReportContainer(c, shape, items)
    BY <2>1 DEF ReportContainer, Write
  <2>2. CASE \E i \in {c.instance : c \in Containers} : DeleteInstance(i)
    BY <2>2 DEF DeleteInstance, Write
  <2> QED
    BY <1>4, <1>5, <1>6, <1>7, <2>1, <2>2 DEF Import
<1> QED
  BY <1>2, <1>3, <1>8

\* It leaves the walk as it is.
LEMMA WalkWrites ==
  ASSUME ReadSideAssumption, WalkInv, Import
  PROVE  WalkInv'
<1>1. /\ rows' \in Tables /\ touched \subseteq touched'
      /\ \A w \in Works \ touched' : rows[w] = rows'[w]
      /\ reader' = reader /\ token' = token
  BY WritesTouch DEF WalkInv
<1>2. reader.at = "shown" => Told(rows', touched', reader.q, token.cur, reader.shown)
  BY <1>1, ToldStays DEF WalkInv
<1>3. reader.at \in {"page", "tail"} => Told(rows', touched', reader.q, reader.cur, reader.shown)
  BY <1>1, ToldStays DEF WalkInv
<1>4. reader.at = "tail" => Dated(rows', touched', reader.q, reader.cur, reader.page)
  BY <1>1, DatedStays DEF WalkInv
<1>5. WalkExact'
  <2>1. SUFFICES ASSUME reader.at = "walked", NEW w \in Works \ touched'
                 PROVE  Times(reader.shown, w) = IF Admitted(rows', reader.q, w) THEN 1 ELSE 0
    BY <1>1 DEF WalkInv, WalkExact
  <2>2. Times(reader.shown, w) = IF Admitted(rows, reader.q, w) THEN 1 ELSE 0
    BY <1>1, <2>1 DEF WalkInv, WalkExact
  <2>3. rows[w] = rows'[w]
    BY <1>1, <2>1
  <2>4. Admitted(rows, reader.q, w) <=> Admitted(rows', reader.q, w)
    BY <2>3, SameRow
  <2> QED
    BY <2>2, <2>4
<1> QED
  BY <1>1, <1>2, <1>3, <1>4, <1>5 DEF WalkInv

\* Requests of another kind are no walk.
LEMMA NoWalk ==
  ASSUME WalkInv, rows' = rows, token' = NoToken, "at" \in DOMAIN reader', reader'.at \notin Walking
  PROVE  WalkInv'
BY DEF WalkInv, WalkExact, Walking

\* A client asks for a page of the grid.
LEMMA WalkAsks ==
  ASSUME ReadSideAssumption, WalkInv, NEW from \in {"works", "recent"}, NEW q \in Asked(from),
         NEW tok \in {NoToken, token}, AskPage(from, q, tok)
  PROVE  WalkInv'
<1>1. q \in GridQueries
  <2>1. CASE from = "recent"
    BY <2>1 DEF Asked, GridQueries, Sorts
  <2>2. CASE from # "recent"
    BY <2>2 DEF Asked, ReadSideAssumption
  <2> QED
    BY <2>1, <2>2
<1>2. CASE Refuse
  BY <1>2, NoWalk DEF Refuse, Reading, table, Idle, Walking
<1>3. CASE ~ Refuse
  <2> DEFINE shown == IF tok.cur = Start THEN <<>> ELSE reader.shown
             r == [at |-> "page", from |-> from, q |-> q, cur |-> tok.cur, page |-> <<>>,
                   shown |-> shown]
  <2>1. /\ Servable(q, tok.cur) /\ reader' = r /\ UNCHANGED rows
        /\ touched' = IF tok.cur = Start THEN {} ELSE touched
        /\ token' = NoToken
        /\ tok # NoToken => [q EXCEPT !.sort = reader.q.sort] = reader.q
    BY <1>3 DEF AskPage, Reading, table
  <2>2. CASE tok.cur = Start
    <3>1. shown = <<>> /\ touched' = {}
      BY <2>1, <2>2
    <3>2. Told(rows, {}, q, tok.cur, <<>>)
      BY <2>2 DEF Told, Shows, Left
    <3>3. r \in Walks
      BY <1>1, <2>2, <3>1 DEF Walks, Walking
    <3> QED
      BY <2>1, <2>2, <3>1, <3>2, <3>3 DEF WalkInv, WalkExact, Walking
  <2>3. CASE tok.cur # Start
    <3>1. tok = token /\ token # NoToken /\ reader.at = "shown" /\ reader \in Walks
      BY <2>3 DEF NoToken, WalkInv, Walking
    <3>2. Fits(reader.q, tok.cur) /\ Told(rows, touched, reader.q, tok.cur, reader.shown)
      BY <3>1 DEF WalkInv
    <3>3. q.sort = reader.q.sort
      BY <2>1, <2>3, <3>2 DEF Servable, Fits
    <3>4. q = reader.q
      BY <1>1, <2>1, <3>1, <3>3 DEF GridQueries
    <3>5. shown = reader.shown /\ touched' = touched
      BY <2>1, <2>3
    <3>6. r \in Walks
      BY <1>1, <3>1, <3>2, <3>5 DEF Walks, Walking, Fits
    <3> QED
      BY <2>1, <3>2, <3>4, <3>5, <3>6 DEF WalkInv, WalkExact, Walking
  <2> QED
    BY <2>2, <2>3
<1> QED
  BY <1>2, <1>3

\* The request after a statement that ends a page.
Moves(r, at, seq) == [r EXCEPT !.at = at, !.page = <<>>, !.shown = seq]

\* It is the same request.
LEMMA Moved ==
  ASSUME NEW r \in Walks, NEW at \in Walking, NEW seq \in Seq(Entries)
  PROVE  /\ Moves(r, at, seq) \in Walks /\ "at" \in DOMAIN Moves(r, at, seq)
         /\ Moves(r, at, seq).at = at /\ Moves(r, at, seq).q = r.q
         /\ Moves(r, at, seq).shown = seq
<1>1. <<>> \in Seq(Entries)
  OBVIOUS
<1> QED
  BY <1>1 DEF Walks, Moves

\* What a page that is read does to a walk.
LEMMA WalkAnswered ==
  ASSUME ReadSideAssumption, WalkInv, reader.at \in {"page", "tail"}, NEW page,
         Filled(rows, touched, reader.q, reader.cur, page), Answered(reader, page),
         UNCHANGED touched
  PROVE  WalkInv'
<1> DEFINE q == reader.q
           cur == reader.cur
<1>1. /\ reader \in Walks /\ q \in GridQueries /\ reader.shown \in Seq(Entries)
      /\ cur = Start \/ Fits(q, cur)
      /\ Told(rows, touched, q, cur, reader.shown)
      /\ rows \in Tables /\ rows' = rows /\ touched' = touched
  BY DEF WalkInv, Walking, Walks, Answered, Reading, table
<1>2. page \in Seq(Entries) /\ Len(page) \in Nat /\ BrowseLimit \in Nat
  BY DEF Filled, Gathered, ReadSideAssumption
<1>3. CASE Len(page) <= BrowseLimit
  <2> DEFINE shown == reader.shown \o page
  <2>1. Whole(rows, touched, q, shown)
    BY <1>1, <1>3, LastPage
  <2>2. reader' = Moves(reader, "walked", shown) /\ token' = NoToken
    BY <1>1, <1>3 DEF Answered, Reading, Walks, Moves
  <2> HIDE DEF shown
  <2>3. /\ reader' \in Walks /\ reader'.at = "walked" /\ reader'.q = q
        /\ reader'.shown = shown /\ "at" \in DOMAIN reader'
    <3>1. reader \in Walks /\ shown \in Seq(Entries) /\ "walked" \in Walking
      BY <1>1, <2>1 DEF Whole, Walking
    <3> QED
      BY <2>2, <3>1, Moved
  <2>4. ASSUME NEW w \in Works \ touched
        PROVE  Times(shown, w) = IF Admitted(rows, q, w) THEN 1 ELSE 0
    <3>1. Shows(shown, w, Admitted(rows, q, w)) /\ Admitted(rows, q, w) \in BOOLEAN
      BY <2>1 DEF Whole, Admitted
    <3> QED
      BY <3>1, Counted
  <2>5. WalkExact'
    BY <1>1, <2>1, <2>3, <2>4 DEF WalkExact, Whole
  <2> QED
    BY <1>1, <2>2, <2>3, <2>5 DEF WalkInv
<1>4. CASE Len(page) > BrowseLimit
  <2> DEFINE after == browseNextCursor(q.sort, page)
             shown == reader.shown \o SubSeq(page, 1, BrowseLimit)
  <2>1. Fits(q, after) /\ Told(rows, touched, q, after, shown)
    BY <1>1, <1>4, NextPage
  <2>2. /\ reader' = Moves(reader, "shown", shown)
        /\ token' = [from |-> reader.from, cur |-> after]
    BY <1>1, <1>2, <1>4 DEF Answered, Reading, Walks, Moves
  <2>3. shown \in Seq(Entries)
    BY <2>1 DEF Told
  <2> HIDE DEF after, shown
  <2>4. /\ reader' \in Walks /\ reader'.at = "shown" /\ reader'.q = q /\ reader'.shown = shown
        /\ "at" \in DOMAIN reader'
    <3>1. reader \in Walks /\ "shown" \in Walking
      BY <1>1 DEF Walking
    <3> QED
      BY <2>2, <2>3, <3>1, Moved
  <2>5. token'.cur = after
    BY <2>2
  <2> QED
    BY <1>1, <2>1, <2>4, <2>5 DEF WalkInv, WalkExact
<1> QED
  BY <1>2, <1>3, <1>4

\* The first statement of a page.
LEMMA WalkReadsPage ==
  ASSUME ReadSideAssumption, WalkInv, ReadPage
  PROVE  WalkInv'
<1> DEFINE q == reader.q
           cur == reader.cur
           page == browseWorksPage(rows, q, cur, BrowseLimit + 1)
<1>1. /\ reader.at = "page" /\ reader \in Walks /\ q \in GridQueries
      /\ cur = Start \/ Fits(q, cur)
      /\ rows \in Tables /\ touched' = touched
      /\ token = NoToken /\ BrowseLimit + 1 \in Nat
      /\ Told(rows, touched, q, cur, reader.shown)
  BY DEF ReadPage, WalkInv, Walking, Walks, ReadSideAssumption
<1>2. IsPageOf(page, rows, q, cur, BrowseLimit + 1)
  BY <1>1, PageRead
<1>3. IF NeedsTail(q, cur, page)
      THEN Reading([reader EXCEPT !.at = "tail", !.page = page]) /\ token' = token
      ELSE Answered(reader, page)
  BY DEF ReadPage
<1> HIDE DEF page
<1>4. CASE NeedsTail(q, cur, page)
  <2>1. Dated(rows, touched, q, cur, page) /\ q.sort = "added_at" /\ cur # Start /\ ~ cur.tail
    BY <1>1, <1>2, <1>4, PageDated DEF NeedsTail
  <2>2. reader' = [reader EXCEPT !.at = "tail", !.page = page] /\ token' = NoToken /\ rows' = rows
    BY <1>1, <1>3, <1>4 DEF Reading, table
  <2>3. page \in Seq(Entries)
    BY <2>1 DEF Dated, Gathered
  <2>4. /\ reader' \in Walks /\ reader'.at = "tail" /\ reader'.q = q /\ reader'.cur = cur
        /\ reader'.page = page /\ reader'.shown = reader.shown /\ "at" \in DOMAIN reader'
    BY <1>1, <2>2, <2>3 DEF Walks, Walking
  <2> QED
    BY <1>1, <2>1, <2>2, <2>4 DEF WalkInv, WalkExact
<1>5. CASE ~ NeedsTail(q, cur, page)
  <2>1. Filled(rows, touched, q, cur, page)
    BY <1>1, <1>2, <1>5, PageFilled
  <2> QED
    BY <1>1, <1>3, <1>5, <2>1, WalkAnswered
<1> QED
  BY <1>4, <1>5

\* The second.
LEMMA WalkReadsTail ==
  ASSUME ReadSideAssumption, WalkInv, ReadTail
  PROVE  WalkInv'
<1> DEFINE q == reader.q
           cur == reader.cur
           page == reader.page
           p == browseWorksPage(rows, q, TailStart, BrowseLimit + 1 - Len(page))
<1>1. /\ reader.at = "tail" /\ reader \in Walks /\ q \in GridQueries
      /\ Fits(q, cur) /\ rows \in Tables /\ touched' = touched
      /\ q.sort = "added_at" /\ cur # Start /\ ~ cur.tail
      /\ Dated(rows, touched, q, cur, page)
      /\ Answered(reader, page \o p)
  BY DEF ReadTail, WalkInv, Walking, Walks
<1>2. BrowseLimit + 1 - Len(page) \in Nat
  BY <1>1 DEF Dated, Gathered, ReadSideAssumption
<1>3. IsPageOf(p, rows, q, TailStart, BrowseLimit + 1 - Len(page))
  BY <1>1, <1>2, PageRead
<1> HIDE DEF p
<1>4. Filled(rows, touched, q, cur, page \o p)
  BY <1>1, <1>3, TailFilled
<1> QED
  BY <1>1, <1>4, WalkAnswered

\* No step of the program breaks the walk.
LEMMA WalkStep ==
  ASSUME ReadSideAssumption, WalkInv, [RSNext]_readVars
  PROVE  WalkInv'
<1>1. CASE Import
  BY <1>1, WalkWrites
<1>2. ASSUME NEW from \in {"works", "recent"}, NEW q \in Asked(from), NEW tok \in {NoToken, token},
             AskPage(from, q, tok)
      PROVE  WalkInv'
  BY <1>2, WalkAsks
<1>3. CASE ReadPage
  BY <1>3, WalkReadsPage
<1>4. CASE ReadTail
  BY <1>4, WalkReadsTail
<1>5. token # NoToken => reader.at = "shown"
  BY DEF WalkInv
<1>6. ASSUME NEW owner \in BOOLEAN, CountKinds(owner)  PROVE WalkInv'
  BY <1>5, <1>6, NoWalk DEF CountKinds, Begin, Reading, table, Walking
<1>7. ASSUME NEW owner \in BOOLEAN, ListLibraries(owner)  PROVE WalkInv'
  BY <1>5, <1>7, NoWalk DEF ListLibraries, Begin, Reading, table, Walking
<1>8. ASSUME NEW owner \in BOOLEAN, NEW limit \in SearchLimits, ReadSearchable(owner, limit)
      PROVE  WalkInv'
  BY <1>5, <1>8, NoWalk DEF ReadSearchable, Begin, Reading, table, Walking
<1>9. CASE CountAudiobooks
  BY <1>5, <1>9, NoWalk DEF CountAudiobooks, Reading, table, Walking
<1>10. CASE AttachSources
  BY <1>5, <1>10, NoWalk DEF AttachSources, Reading, table, Walking, WalkInv
<1>11. CASE AttachCompleteness
  BY <1>5, <1>11, NoWalk DEF AttachCompleteness, Reading, table, Walking, WalkInv
<1>12. CASE AttachSkips
  BY <1>5, <1>12, NoWalk DEF AttachSkips, Reading, table, Walking, WalkInv
<1>13. CASE Retrieve
  BY <1>5, <1>13, NoWalk DEF Retrieve, Reading, table, Walking
<1>14. CASE Leave
  BY <1>14, NoWalk DEF Leave, Reading, table, Idle, Walking
<1>15. CASE UNCHANGED readVars
  BY <1>15 DEF readVars, WalkInv, WalkExact
<1> QED
  BY <1>1, <1>2, <1>3, <1>4, <1>6, <1>7, <1>8, <1>9, <1>10, <1>11, <1>12, <1>13, <1>14, <1>15
     DEF RSNext, Serve

\* Whatever the importer writes meanwhile, a walk of the grid shows every work that nobody
\* touched once if the filter admits it, and never otherwise.
THEOREM WalkExactCorrect == RSSpec => []WalkExact
<1>1. RSInit => WalkInv
  <2>1. SUFFICES ASSUME RSInit  PROVE WalkInv
    OBVIOUS
  <2>2. rows \in Tables /\ reader = Idle /\ token = NoToken
    BY <2>1, ReadSideAssumption DEF RSInit, ReadSideAssumption
  <2> QED
    BY <2>2 DEF WalkInv, WalkExact, Idle, Walking
<1>2. WalkInv /\ [RSNext]_readVars => WalkInv'
  BY WalkStep, ReadSideAssumption
<1>3. WalkInv => WalkExact
  BY DEF WalkInv
<1> QED
  BY <1>1, <1>2, <1>3, PTL DEF RSSpec
------------------------------------------------------------------------------
\* The facet counts as the grid's rows would have them.
CountsOf(d, owner) ==
  [m \in MediaTypes |-> Cardinality({w \in Works : Visible(d, owner, w) /\ mediaTypeOf(d, w) = m})]

\* Two counts of one table: there are no more audiobooks than books, and they make the counts.
LEMMA CountsAdd ==
  ASSUME ReadSideAssumption, NEW d, NEW owner
  PROVE  /\ audiobookCount(d, owner) <= mediaTypeCounts(d, owner)["ebooks"]
         /\ [mediaTypeCounts(d, owner) EXCEPT !["ebooks"] = @ - audiobookCount(d, owner),
                                              !["audiobooks"] = audiobookCount(d, owner)]
              = CountsOf(d, owner)
<1> DEFINE Of(m) == {w \in Works : Visible(d, owner, w) /\ mediaTypeOf(d, w) = m}
           books == {w \in Works : Visible(d, owner, w) /\ KindOf[w] \in browseKinds["ebooks"]}
           audio == {w \in Works : /\ Visible(d, owner, w) /\ KindOf[w] = "book"
                                   /\ browseAudiobookPredicate(d[w])}
           counts == mediaTypeCounts(d, owner)
           n == audiobookCount(d, owner)
<1>1. ASSUME NEW w \in Works
      PROVE  /\ mediaTypeOf(d, w) \in MediaTypes
             /\ KindOf[w] \in browseKinds[mediaTypeOf(d, w)]
             /\ KindOf[w] = "book" =>
                  mediaTypeOf(d, w) = IF browseAudiobookPredicate(d[w]) THEN "audiobooks" ELSE "ebooks"
             /\ \A m \in MediaTypes : KindOf[w] # "book" /\ KindOf[w] \in browseKinds[m] =>
                  mediaTypeOf(d, w) = m
  BY TypeOfWork
<1>2. audio = Of("audiobooks")
  <2>1. ASSUME NEW w \in Works, mediaTypeOf(d, w) = "audiobooks"
        PROVE  KindOf[w] = "book" /\ browseAudiobookPredicate(d[w])
    <3>1. KindOf[w] = "book"
      BY <1>1, <2>1, KindsOfTypes
    <3> QED
      BY <1>1, <2>1, <3>1
  <2>2. ASSUME NEW w \in Works, KindOf[w] = "book", browseAudiobookPredicate(d[w])
        PROVE  mediaTypeOf(d, w) = "audiobooks"
    BY <1>1, <2>2
  <2> QED
    BY <2>1, <2>2
<1>3. books \ audio = Of("ebooks") /\ audio \subseteq books
  <2>1. ASSUME NEW w \in Works, mediaTypeOf(d, w) = "ebooks"
        PROVE  KindOf[w] = "book" /\ ~ browseAudiobookPredicate(d[w])
    <3>1. KindOf[w] = "book"
      BY <1>1, <2>1, KindsOfTypes
    <3> QED
      BY <1>1, <2>1, <3>1
  <2>2. ASSUME NEW w \in Works, KindOf[w] = "book", ~ browseAudiobookPredicate(d[w])
        PROVE  mediaTypeOf(d, w) = "ebooks"
    BY <1>1, <2>2
  <2>3. \A w \in Works : KindOf[w] \in browseKinds["ebooks"] <=> KindOf[w] = "book"
    BY KindsOfTypes
  <2> QED
    BY <2>1, <2>2, <2>3
<1>4. ASSUME NEW m \in MediaTypes, m \notin {"ebooks", "audiobooks"}
      PROVE  {w \in Works : Visible(d, owner, w) /\ KindOf[w] \in browseKinds[m]} = Of(m)
  <2>1. ASSUME NEW w \in Works, KindOf[w] \in browseKinds[m]  PROVE mediaTypeOf(d, w) = m
    <3>1. KindOf[w] # "book"
      BY <1>4, <2>1, KindsOfTypes DEF MediaTypes
    <3> QED
      BY <1>1, <2>1, <3>1
  <2>2. ASSUME NEW w \in Works, mediaTypeOf(d, w) = m  PROVE KindOf[w] \in browseKinds[m]
    BY <1>1, <2>2
  <2> QED
    BY <2>1, <2>2
<1>5. n = Cardinality(audio) /\ counts["ebooks"] = Cardinality(books)
  <2>1. "ebooks" \in MediaTypes
    BY DEF MediaTypes
  <2> QED
    BY <2>1 DEF audiobookCount, mediaTypeCounts
<1>6. IsFiniteSet(books) /\ IsFiniteSet(audio)
  BY FS_Subset DEF ReadSideAssumption
<1>7. /\ Cardinality(books) \in Nat /\ Cardinality(audio) \in Nat
      /\ Cardinality(audio) <= Cardinality(books)
  BY <1>3, <1>6, FS_CardinalityType, FS_Subset
<1>8. Cardinality(books \ audio) = Cardinality(books) - Cardinality(audio)
  <2>1. books \cap audio = audio
    BY <1>3
  <2> QED
    BY <1>6, <1>7, <2>1, FS_Difference
<1>9. ASSUME NEW m \in MediaTypes
      PROVE  [counts EXCEPT !["ebooks"] = @ - n, !["audiobooks"] = n][m] = Cardinality(Of(m))
  <2>1. DOMAIN counts = MediaTypes /\ counts = [x \in MediaTypes |-> counts[x]]
    BY DEF mediaTypeCounts
  <2> HIDE DEF counts, n, books, audio, Of
  <2>2. CASE m = "ebooks"
    BY <1>3, <1>5, <1>8, <2>1, <2>2
  <2>3. CASE m = "audiobooks"
    BY <1>2, <1>5, <2>1, <2>3
  <2>4. CASE m \notin {"ebooks", "audiobooks"}
    <3>1. counts[m] = Cardinality({w \in Works : Visible(d, owner, w) /\ KindOf[w] \in browseKinds[m]})
      BY <2>4 DEF mediaTypeCounts, counts
    <3>2. counts[m] = Cardinality(Of(m))
      BY <1>4, <2>4, <3>1
    <3> QED
      BY <2>1, <2>4, <3>2
  <2> QED
    BY <2>2, <2>3, <2>4
<1>10. n <= counts["ebooks"]
  BY <1>5, <1>7
<1>11. DOMAIN counts = MediaTypes /\ CountsOf(d, owner) = [m \in MediaTypes |-> Cardinality(Of(m))]
  BY DEF mediaTypeCounts, CountsOf
<1> HIDE DEF counts, n, Of
<1>12. [counts EXCEPT !["ebooks"] = @ - n, !["audiobooks"] = n] = CountsOf(d, owner)
  BY <1>9, <1>11
<1> QED
  BY <1>10, <1>12 DEF counts, n

\* They are numbers.
LEMMA CountsTyped ==
  ASSUME ReadSideAssumption, NEW d, NEW owner
  PROVE  audiobookCount(d, owner) \in Nat /\ mediaTypeCounts(d, owner)["ebooks"] \in Nat
<1>1. \A S \in SUBSET Works : Cardinality(S) \in Nat
  BY FS_Subset, FS_CardinalityType DEF ReadSideAssumption
<1>2. "ebooks" \in MediaTypes
  BY DEF MediaTypes
<1> QED
  BY <1>1, <1>2 DEF audiobookCount, mediaTypeCounts

\* No step of the program breaks the facet counts.
LEMMA FacetsStep ==
  ASSUME ReadSideAssumption, WalkInv, FacetsInv, [RSNext]_readVars
  PROVE  FacetsInv'
<1> DEFINE Facets == {"audiobooks", "counted", "refused"}
<1>0. "at" \in DOMAIN reader /\ (reader.at \in Walking => reader \in Walks)
  BY DEF WalkInv
<1>1. ASSUME reader'.at \notin Facets  PROVE FacetsInv'
  BY <1>1 DEF FacetsInv, FacetsExact
<1>2. CASE Import
  BY <1>2, WritesTouch DEF FacetsInv, FacetsExact, WalkInv
<1>3. ASSUME NEW from \in {"works", "recent"}, NEW q \in Asked(from), NEW tok \in {NoToken, token},
             AskPage(from, q, tok)
      PROVE  FacetsInv'
  BY <1>1, <1>3 DEF AskPage, Refuse, Reading, Idle
<1>4. ASSUME reader.at \in Walking, NEW page, Answered(reader, page)  PROVE reader'.at \notin Facets
  BY <1>0, <1>4 DEF Answered, Reading, Walks
<1>5. CASE ReadPage
  <2>1. reader.at \in Walking
    BY <1>5 DEF ReadPage, Walking
  <2>2. CASE NeedsTail(reader.q, reader.cur,
                       browseWorksPage(rows, reader.q, reader.cur, BrowseLimit + 1))
    BY <1>0, <1>1, <1>5, <2>1, <2>2 DEF ReadPage, Reading, Walks
  <2>3. CASE ~ NeedsTail(reader.q, reader.cur,
                         browseWorksPage(rows, reader.q, reader.cur, BrowseLimit + 1))
    BY <1>1, <1>4, <1>5, <2>1, <2>3 DEF ReadPage
  <2> QED
    BY <2>2, <2>3
<1>6. CASE ReadTail
  BY <1>1, <1>4, <1>6 DEF ReadTail, Walking
<1>7. ASSUME NEW owner \in BOOLEAN, CountKinds(owner)  PROVE FacetsInv'
  BY <1>7 DEF CountKinds, Begin, Reading, table, FacetsInv, FacetsExact
<1>8. ASSUME NEW owner \in BOOLEAN, ListLibraries(owner)  PROVE FacetsInv'
  BY <1>1, <1>8 DEF ListLibraries, Begin, Reading
<1>9. ASSUME NEW owner \in BOOLEAN, NEW limit \in SearchLimits, ReadSearchable(owner, limit)
      PROVE  FacetsInv'
  BY <1>1, <1>9 DEF ReadSearchable, Begin, Reading
<1>10. CASE CountAudiobooks
  <2> DEFINE n == audiobookCount(rows, reader.owner)
             counts == mediaTypeCounts(rows, reader.owner)
             split == [counts EXCEPT !["ebooks"] = @ - n, !["audiobooks"] = n]
  <2>1. /\ reader.at = "audiobooks" /\ rows' = rows /\ touched' = touched
        /\ reader' = IF n > reader.counts["ebooks"] THEN [at |-> "refused"]
                     ELSE [at |-> "counted", owner |-> reader.owner,
                           counts |-> [reader.counts EXCEPT !["ebooks"] = @ - n,
                                                            !["audiobooks"] = n]]
    BY <1>10 DEF CountAudiobooks, Reading, table
  <2>2. reader'.at # "audiobooks"
    BY <2>1
  <2>3. ASSUME touched = {}
        PROVE  reader' = [at |-> "counted", owner |-> reader.owner,
                          counts |-> CountsOf(rows, reader.owner)]
    <3>1. reader.counts = counts
      BY <2>1, <2>3 DEF FacetsInv
    <3>2. n <= counts["ebooks"] /\ split = CountsOf(rows, reader.owner)
      BY CountsAdd
    <3>3. n \in Nat /\ counts["ebooks"] \in Nat
      BY CountsTyped
    <3>4. reader' = IF n > counts["ebooks"] THEN [at |-> "refused"]
                    ELSE [at |-> "counted", owner |-> reader.owner, counts |-> split]
      BY <2>1, <3>1
    <3> HIDE DEF n, counts, split
    <3> QED
      BY <3>2, <3>3, <3>4
  <2>4. FacetsExact'
    BY <2>1, <2>3 DEF FacetsExact, CountsOf
  <2> QED
    BY <2>1, <2>2, <2>4 DEF FacetsInv
<1>11. CASE AttachSources \/ AttachCompleteness \/ AttachSkips
  BY <1>0, <1>1, <1>11 DEF AttachSources, AttachCompleteness, AttachSkips, Reading
<1>12. CASE Retrieve
  BY <1>1, <1>12 DEF Retrieve, Reading
<1>13. CASE Leave
  BY <1>1, <1>13 DEF Leave, Reading, Idle
<1>14. CASE UNCHANGED readVars
  BY <1>14 DEF readVars, FacetsInv, FacetsExact
<1> QED
  BY <1>2, <1>3, <1>5, <1>6, <1>7, <1>8, <1>9, <1>10, <1>11, <1>12, <1>13, <1>14 DEF RSNext, Serve

\* The two statements of the facet counts agree with the grid whenever nothing was written
\* between them, and with nothing else to blame no request is refused.
THEOREM FacetsExactCorrect == RSSpec => []FacetsExact
<1>1. RSInit => WalkInv /\ FacetsInv
  <2>1. SUFFICES ASSUME RSInit  PROVE WalkInv /\ FacetsInv
    OBVIOUS
  <2>2. rows \in Tables /\ reader = Idle /\ token = NoToken
    BY <2>1, ReadSideAssumption DEF RSInit, ReadSideAssumption
  <2> QED
    BY <2>2 DEF WalkInv, WalkExact, FacetsInv, FacetsExact, Idle, Walking
<1>2. WalkInv /\ FacetsInv /\ [RSNext]_readVars => (WalkInv /\ FacetsInv)'
  BY WalkStep, FacetsStep, ReadSideAssumption
<1>3. FacetsInv => FacetsExact
  BY DEF FacetsInv
<1> QED
  BY <1>1, <1>2, <1>3, PTL DEF RSSpec
------------------------------------------------------------------------------
(* The search: what is sorted, what a leg retrieves, and the candidates.     *)

\* The fused statement sorts its rows.
LEMMA RanksEnumerated ==
  ASSUME NEW S, IsFiniteSet(S), \A x \in S : x.rrf \in Nat /\ x.id \in Nat,
         \A x, y \in S : x.id = y.id => x = y
  PROVE  Enumerates(ByRank(S), S)
<1> DEFINE before == [x \in S |-> {y \in S : y.rrf > x.rrf \/ (y.rrf = x.rrf /\ y.id < x.id)}]
           val == [x \in S |-> x.rrf]
           id == [x \in S |-> x.id]
           q == ByRank(S)
<1>1. q = [n \in 1 .. Cardinality(S) |->
             CHOOSE x \in S : Cardinality({y \in S : y.rrf > x.rrf \/ (y.rrf = x.rrf /\ y.id < x.id)}) = n - 1]
  BY DEF ByRank, Sorted
<1>2. Orders(S, before)
  <2>1. before \in [S -> SUBSET S] /\ val \in [S -> Nat] /\ id \in [S -> Nat]
    OBVIOUS
  <2>2. \A x, y \in S : y \in before[x] <=> (val[y] > val[x] \/ (val[y] = val[x] /\ id[y] < id[x]))
    OBVIOUS
  <2>3. \A x, y \in S : id[x] = id[y] => x = y
    OBVIOUS
  <2> HIDE DEF before, val, id
  <2> QED
    BY <2>1, <2>2, <2>3, RankOrders
<1>3. ASSUME NEW n \in 1 .. Cardinality(S)
      PROVE  q[n] \in S /\ Cardinality(before[q[n]]) = n - 1
  <2>1. \E x \in S : Cardinality(before[x]) = n - 1
    <3> HIDE DEF before
    <3> QED
      BY <1>2, Ranks
  <2>2. \A x \in S : before[x] = {y \in S : y.rrf > x.rrf \/ (y.rrf = x.rrf /\ y.id < x.id)}
    OBVIOUS
  <2>3. \E x \in S : Cardinality({y \in S : y.rrf > x.rrf \/ (y.rrf = x.rrf /\ y.id < x.id)}) = n - 1
    BY <2>1, <2>2
  <2>4. /\ q[n] \in S
        /\ Cardinality({y \in S : y.rrf > q[n].rrf \/ (y.rrf = q[n].rrf /\ y.id < q[n].id)}) = n - 1
    BY <1>1, <2>3
  <2> QED
    BY <2>2, <2>4
<1>4. Placed(q, S, before)
  BY <1>1, <1>3 DEF Placed
<1> HIDE DEF before, q
<1> QED
  BY <1>2, <1>4, Listed, ListEnumerates DEF q

\* The rescored rows are sorted likewise.
LEMMA ScoresEnumerated ==
  ASSUME NEW S, IsFiniteSet(S), \A x \in S : x.score \in Nat /\ x.id \in Nat,
         \A x, y \in S : x.id = y.id => x = y
  PROVE  Enumerates(ByScore(S), S)
<1> DEFINE before == [x \in S |-> {y \in S : y.score > x.score \/ (y.score = x.score /\ y.id < x.id)}]
           val == [x \in S |-> x.score]
           id == [x \in S |-> x.id]
           q == ByScore(S)
<1>1. q = [n \in 1 .. Cardinality(S) |->
             CHOOSE x \in S : Cardinality({y \in S : y.score > x.score \/ (y.score = x.score /\ y.id < x.id)}) = n - 1]
  BY DEF ByScore, Sorted
<1>2. Orders(S, before)
  <2>1. before \in [S -> SUBSET S] /\ val \in [S -> Nat] /\ id \in [S -> Nat]
    OBVIOUS
  <2>2. \A x, y \in S : y \in before[x] <=> (val[y] > val[x] \/ (val[y] = val[x] /\ id[y] < id[x]))
    OBVIOUS
  <2>3. \A x, y \in S : id[x] = id[y] => x = y
    OBVIOUS
  <2> HIDE DEF before, val, id
  <2> QED
    BY <2>1, <2>2, <2>3, RankOrders
<1>3. ASSUME NEW n \in 1 .. Cardinality(S)
      PROVE  q[n] \in S /\ Cardinality(before[q[n]]) = n - 1
  <2>1. \E x \in S : Cardinality(before[x]) = n - 1
    <3> HIDE DEF before
    <3> QED
      BY <1>2, Ranks
  <2>2. \A x \in S : before[x] = {y \in S : y.score > x.score \/ (y.score = x.score /\ y.id < x.id)}
    OBVIOUS
  <2>3. \E x \in S : Cardinality({y \in S : y.score > x.score \/ (y.score = x.score /\ y.id < x.id)}) = n - 1
    BY <2>1, <2>2
  <2>4. /\ q[n] \in S
        /\ Cardinality({y \in S : y.score > q[n].score \/ (y.score = q[n].score /\ y.id < q[n].id)}) = n - 1
    BY <1>1, <2>3
  <2> QED
    BY <2>2, <2>4
<1>4. Placed(q, S, before)
  BY <1>1, <1>3 DEF Placed
<1> HIDE DEF before, q
<1> QED
  BY <1>2, <1>4, Listed, ListEnumerates DEF q

\* Places of a list, in their order.
LEMMA PlacesEnumerated ==
  ASSUME NEW S, IsFiniteSet(S), S \subseteq Nat
  PROVE  Enumerates(Ascending(S), S)
<1> DEFINE before == [x \in S |-> {y \in S : y < x}]
           q == Ascending(S)
<1>1. q = [n \in 1 .. Cardinality(S) |-> CHOOSE x \in S : Cardinality({y \in S : y < x}) = n - 1]
  BY DEF Ascending, Sorted
<1>2. Orders(S, before)
  BY DEF Orders
<1>3. ASSUME NEW n \in 1 .. Cardinality(S)
      PROVE  q[n] \in S /\ Cardinality(before[q[n]]) = n - 1
  <2>1. \E x \in S : Cardinality(before[x]) = n - 1
    BY <1>2, Ranks
  <2>2. \A x \in S : before[x] = {y \in S : y < x}
    OBVIOUS
  <2>3. \E x \in S : Cardinality({y \in S : y < x}) = n - 1
    BY <2>1, <2>2
  <2>4. q[n] \in S /\ Cardinality({y \in S : y < q[n]}) = n - 1
    BY <1>1, <2>3
  <2> QED
    BY <2>2, <2>4
<1>4. Placed(q, S, before)
  BY <1>1, <1>3 DEF Placed
<1> HIDE DEF before, q
<1> QED
  BY <1>2, <1>4, Listed, ListEnumerates DEF q

\* The first entries of a sequence.
LEMMA FirstOf ==
  ASSUME NEW T, NEW q \in Seq(T), NEW n \in Nat
  PROVE  /\ First(n, q) \in Seq(T) /\ Len(First(n, q)) = Least(n, Len(q))
         /\ Least(n, Len(q)) \in Nat /\ Least(n, Len(q)) <= n /\ Least(n, Len(q)) <= Len(q)
         /\ (n < Len(q) => Least(n, Len(q)) = n) /\ (n >= Len(q) => Least(n, Len(q)) = Len(q))
         /\ DOMAIN First(n, q) = 1 .. Least(n, Len(q)) /\ DOMAIN q = 1 .. Len(q) /\ Len(q) \in Nat
         /\ \A i \in 1 .. Least(n, Len(q)) : First(n, q)[i] = q[i] /\ i \in DOMAIN q
<1> DEFINE top == Least(n, Len(q))
<1>1. /\ top \in Nat /\ top <= n /\ top <= Len(q) /\ Len(q) \in Nat /\ DOMAIN q = 1 .. Len(q)
      /\ (n < Len(q) => top = n) /\ (n >= Len(q) => top = Len(q))
  BY DEF Least
<1>2. top \in Nat
  BY <1>1
<1>3. top \in Nat /\ top <= Len(q) /\ Len(q) \in Nat /\ DOMAIN q = 1 .. Len(q)
  BY <1>1
<1> HIDE DEF top
<1>4. /\ SubSeq(q, 1, top) \in Seq(T) /\ Len(SubSeq(q, 1, top)) = top
      /\ DOMAIN SubSeq(q, 1, top) = 1 .. top
      /\ \A i \in 1 .. top : SubSeq(q, 1, top)[i] = q[i] /\ i \in DOMAIN q
  <2> DEFINE p == SubSeq(q, 1, top)
  <2>1. 1 \in Int /\ top \in Int /\ \A i \in 1 .. top : q[i] \in T /\ i \in DOMAIN q
    <3>1. \A i \in 1 .. top : i \in DOMAIN q
      BY <1>3
    <3>2. \A i \in DOMAIN q : q[i] \in T
      OBVIOUS
    <3> QED
      BY <1>2, <3>1, <3>2
  <2>2. /\ p \in Seq(T) /\ Len(p) = IF 1 <= top THEN top - 1 + 1 ELSE 0
        /\ \A i \in 1 .. top - 1 + 1 : p[i] = q[1 + i - 1]
    BY <2>1, SubSeqProperties
  <2> HIDE DEF p
  <2>3. Len(p) = top /\ \A i \in 1 .. top : p[i] = q[i]
    <3>1. (IF 1 <= top THEN top - 1 + 1 ELSE 0) = top /\ top - 1 + 1 = top
      BY <1>2
    <3>2. \A i \in 1 .. top : 1 + i - 1 = i
      BY <1>2
    <3> QED
      BY <2>2, <3>1, <3>2
  <2>4. DOMAIN p = 1 .. top
    BY <2>2, <2>3, LenProperties
  <2> QED
    BY <2>1, <2>2, <2>3, <2>4 DEF p
<1> QED
  BY <1>1, <1>4 DEF First, top

\* What a leg retrieves, and that it leaves a document in scope out only if as many as it
\* retrieves rank ahead.
LegAhead(d, libs, leg, w) ==
  {u \in ToSet(leg) : /\ InScope(d, libs, u)
                      /\ \E a, b \in DOMAIN leg : a < b /\ leg[a] = u /\ leg[b] = w}

\* A leg retrieves documents it matches, at most as many as its limit.
LEMMA RetrievedTyped ==
  ASSUME LibrarySearchAssumption, NEW d, NEW libs, NEW n \in DOMAIN Legs
  PROVE  /\ Retrieved(d, Legs[n], libs) \in Seq(Works)
         /\ DOMAIN Retrieved(d, Legs[n], libs) \subseteq 1 .. RetrievalLimit
<1> DEFINE scope == {w \in Works : InScope(d, libs, w)}
           q == Selected(Legs[n], scope)
<1>1. Legs[n] \in Seq(Works) /\ RetrievalLimit \in Nat
  BY DEF LibrarySearchAssumption
<1> HIDE DEF scope
<1>2. q \in Seq(Works)
  BY <1>1, SelectedEntries
<1>3. Retrieved(d, Legs[n], libs) = First(RetrievalLimit, q)
  BY DEF Retrieved, scope
<1> HIDE DEF q
<1>4. /\ First(RetrievalLimit, q) \in Seq(Works)
      /\ DOMAIN First(RetrievalLimit, q) = 1 .. Least(RetrievalLimit, Len(q))
      /\ Least(RetrievalLimit, Len(q)) \in Nat /\ Least(RetrievalLimit, Len(q)) <= RetrievalLimit
  BY <1>1, <1>2, FirstOf
<1> QED
  BY <1>1, <1>3, <1>4

\* And leaves none out of its scope before it has that many.
LEMMA LegMisses ==
  ASSUME ReadSideAssumption, LibrarySearchAssumption, NEW d, NEW libs, NEW n \in DOMAIN Legs, NEW w,
         w \in ToSet(Legs[n]), InScope(d, libs, w), w \notin ToSet(Retrieved(d, Legs[n], libs))
  PROVE  Cardinality(LegAhead(d, libs, Legs[n], w)) >= RetrievalLimit
<1> DEFINE leg == Legs[n]
           scope == {u \in Works : InScope(d, libs, u)}
           q == Selected(leg, scope)
           top == First(RetrievalLimit, q)
           ahead == LegAhead(d, libs, leg, w)
<1>1. leg \in Seq(Works) /\ RetrievalLimit \in Nat /\ IsInjective(leg)
  BY DEF LibrarySearchAssumption
<1>2. Retrieved(d, leg, libs) = top
  BY DEF Retrieved
<1>3. w \in Works /\ w \in scope /\ \E b \in DOMAIN leg : leg[b] = w
  BY <1>1 DEF ToSet
<1>4. \A u \in scope : InScope(d, libs, u)
  OBVIOUS
<1> HIDE DEF leg, scope
<1>5. q \in Seq(Works) /\ Chosen(leg, scope, Len(leg), q) /\ InOrder(leg, Len(leg), q)
  BY <1>1, SelectedEntries
<1> HIDE DEF q
<1>6. /\ DOMAIN leg = 1 .. Len(leg) /\ Len(leg) \in Nat
      /\ \A a, b \in 1 .. Len(leg) : leg[a] = leg[b] => a = b
  BY <1>1 DEF IsInjective
<1>7. PICK k \in DOMAIN q : q[k] = w
  BY <1>3, <1>5, <1>6 DEF Chosen
<1>8. /\ DOMAIN q = 1 .. Len(q) /\ Len(q) \in Nat
      /\ RetrievalLimit < Len(q) => DOMAIN top = 1 .. RetrievalLimit
      /\ RetrievalLimit >= Len(q) => DOMAIN top = 1 .. Len(q)
      /\ \A i \in DOMAIN top : top[i] = q[i]
  <2>1. /\ (RetrievalLimit < Len(q) => Least(RetrievalLimit, Len(q)) = RetrievalLimit)
        /\ (RetrievalLimit >= Len(q) => Least(RetrievalLimit, Len(q)) = Len(q))
        /\ DOMAIN top = 1 .. Least(RetrievalLimit, Len(q)) /\ DOMAIN q = 1 .. Len(q) /\ Len(q) \in Nat
        /\ \A i \in 1 .. Least(RetrievalLimit, Len(q)) : top[i] = q[i] /\ i \in DOMAIN q
    BY <1>1, <1>5, FirstOf
  <2> HIDE DEF top
  <2> QED
    BY <2>1
<1>9. k \notin DOMAIN top
  BY <1>2, <1>7, <1>8 DEF ToSet, leg
<1>10. RetrievalLimit < k /\ k \in Nat /\ DOMAIN q = 1 .. Len(q) /\ k <= Len(q) /\ Len(q) \in Nat
  BY <1>1, <1>7, <1>8, <1>9
<1>11. ASSUME NEW i \in 1 .. RetrievalLimit  PROVE q[i] \in ahead
  <2>1. i \in DOMAIN q /\ i < k
    BY <1>1, <1>10
  <2>2. PICK a \in 1 .. Len(leg), b \in 1 .. Len(leg) : a < b /\ q[i] = leg[a] /\ q[k] = leg[b]
    BY <1>5, <1>7, <2>1 DEF InOrder
  <2>3. q[i] \in scope
    BY <1>5, <2>1 DEF Chosen
  <2> QED
    BY <1>4, <1>6, <1>7, <2>2, <2>3 DEF LegAhead, ToSet
<1>12. ASSUME NEW i \in 1 .. RetrievalLimit, NEW j \in 1 .. RetrievalLimit, i < j
       PROVE  q[i] # q[j]
  <2>1. i \in DOMAIN q /\ j \in DOMAIN q
    BY <1>1, <1>10
  <2>2. PICK a \in 1 .. Len(leg), b \in 1 .. Len(leg) : a < b /\ q[i] = leg[a] /\ q[j] = leg[b]
    BY <1>5, <1>12, <2>1 DEF InOrder
  <2> QED
    BY <1>6, <2>2
<1> DEFINE f == [i \in 1 .. RetrievalLimit |-> q[i]]
<1>13. f \in [1 .. RetrievalLimit -> ahead]
  BY <1>11
<1>14. \A i, j \in 1 .. RetrievalLimit : f[i] = f[j] => i = j
  <2>1. \A i, j \in 1 .. RetrievalLimit : i # j => q[i] # q[j]
    BY <1>1, <1>12
  <2> QED
    BY <2>1
<1>15. f \in Injection(1 .. RetrievalLimit, ahead)
  BY <1>13, <1>14 DEF Injection, IsInjective
<1>16. IsFiniteSet(ahead)
  <2>1. ahead \subseteq Works
    BY <1>1 DEF LegAhead, ToSet
  <2> QED
    BY <2>1, FS_Subset DEF ReadSideAssumption
<1>17. IsFiniteSet(1 .. RetrievalLimit) /\ Cardinality(1 .. RetrievalLimit) = RetrievalLimit
  BY <1>1, SpanFinite
<1> HIDE DEF f, ahead
<1>18. Cardinality(1 .. RetrievalLimit) <= Cardinality(ahead)
  BY <1>15, <1>16, <1>17, FS_Injection
<1>19. Cardinality(ahead) \in Nat
  BY <1>16, FS_CardinalityType
<1> QED
  BY <1>1, <1>17, <1>18, <1>19 DEF ahead, leg

\* A document that some leg retrieves.
RetrievedBy(d, libs, w) == \E n \in DOMAIN Legs : w \in ToSet(Retrieved(d, Legs[n], libs))

\* A share of something is a number.
LEMMA Shares == \A n \in Nat, k \in Nat \ {0} : Share(n, k) \in Nat
BY DEF Share, Unity

\* Fusing weighs what the legs retrieve, and nothing else.
LEMMA FusedTyped ==
  ASSUME LibrarySearchAssumption, NEW d, NEW libs
  PROVE  /\ DOMAIN Fused(d, libs) = {w \in Works : RetrievedBy(d, libs, w)}
         /\ \A w \in DOMAIN Fused(d, libs) : Fused(d, libs)[w] \in Nat
<1> DEFINE found == [n \in DOMAIN Legs |-> Retrieved(d, Legs[n], libs)]
           legs(w) == {n \in DOMAIN Legs : w \in ToSet(found[n])}
           rank(n, w) == CHOOSE r \in DOMAIN found[n] : found[n][r] = w
           weights(w) == [n \in legs(w) |-> Share(1, rrfK + rank(n, w))]
           docs == UNION {ToSet(found[n]) : n \in DOMAIN Legs}
<1>1. Fused(d, libs) = [w \in docs |-> SumFunction(weights(w))]
  BY DEF Fused
<1>2. RetrievalLimit \in Nat /\ IsFiniteSet(DOMAIN Legs)
  <2>1. Len(Legs) \in Nat /\ DOMAIN Legs = 1 .. Len(Legs)
    BY DEF LibrarySearchAssumption
  <2> QED
    BY <2>1, SpanFinite DEF LibrarySearchAssumption
<1>3. \A n \in DOMAIN Legs : found[n] = Retrieved(d, Legs[n], libs)
  OBVIOUS
<1>4. \A n \in DOMAIN Legs : found[n] \in Seq(Works) /\ DOMAIN found[n] \subseteq 1 .. RetrievalLimit
  BY <1>3, RetrievedTyped
<1>5. docs = {w \in Works : RetrievedBy(d, libs, w)}
  <2> HIDE DEF found
  <2>1. \A n \in DOMAIN Legs : ToSet(found[n]) \subseteq Works
    BY <1>4 DEF ToSet
  <2>2. \A w : RetrievedBy(d, libs, w) <=> \E n \in DOMAIN Legs : w \in ToSet(found[n])
    BY <1>3 DEF RetrievedBy
  <2> QED
    BY <2>1, <2>2
<1>6. ASSUME NEW w \in docs  PROVE SumFunction(weights(w)) \in Nat
  <2> HIDE DEF found
  <2>1. legs(w) \in SUBSET DOMAIN Legs
    OBVIOUS
  <2>2. IsFiniteSet(legs(w))
    BY <1>2, <2>1, FS_Subset
  <2>3. ASSUME NEW n \in legs(w)  PROVE Share(1, rrfK + rank(n, w)) \in Nat
    <3>1. \E r \in DOMAIN found[n] : found[n][r] = w
      BY DEF ToSet
    <3>2. rank(n, w) \in DOMAIN found[n]
      BY <3>1
    <3>3. rank(n, w) \in 1 .. RetrievalLimit
      BY <1>4, <3>2
    <3> HIDE DEF rank
    <3>4. rrfK + rank(n, w) \in Nat \ {0}
      BY <1>2, <3>3 DEF rrfK
    <3> QED
      BY <3>4, Shares
  <2>4. weights(w) \in [legs(w) -> Nat]
    BY <2>3
  <2> HIDE DEF weights, legs
  <2> QED
    BY <2>2, <2>4, SumTyped
<1> HIDE DEF weights, docs
<1> QED
  BY <1>1, <1>5, <1>6

\* The candidates for a query: visible documents that a leg retrieved, each once, all of them
\* unless there are as many as the statement's limit.
AreCandidates(C, d, owner, libs) ==
  /\ C \subseteq [id : Works, rrf : Nat] /\ IsFiniteSet(C)
  /\ \A c \in C : Visible(d, owner, c.id)
  /\ \A b, c \in C : b.id = c.id => b = c
  /\ \A w \in Works : Visible(d, owner, w) /\ RetrievedBy(d, libs, w) =>
       (\E c \in C : c.id = w) \/ Cardinality(C) >= RetrievalLimit

\* The fused statement gives them.
LEMMA CandidatesFound ==
  ASSUME ReadSideAssumption, LibrarySearchAssumption, NEW d, NEW owner, NEW libs
  PROVE  AreCandidates(Candidates(d, owner, libs), d, owner, libs)
<1> DEFINE fused == Fused(d, libs)
           docs == {u \in DOMAIN fused : Visible(d, owner, u)}
           S == {[id |-> w, rrf |-> fused[w]] : w \in docs}
           q == ByRank(S)
           top == First(RetrievalLimit, q)
           C == ToSet(top)
           f == [w \in docs |-> [id |-> w, rrf |-> fused[w]]]
<1>1. Candidates(d, owner, libs) = C
  BY DEF Candidates
<1>2. DOMAIN fused = {w \in Works : RetrievedBy(d, libs, w)} /\ \A w \in DOMAIN fused : fused[w] \in Nat
  BY FusedTyped
<1>3. Works \subseteq Nat /\ IsFiniteSet(Works) /\ RetrievalLimit \in Nat
  BY DEF ReadSideAssumption, LibrarySearchAssumption
<1> HIDE DEF fused
<1>4. docs \subseteq Works /\ \A w \in docs : Visible(d, owner, w) /\ fused[w] \in Nat
  BY <1>2
<1>5. \A w \in Works : Visible(d, owner, w) /\ RetrievedBy(d, libs, w) => w \in docs
  BY <1>2
<1>6. IsFiniteSet(docs)
  BY <1>3, <1>4, FS_Subset
<1> HIDE DEF docs
<1>7. f \in Surjection(docs, S)
  BY DEF Surjection
<1>8. IsFiniteSet(S)
  BY <1>6, <1>7, FS_Surjection
<1>9. S \subseteq [id : Works, rrf : Nat]
  BY <1>4
<1>10. \A x \in S : x.rrf \in Nat /\ x.id \in Nat /\ x.id \in Works /\ Visible(d, owner, x.id)
  BY <1>3, <1>4
<1>11. \A x, y \in S : x.id = y.id => x = y
  <2> DEFINE doc(w) == [id |-> w, rrf |-> fused[w]]
  <2>1. \A x \in S : x = doc(x.id)
    OBVIOUS
  <2> HIDE DEF S, doc
  <2> QED
    BY <2>1
<1>12. \A w \in docs : \E x \in S : x.id = w
  <2>1. \A w \in docs : f[w] \in S /\ f[w].id = w
    OBVIOUS
  <2> HIDE DEF S, f
  <2> QED
    BY <2>1
<1> HIDE DEF S
<1>13. Enumerates(q, S)
  BY <1>8, <1>10, <1>11, RanksEnumerated
<1>14. /\ q \in Seq(S) /\ Len(q) = Cardinality(S) /\ Cardinality(S) \in Nat
       /\ DOMAIN q = 1 .. Cardinality(S)
       /\ \A m, n \in DOMAIN q : q[m] = q[n] => m = n
       /\ \A x \in S : \E n \in DOMAIN q : q[n] = x
  BY <1>13 DEF Enumerates
<1> HIDE DEF q
<1> DEFINE k == Least(RetrievalLimit, Len(q))
<1>15. /\ top \in Seq(S) /\ DOMAIN top = 1 .. k /\ k \in Nat /\ k <= RetrievalLimit /\ k <= Len(q)
       /\ (RetrievalLimit < Len(q) => k = RetrievalLimit)
       /\ (RetrievalLimit >= Len(q) => k = Len(q))
       /\ \A i \in 1 .. k : top[i] = q[i] /\ i \in DOMAIN q
  BY <1>3, <1>14, FirstOf
<1> HIDE DEF top, k
<1>16. C \subseteq S
  BY <1>15 DEF ToSet
<1>17. IsFiniteSet(C)
  BY <1>8, <1>16, FS_Subset
<1>18. ASSUME RetrievalLimit < Len(q)  PROVE Cardinality(C) >= RetrievalLimit
  <2> DEFINE g == [i \in 1 .. RetrievalLimit |-> top[i]]
  <2>1. \A i \in 1 .. RetrievalLimit : top[i] \in C /\ top[i] = q[i] /\ i \in DOMAIN q
    BY <1>15, <1>18 DEF ToSet
  <2>2. g \in [1 .. RetrievalLimit -> C] /\ \A i, j \in 1 .. RetrievalLimit : g[i] = g[j] => i = j
    BY <1>14, <2>1
  <2>3. g \in Injection(1 .. RetrievalLimit, C)
    BY <2>2 DEF Injection, IsInjective
  <2>4. IsFiniteSet(1 .. RetrievalLimit) /\ Cardinality(1 .. RetrievalLimit) = RetrievalLimit
    BY <1>3, SpanFinite
  <2> HIDE DEF g, C
  <2>5. Cardinality(1 .. RetrievalLimit) <= Cardinality(C) /\ Cardinality(C) \in Nat
    BY <1>17, <2>3, <2>4, FS_Injection, FS_CardinalityType
  <2> QED
    BY <1>3, <2>4, <2>5
<1>19. ASSUME NEW w \in Works, Visible(d, owner, w), RetrievedBy(d, libs, w),
              ~ \E c \in C : c.id = w
       PROVE  Cardinality(C) >= RetrievalLimit
  <2>1. PICK x \in S : x.id = w
    BY <1>5, <1>12, <1>19
  <2>2. PICK n \in DOMAIN q : q[n] = x
    BY <1>14
  <2>3. n \notin 1 .. k
    BY <1>15, <1>19, <2>1, <2>2 DEF ToSet
  <2>4. RetrievalLimit < Len(q)
    BY <1>3, <1>14, <1>15, <2>2, <2>3
  <2> QED
    BY <1>18, <2>4
<1> HIDE DEF C
<1> QED
  BY <1>1, <1>9, <1>10, <1>11, <1>16, <1>17, <1>19 DEF AreCandidates

\* A row of the answer.
Hits == [id : Works, type : MediaTypes, score : Nat]

\* The rescored rows are the candidates', each once.
LEMMA RerankedRows ==
  ASSUME ReadSideAssumption, LibrarySearchAssumption, NEW d \in Tables, NEW owner, NEW libs, NEW C,
         AreCandidates(C, d, owner, libs)
  PROVE  /\ rerank(d, C) \in Seq(Hits) /\ Len(rerank(d, C)) = Cardinality(C)
         /\ \A m, n \in DOMAIN rerank(d, C) : rerank(d, C)[m].id = rerank(d, C)[n].id => m = n
         /\ \A n \in DOMAIN rerank(d, C) : \E c \in C : c.id = rerank(d, C)[n].id
         /\ \A c \in C : \E n \in DOMAIN rerank(d, C) : rerank(d, C)[n].id = c.id
<1> DEFINE hit(c) == [id |-> c.id, type |-> mediaTypeOf(d, c.id), score |-> Score(d, C, c)]
           S == {hit(c) : c \in C}
           f == [c \in C |-> hit(c)]
           q == ByScore(S)
<1>1. rerank(d, C) = q
  BY DEF rerank
<1>2. \A c \in C : c.id \in Works /\ c.id \in Nat /\ c.rrf \in Nat
  BY DEF AreCandidates, ReadSideAssumption
<1>3. ASSUME NEW c \in C  PROVE Score(d, C, c) \in Nat
  <2> DEFINE dated == {b \in C : d[b.id].added # Undated}
             older == {b \in dated : \/ d[b.id].added < d[c.id].added
                                     \/ d[b.id].added = d[c.id].added /\ (b.rrf < c.rrf
                                          \/ (b.rrf = c.rrf /\ b.id > c.id))}
             best == ByRank(C)[1].rrf
  <2>0. IsFiniteSet(C) /\ \A x, y \in C : x.id = y.id => x = y
    BY DEF AreCandidates
  <2>1. Recency(d, C, c) \in Nat
    <3>1. Recency(d, C, c) = IF c \notin dated THEN 0
            ELSE IF dated = {c} THEN Unity ELSE Share(Cardinality(older), Cardinality(dated) - 1)
      BY DEF Recency
    <3>2. dated \subseteq C /\ older \subseteq C
      OBVIOUS
    <3>3. IsFiniteSet(dated) /\ Cardinality(dated) \in Nat /\ Cardinality(older) \in Nat
      BY <2>0, <3>2, FS_Subset, FS_CardinalityType
    <3> HIDE DEF dated, older
    <3>4. CASE c \in dated /\ dated # {c}
      <4>1. PICK b \in dated : b # c
        BY <3>4
      <4>2. {b, c} \subseteq dated /\ Cardinality({b, c}) = 2
        <5>1. {b, c} = {b} \cup {c} /\ c \notin {b}
          BY <4>1
        <5>2. IsFiniteSet({b}) /\ Cardinality({b}) = 1
          BY FS_Singleton
        <5>3. Cardinality({b} \cup {c}) = Cardinality({b}) + 1
          <6> DEFINE B == {b}
          <6>1. IsFiniteSet(B) /\ c \notin B
            BY <5>1, <5>2
          <6> HIDE DEF B
          <6>2. Cardinality(B \cup {c}) = Cardinality(B) + 1
            BY <6>1, FS_AddElement
          <6> QED
            BY <6>2 DEF B
        <5> QED
          BY <3>4, <5>1, <5>2, <5>3
      <4>3. Cardinality(dated) >= 2
        BY <3>3, <4>2, FS_Subset
      <4>4. Cardinality(dated) - 1 \in Nat \ {0}
        BY <3>3, <4>3
      <4> QED
        BY <3>1, <3>3, <3>4, <4>4, Shares
    <3> QED
      BY <3>1, <3>4 DEF Unity
  <2>2. Resemblance[c.id] \in Nat
    BY <1>2 DEF LibrarySearchAssumption
  <2>3. best \in Nat
    <3>1. Enumerates(ByRank(C), C)
      BY <1>2, <2>0, RanksEnumerated
    <3>2. \E n \in DOMAIN ByRank(C) : ByRank(C)[n] = c
      BY <3>1 DEF Enumerates
    <3>3. ByRank(C) \in Seq(C)
      BY <3>1 DEF Enumerates
    <3>4. 1 \in DOMAIN ByRank(C)
      BY <3>2, <3>3
    <3>5. ByRank(C)[1] \in C
      BY <3>3, <3>4
    <3> QED
      BY <1>2, <3>5
  <2>4. Share(c.rrf, IF best = 0 THEN 1 ELSE best) \in Nat
    <3>1. PICK k : k = IF best = 0 THEN 1 ELSE best
      OBVIOUS
    <3>2. k \in Nat \ {0}
      BY <2>3, <3>1
    <3> QED
      BY <1>2, <3>1, <3>2, Shares
  <2> HIDE DEF best
  <2>5. Score(d, C, c) = 55 * Share(c.rrf, IF best = 0 THEN 1 ELSE best)
                           + 35 * Resemblance[c.id] + 10 * Recency(d, C, c)
    BY DEF Score, best
  <2> QED
    BY <2>1, <2>2, <2>4, <2>5
<1>4. ASSUME NEW c \in C  PROVE hit(c) \in Hits /\ hit(c).id = c.id
  <2>1. mediaTypeOf(d, c.id) \in MediaTypes
    BY <1>2, TypeOfWork
  <2> QED
    BY <1>2, <1>3, <2>1 DEF Hits
<1>5. \A b, c \in C : b.id = c.id => b = c
  BY DEF AreCandidates
<1> HIDE DEF hit
<1>6. f \in [C -> S] /\ \A x \in S : \E c \in C : f[c] = x
  OBVIOUS
<1>7. \A b, c \in C : f[b] = f[c] => b = c
  <2>1. \A c \in C : f[c] = hit(c) /\ hit(c).id = c.id
    BY <1>4
  <2> HIDE DEF f
  <2>2. \A b, c \in C : f[b] = f[c] => b.id = c.id
    BY <2>1
  <2> QED
    BY <1>5, <2>2
<1>8. f \in Bijection(C, S)
  BY <1>6, <1>7 DEF Bijection, Injection, IsInjective, Surjection
<1>9. IsFiniteSet(C)
  BY DEF AreCandidates
<1>10. IsFiniteSet(S) /\ Cardinality(S) = Cardinality(C)
  BY <1>8, <1>9, FS_Bijection DEF ExistsBijection
<1>11. S \subseteq Hits /\ \A x \in S : \E c \in C : x = hit(c) /\ x.id = c.id
  BY <1>4
<1>12. \A c \in C : hit(c) \in S /\ hit(c).id = c.id
  BY <1>4
<1>13. \A x \in S : x.score \in Nat /\ x.id \in Nat
  BY <1>2, <1>11 DEF Hits
<1>14. \A x, y \in S : x.id = y.id => x = y
  BY <1>5, <1>11
<1> HIDE DEF S, f
<1>15. Enumerates(q, S)
  BY <1>10, <1>13, <1>14, ScoresEnumerated
<1> HIDE DEF q
<1>16. /\ q \in Seq(S) /\ Len(q) = Cardinality(S)
       /\ \A m, n \in DOMAIN q : q[m] = q[n] => m = n
       /\ \A x \in S : \E n \in DOMAIN q : q[n] = x
       /\ \A n \in DOMAIN q : q[n] \in S
  BY <1>15 DEF Enumerates
<1>17. q \in Seq(Hits)
  BY <1>11, <1>16
<1>18. \A m, n \in DOMAIN q : q[m].id = q[n].id => m = n
  BY <1>14, <1>16
<1>19. \A n \in DOMAIN q : \E c \in C : c.id = q[n].id
  BY <1>11, <1>16
<1>20. \A c \in C : \E n \in DOMAIN q : q[n].id = c.id
  BY <1>12, <1>16
<1> QED
  BY <1>1, <1>10, <1>16, <1>17, <1>18, <1>19, <1>20
------------------------------------------------------------------------------
(* The search: diversifying.                                                 *)

\* The entries of a sequence at some of its places, in their order, and their media types.
Picks(hits, ns) == [n \in 1 .. Cardinality(ns) |-> hits[Ascending(ns)[n]]]

TypesAt(hits, ns) == {hits[i].type : i \in ns}

\* Picking takes every place once.
LEMMA Picked ==
  ASSUME NEW hits \in Seq(Hits), NEW ns \in SUBSET DOMAIN hits
  PROVE  /\ IsFiniteSet(ns) /\ Cardinality(ns) \in Nat
         /\ Picks(hits, ns) \in Seq(Hits) /\ Len(Picks(hits, ns)) = Cardinality(ns)
         /\ DOMAIN Picks(hits, ns) = 1 .. Cardinality(ns)
         /\ \A n \in 1 .. Cardinality(ns) : Picks(hits, ns)[n] = hits[Ascending(ns)[n]]
         /\ \A n \in 1 .. Cardinality(ns) : Ascending(ns)[n] \in ns
         /\ \A m, n \in 1 .. Cardinality(ns) : Ascending(ns)[m] = Ascending(ns)[n] => m = n
         /\ \A i \in ns : \E n \in 1 .. Cardinality(ns) : Ascending(ns)[n] = i
<1> DEFINE q == Ascending(ns)
           p == Picks(hits, ns)
<1>1. DOMAIN hits = 1 .. Len(hits) /\ Len(hits) \in Nat /\ \A i \in DOMAIN hits : hits[i] \in Hits
  OBVIOUS
<1>2. IsFiniteSet(DOMAIN hits)
  BY <1>1, SpanFinite
<1>3. IsFiniteSet(ns) /\ ns \subseteq Nat
  BY <1>1, <1>2, FS_Subset
<1>4. Enumerates(q, ns)
  BY <1>3, PlacesEnumerated
<1> HIDE DEF q
<1>5. /\ DOMAIN q = 1 .. Cardinality(ns) /\ Cardinality(ns) \in Nat
      /\ \A n \in 1 .. Cardinality(ns) : q[n] \in ns
      /\ \A m, n \in 1 .. Cardinality(ns) : q[m] = q[n] => m = n
      /\ \A i \in ns : \E n \in 1 .. Cardinality(ns) : q[n] = i
  <2>1. /\ q \in Seq(ns) /\ DOMAIN q = 1 .. Cardinality(ns) /\ Cardinality(ns) \in Nat
        /\ \A m, n \in DOMAIN q : q[m] = q[n] => m = n
        /\ \A i \in ns : \E n \in DOMAIN q : q[n] = i
    BY <1>4 DEF Enumerates
  <2>2. \A n \in DOMAIN q : q[n] \in ns
    BY <2>1
  <2> QED
    BY <2>1, <2>2
<1>6. p = [n \in 1 .. Cardinality(ns) |-> hits[q[n]]]
  BY DEF Picks, q
<1> HIDE DEF p
<1>7. p \in [1 .. Cardinality(ns) -> Hits]
  <2>1. \A n \in 1 .. Cardinality(ns) : hits[q[n]] \in Hits
    BY <1>1, <1>5
  <2> QED
    BY <1>6, <2>1
<1>8. p \in Seq(Hits) /\ Len(p) = Cardinality(ns) /\ DOMAIN p = 1 .. Cardinality(ns)
  BY <1>5, <1>7, IsASeq, LenProperties
<1>9. \A n \in 1 .. Cardinality(ns) : p[n] = hits[q[n]]
  BY <1>6
<1> QED
  BY <1>3, <1>5, <1>8, <1>9 DEF p, q

\* Places have at most as many media types as there are places, and as many if no two share one.
LEMMA TypesCounted ==
  ASSUME NEW hits, NEW ns, IsFiniteSet(ns)
  PROVE  /\ IsFiniteSet(TypesAt(hits, ns)) /\ Cardinality(TypesAt(hits, ns)) \in Nat
         /\ Cardinality(ns) \in Nat
         /\ Cardinality(TypesAt(hits, ns)) <= Cardinality(ns)
         /\ (\A m, n \in ns : hits[m].type = hits[n].type => m = n) =>
              Cardinality(TypesAt(hits, ns)) = Cardinality(ns)
<1> DEFINE T == TypesAt(hits, ns)
           f == [n \in ns |-> hits[n].type]
<1>1. f \in [ns -> T] /\ \A t \in T : \E n \in ns : f[n] = t
  BY DEF TypesAt
<1>2. (\A m, n \in ns : hits[m].type = hits[n].type => m = n) => \A m, n \in ns : f[m] = f[n] => m = n
  OBVIOUS
<1> HIDE DEF f, T
<1>3. f \in Surjection(ns, T)
  BY <1>1 DEF Surjection
<1>4. IsFiniteSet(T) /\ Cardinality(T) <= Cardinality(ns)
  BY <1>3, FS_Surjection
<1>5. ASSUME \A m, n \in ns : hits[m].type = hits[n].type => m = n
      PROVE  Cardinality(T) = Cardinality(ns)
  <2>1. f \in Injection(ns, T)
    BY <1>1, <1>2, <1>5 DEF Injection, IsInjective
  <2> QED
    BY <1>3, <2>1, FS_Surjection
<1>6. Cardinality(T) \in Nat /\ Cardinality(ns) \in Nat
  BY <1>4, FS_CardinalityType
<1> QED
  BY <1>4, <1>5, <1>6 DEF T

\* Every media type that the window misses has its best row among those that are promoted.
LEMMA PromotedTypes ==
  ASSUME LibrarySearchAssumption, NEW hits \in Seq(Hits)
  PROVE  /\ Promoted(hits) \subseteq DOMAIN hits
         /\ \A n \in Promoted(hits) : n > Window
         /\ \A m, n \in Promoted(hits) : hits[m].type = hits[n].type => m = n
         /\ \A n \in Promoted(hits), m \in 1 .. Window : m \in DOMAIN hits => hits[m].type # hits[n].type
         /\ \A n \in DOMAIN hits :
              \/ \E m \in DOMAIN hits : m \in 1 .. Window /\ hits[m].type = hits[n].type
              \/ \E m \in Promoted(hits) : hits[m].type = hits[n].type
<1>1. DOMAIN hits = 1 .. Len(hits) /\ Len(hits) \in Nat /\ Window \in Nat
  BY DEF LibrarySearchAssumption
<1>2. \A n \in Promoted(hits) : /\ n \in Nat /\ n > Window /\ n <= Len(hits)
                                /\ \A m \in 1 .. (n - 1) : hits[m].type # hits[n].type
  BY <1>1 DEF Promoted
<1>3. Promoted(hits) \subseteq DOMAIN hits
  BY <1>1, <1>2
<1>4. ASSUME NEW m \in Promoted(hits), NEW n \in Promoted(hits), m < n
      PROVE  hits[m].type # hits[n].type
  <2>1. m \in 1 .. (n - 1)
    BY <1>1, <1>2, <1>4
  <2> QED
    BY <1>2, <2>1
<1>5. \A m, n \in Promoted(hits) : hits[m].type = hits[n].type => m = n
  BY <1>2, <1>4
<1>6. ASSUME NEW n \in Promoted(hits), NEW m \in 1 .. Window  PROVE hits[m].type # hits[n].type
  <2>1. m \in 1 .. (n - 1)
    BY <1>1, <1>2
  <2> QED
    BY <1>2, <2>1
<1>7. ASSUME NEW n \in DOMAIN hits
      PROVE  \/ \E m \in DOMAIN hits : m \in 1 .. Window /\ hits[m].type = hits[n].type
             \/ \E m \in Promoted(hits) : hits[m].type = hits[n].type
  <2> DEFINE same == {m \in DOMAIN hits : hits[m].type = hits[n].type}
  <2>1. same \in SUBSET Nat /\ same # {}
    BY <1>1
  <2>2. PICK k \in same : \A m \in same : k <= m
    BY <2>1, LeastOne
  <2>3. k \in 1 .. Len(hits) /\ hits[k].type = hits[n].type
    BY <1>1
  <2>4. CASE k <= Window
    BY <1>1, <2>3, <2>4
  <2>5. CASE k > Window
    <3>1. \A m \in 1 .. (k - 1) : m \in DOMAIN hits /\ ~ (k <= m)
      BY <1>1, <2>3
    <3>2. \A m \in 1 .. (k - 1) : hits[m].type # hits[k].type
      BY <2>2, <2>3, <3>1
    <3>3. k \in Promoted(hits)
      BY <1>1, <2>3, <2>5, <3>2 DEF Promoted
    <3> QED
      BY <2>3, <3>3
  <2> QED
    BY <1>1, <2>3, <2>4, <2>5
<1> QED
  BY <1>2, <1>3, <1>5, <1>6, <1>7

\* What is said of a list and what diversifying makes of it.
IsDiversified(all, hits) ==
  /\ all \in Seq(Hits) /\ ToSet(all) = ToSet(hits) /\ Len(all) = Len(hits)
  /\ Cardinality(TypesIn(First(Window, all))) >= Cardinality(TypesIn(First(Window, hits)))
  /\ \A t \in TypesIn(all) \ TypesIn(First(Window, hits)) :
       Cardinality(TypesIn(all) \ TypesIn(First(Window, hits))) <= Window =>
         t \in TypesIn(First(Window, all))

\* The media types of the first entries.
LEMMA WindowTypes ==
  ASSUME LibrarySearchAssumption, NEW hits \in Seq(Hits)
  PROVE  /\ Len(hits) > Window => TypesIn(First(Window, hits)) = TypesAt(hits, 1 .. Window)
         /\ Len(hits) <= Window => TypesIn(First(Window, hits)) = TypesIn(hits)
         /\ TypesIn(hits) = TypesAt(hits, DOMAIN hits)
         /\ IsFiniteSet(TypesIn(First(Window, hits)))
         /\ Cardinality(TypesIn(First(Window, hits))) \in Nat
<1> DEFINE k == Least(Window, Len(hits))
           q == First(Window, hits)
<1>1. Window \in Nat
  BY DEF LibrarySearchAssumption
<1>2. /\ k \in Nat /\ (Window < Len(hits) => k = Window) /\ (Window >= Len(hits) => k = Len(hits))
      /\ DOMAIN q = 1 .. k /\ DOMAIN hits = 1 .. Len(hits) /\ Len(hits) \in Nat
      /\ \A i \in 1 .. k : q[i] = hits[i] /\ i \in DOMAIN hits
  BY <1>1, FirstOf
<1> HIDE DEF k, q
<1>3. TypesIn(q) = TypesAt(hits, 1 .. k)
  BY <1>2 DEF TypesIn, TypesAt
<1>4. TypesIn(hits) = TypesAt(hits, DOMAIN hits)
  BY DEF TypesIn, TypesAt
<1>5. IsFiniteSet(TypesAt(hits, 1 .. k)) /\ Cardinality(TypesAt(hits, 1 .. k)) \in Nat
  BY <1>2, SpanFinite, TypesCounted
<1>6. (Len(hits) > Window => k = Window) /\ (Len(hits) <= Window => k = Len(hits))
  BY <1>1, <1>2
<1>7. Len(hits) <= Window => TypesIn(q) = TypesIn(hits)
  BY <1>2, <1>3, <1>4, <1>6
<1>8. Len(hits) > Window => TypesIn(q) = TypesAt(hits, 1 .. Window)
  BY <1>3, <1>6
<1> QED
  BY <1>3, <1>4, <1>5, <1>7, <1>8 DEF q

\* Diversifying leaves a list alone that has nothing to promote.
LEMMA DiversifiedAsIs ==
  ASSUME LibrarySearchAssumption, NEW hits \in Seq(Hits),
         Len(hits) <= Window \/ Promoted(hits) = {}
  PROVE  IsDiversified(hits, hits)
<1>1. ASSUME NEW t \in TypesIn(hits)  PROVE t \in TypesIn(First(Window, hits))
  <2>1. CASE Len(hits) <= Window
    BY <1>1, <2>1, WindowTypes
  <2>2. CASE ~ (Len(hits) <= Window)
    <3>1. PICK n \in DOMAIN hits : hits[n].type = t
      BY <1>1 DEF TypesIn
    <3>2. PICK m \in 1 .. Window : hits[m].type = t
      BY <2>2, <3>1, PromotedTypes
    <3>3. Len(hits) > Window
      BY <2>2 DEF LibrarySearchAssumption
    <3>4. t \in TypesAt(hits, 1 .. Window)
      BY <3>2 DEF TypesAt
    <3> QED
      BY <3>3, <3>4, WindowTypes
  <2> QED
    BY <2>1, <2>2
<1>2. Cardinality(TypesIn(First(Window, hits))) >= Cardinality(TypesIn(First(Window, hits)))
  BY WindowTypes
<1> QED
  BY <1>1, <1>2 DEF IsDiversified

\* What is picked is what lies at the places.
LEMMA PickedSet ==
  ASSUME NEW hits \in Seq(Hits), NEW ns \in SUBSET DOMAIN hits
  PROVE  ToSet(Picks(hits, ns)) = {hits[i] : i \in ns}
<1> DEFINE p == Picks(hits, ns)
           q == Ascending(ns)
<1>1. /\ DOMAIN p = 1 .. Cardinality(ns)
      /\ \A n \in 1 .. Cardinality(ns) : p[n] = hits[q[n]] /\ q[n] \in ns
      /\ \A i \in ns : \E n \in 1 .. Cardinality(ns) : q[n] = i
  BY Picked
<1> HIDE DEF p, q
<1>2. ToSet(p) \subseteq {hits[i] : i \in ns}
  BY <1>1 DEF ToSet
<1>3. ASSUME NEW i \in ns  PROVE hits[i] \in ToSet(p)
  <2>1. PICK n \in 1 .. Cardinality(ns) : q[n] = i
    BY <1>1
  <2>2. p[n] = hits[i] /\ n \in DOMAIN p
    BY <1>1, <2>1
  <2> QED
    BY <2>2 DEF ToSet
<1> QED
  BY <1>2, <1>3 DEF p

\* Promoting moves rows to the edge of the window and drops none.
LEMMA DiversifiedMoved ==
  ASSUME LibrarySearchAssumption, NEW hits \in Seq(Hits),
         Len(hits) > Window, Promoted(hits) # {}
  PROVE  IsDiversified(diversify(hits), hits)
<1> DEFINE L == Len(hits)
           P == Promoted(hits)
           c == Cardinality(P)
           up == Least(Window, c)
           head == Window - up
           front == 1 .. head
           rest == ((head + 1) .. L) \ P
           A == Picks(hits, front)
           B == Picks(hits, P)
           D == Picks(hits, rest)
           all == A \o B \o D
           q == Ascending(P)
           moved == {q[n] : n \in 1 .. up}
<1>1. diversify(hits) = all
  <2>1. ~ (L <= Window \/ P = {})
    BY DEF LibrarySearchAssumption
  <2> QED
    BY <2>1 DEF diversify, Picks
<1>2. Window \in Nat /\ L \in Nat /\ Window < L /\ DOMAIN hits = 1 .. L
  BY DEF LibrarySearchAssumption
<1>3. /\ P \in SUBSET DOMAIN hits /\ \A n \in P : n > Window
      /\ \A m, n \in P : hits[m].type = hits[n].type => m = n
      /\ \A n \in P, m \in 1 .. Window : hits[m].type # hits[n].type
  BY <1>2, PromotedTypes
<1>4. \A t \in TypesIn(hits) : t \in TypesAt(hits, 1 .. Window) \/ t \in TypesAt(hits, P)
  <2>1. SUFFICES ASSUME NEW n \in DOMAIN hits
                 PROVE  hits[n].type \in TypesAt(hits, 1 .. Window) \/ hits[n].type \in TypesAt(hits, P)
    BY DEF TypesIn
  <2>2. \/ \E m \in DOMAIN hits : m \in 1 .. Window /\ hits[m].type = hits[n].type
        \/ \E m \in P : hits[m].type = hits[n].type
    BY PromotedTypes
  <2> HIDE DEF P
  <2> QED
    BY <2>2 DEF TypesAt
<1> HIDE DEF P, L
<1>5. /\ IsFiniteSet(P) /\ c \in Nat /\ B \in Seq(Hits) /\ Len(B) = c
      /\ \A n \in 1 .. c : B[n] = hits[q[n]] /\ q[n] \in P
      /\ \A m, n \in 1 .. c : q[m] = q[n] => m = n
      /\ \A i \in P : \E n \in 1 .. c : q[n] = i
  BY <1>3, Picked
<1>6. ToSet(B) = {hits[i] : i \in P}
  BY <1>3, PickedSet
<1> HIDE DEF B, q, c
<1>7. /\ up \in Nat /\ up <= Window /\ up <= c /\ (c <= Window => up = c)
      /\ head \in Nat /\ head <= Window /\ head + up = Window
  BY <1>2, <1>5 DEF Least
<1> HIDE DEF up, head
<1>8. front \in SUBSET DOMAIN hits /\ rest \in SUBSET DOMAIN hits
  BY <1>2, <1>7
<1>9. Cardinality(front) = head /\ IsFiniteSet(front)
  BY <1>7, SpanFinite
<1>10. A \in Seq(Hits) /\ Len(A) = head /\ ToSet(A) = {hits[i] : i \in front}
  BY <1>8, <1>9, Picked, PickedSet
<1>11. D \in Seq(Hits) /\ Len(D) = Cardinality(rest) /\ ToSet(D) = {hits[i] : i \in rest}
  BY <1>8, Picked, PickedSet
<1>12. Cardinality(rest) = L - head - c
  <2> DEFINE tail == (head + 1) .. L
  <2>1. IsFiniteSet(tail) /\ Cardinality(tail) = L - head
    BY <1>2, <1>7, SpanFinite
  <2>2. tail \cap P = P
    BY <1>2, <1>3, <1>7
  <2> HIDE DEF tail
  <2>3. Cardinality(tail \ P) = Cardinality(tail) - Cardinality(tail \cap P)
    BY <2>1, FS_Difference
  <2>4. Cardinality(tail \ P) = Cardinality(tail) - c
    BY <2>2, <2>3 DEF c
  <2> QED
    BY <2>1, <2>4 DEF tail
<1>13. front \cup P \cup rest = 1 .. L
  BY <1>2, <1>3, <1>7
<1> HIDE DEF A, D
<1>14. ToSet(A) \cup ToSet(B) \cup ToSet(D) = {hits[i] : i \in 1 .. L}
  BY <1>6, <1>10, <1>11, <1>13
<1>15. /\ A \o B \in Seq(Hits) /\ Len(A \o B) = head + c
       /\ \A i \in 1 .. head : (A \o B)[i] = A[i]
       /\ \A i \in 1 .. c : (A \o B)[head + i] = B[i]
       /\ ToSet(A \o B) = ToSet(A) \cup ToSet(B)
  BY <1>5, <1>10, BothParts
<1> DEFINE AB == A \o B
<1> HIDE DEF AB, all
<1>16. /\ all \in Seq(Hits) /\ Len(all) = L
       /\ \A i \in 1 .. head : all[i] = A[i]
       /\ \A i \in 1 .. c : all[head + i] = B[i]
       /\ ToSet(all) = ToSet(hits)
  <2>1. /\ all \in Seq(Hits) /\ Len(all) = Len(AB) + Len(D)
        /\ \A i \in 1 .. Len(AB) : all[i] = AB[i]
        /\ ToSet(all) = ToSet(AB) \cup ToSet(D)
    <3>1. AB \in Seq(Hits)
      BY <1>15 DEF AB
    <3>2. D \in Seq(Hits)
      BY <1>11
    <3>3. all = AB \o D
      BY DEF all, AB
    <3> QED
      BY <3>1, <3>2, <3>3, BothParts
  <2>2. /\ AB \in Seq(Hits) /\ Len(AB) = head + c
        /\ \A i \in 1 .. head : AB[i] = A[i]
        /\ \A i \in 1 .. c : AB[head + i] = B[i]
        /\ ToSet(AB) = ToSet(A) \cup ToSet(B)
    BY <1>15 DEF AB
  <2>3. Len(all) = L
    BY <1>2, <1>5, <1>7, <1>11, <1>12, <2>1, <2>2
  <2>4. ToSet(all) = ToSet(hits)
    BY <1>2, <1>14, <2>1, <2>2 DEF ToSet
  <2>5. \A i \in 1 .. head : i \in 1 .. (head + c)
    BY <1>5, <1>7
  <2>6. \A i \in 1 .. c : head + i \in 1 .. (head + c)
    BY <1>5, <1>7
  <2> QED
    BY <2>1, <2>2, <2>3, <2>4, <2>5, <2>6
<1>17. TypesIn(all) = TypesIn(hits)
  <2>1. \A s : TypesIn(s) = {x.type : x \in ToSet(s)}
    BY DEF TypesIn, ToSet
  <2> QED
    BY <1>16, <2>1
<1>18. Picks(hits, front) = A /\ \A i \in front : \E n \in 1 .. head : A[n] = hits[i]
  <2>1. \A i \in front : hits[i] \in ToSet(A)
    BY <1>10
  <2>2. DOMAIN A = 1 .. head
    BY <1>10
  <2> QED
    BY <2>1, <2>2 DEF A, ToSet
<1>19. TypesAt(hits, front) \subseteq TypesAt(all, 1 .. Window)
  <2>1. ASSUME NEW i \in front  PROVE hits[i].type \in TypesAt(all, 1 .. Window)
    <3>1. PICK n \in 1 .. head : A[n] = hits[i]
      BY <1>18
    <3>2. all[n] = hits[i] /\ n \in 1 .. Window
      BY <1>2, <1>7, <1>16, <3>1
    <3> QED
      BY <3>2 DEF TypesAt
  <2> QED
    BY <2>1 DEF TypesAt
<1>20. TypesAt(hits, moved) \subseteq TypesAt(all, 1 .. Window)
  <2>1. ASSUME NEW n \in 1 .. up  PROVE hits[q[n]].type \in TypesAt(all, 1 .. Window)
    <3>1. n \in 1 .. c /\ head + n \in 1 .. Window
      BY <1>2, <1>5, <1>7
    <3>2. all[head + n] = hits[q[n]]
      BY <1>5, <1>16, <3>1
    <3> QED
      BY <3>1, <3>2 DEF TypesAt
  <2> QED
    BY <2>1 DEF TypesAt
<1>21. TypesIn(First(Window, all)) = TypesAt(all, 1 .. Window)
  BY <1>2, <1>16, WindowTypes
<1>22. TypesIn(First(Window, hits)) = TypesAt(hits, 1 .. Window)
  BY <1>2, WindowTypes DEF L
<1>23. moved \subseteq P /\ \A i \in 1 .. up : i \in 1 .. c
  BY <1>5, <1>7
<1>24. IsFiniteSet(moved) /\ Cardinality(moved) = up
  <2> DEFINE f == [n \in 1 .. up |-> q[n]]
  <2>1. f \in Bijection(1 .. up, moved)
    BY <1>5, <1>23 DEF Bijection, Injection, Surjection, IsInjective
  <2>2. IsFiniteSet(1 .. up) /\ Cardinality(1 .. up) = up
    BY <1>7, SpanFinite
  <2> HIDE DEF f, moved
  <2> QED
    BY <2>1, <2>2, FS_Bijection DEF ExistsBijection
<1>25. c <= Window => moved = P
  <2>1. SUFFICES ASSUME c <= Window  PROVE moved = P
    OBVIOUS
  <2>2. up = c
    BY <1>7, <2>1
  <2>3. \A i \in P : \E n \in 1 .. up : q[n] = i
    BY <1>5, <2>2
  <2>4. P \subseteq moved
    BY <2>3
  <2> QED
    BY <1>23, <2>4
<1> HIDE DEF moved, front
<1>26. Cardinality(TypesAt(all, 1 .. Window)) >= Cardinality(TypesAt(hits, 1 .. Window))
  <2> DEFINE spared == TypesAt(hits, front)
             brought == TypesAt(hits, moved)
             edge == TypesAt(hits, (head + 1) .. Window)
             shown == TypesAt(all, 1 .. Window)
  <2>1. /\ IsFiniteSet(brought) /\ Cardinality(brought) = up
    <3>1. \A m, n \in moved : hits[m].type = hits[n].type => m = n
      BY <1>3, <1>23
    <3> QED
      BY <1>24, <3>1, TypesCounted
  <2>2. IsFiniteSet(spared) /\ Cardinality(spared) \in Nat
    BY <1>9, TypesCounted
  <2>3. /\ IsFiniteSet(edge) /\ Cardinality(edge) \in Nat /\ Cardinality(edge) <= up
    <3>1. IsFiniteSet((head + 1) .. Window) /\ Cardinality((head + 1) .. Window) = Window - head
      BY <1>2, <1>7, SpanFinite
    <3>2. Window - head = up
      BY <1>2, <1>7
    <3> QED
      BY <3>1, <3>2, TypesCounted
  <2>4. TypesAt(hits, 1 .. Window) = spared \cup edge
    <3>1. 1 .. Window = front \cup ((head + 1) .. Window)
      BY <1>2, <1>7 DEF front
    <3> QED
      BY <3>1 DEF TypesAt
  <2>5. spared \cap brought = {}
    <3>1. \A m \in front, n \in moved : hits[m].type # hits[n].type
      BY <1>2, <1>3, <1>7, <1>23 DEF front
    <3> QED
      BY <3>1 DEF TypesAt
  <2>6. spared \cup brought \subseteq shown
    BY <1>19, <1>20
  <2>7. IsFiniteSet(shown) /\ Cardinality(shown) \in Nat
    BY <1>2, SpanFinite, TypesCounted
  <2> HIDE DEF spared, brought, edge, shown
  <2>8. Cardinality(spared \cup brought) = Cardinality(spared) + up
    <3>1. Cardinality(spared \cap brought) = 0
      BY <2>5, FS_EmptySet
    <3>2. Cardinality(spared \cup brought)
            = Cardinality(spared) + Cardinality(brought) - Cardinality(spared \cap brought)
      BY <2>1, <2>2, FS_Union
    <3> QED
      BY <1>7, <2>1, <2>2, <3>1, <3>2
  <2>9. Cardinality(spared \cup brought) <= Cardinality(shown)
    BY <2>6, <2>7, FS_Subset
  <2>10. Cardinality(spared \cup edge) <= Cardinality(spared) + up
    <3>1. /\ Cardinality(spared \cup edge)
              = Cardinality(spared) + Cardinality(edge) - Cardinality(spared \cap edge)
      BY <2>2, <2>3, FS_Union
    <3>2. IsFiniteSet(spared \cap edge)
      BY <2>2, FS_Subset
    <3>3. Cardinality(spared \cap edge) \in Nat
      BY <3>2, FS_CardinalityType
    <3> QED
      BY <1>7, <2>2, <2>3, <3>1, <3>3
  <2>11. IsFiniteSet(spared \cup edge)
    BY <2>2, <2>3, FS_Union
  <2>12. Cardinality(spared \cup edge) \in Nat
    BY <2>11, FS_CardinalityType
  <2>13. Cardinality(shown) >= Cardinality(spared \cup edge)
    BY <1>7, <2>2, <2>7, <2>8, <2>9, <2>10, <2>12
  <2> QED
    BY <2>4, <2>13 DEF shown
<1>27. ASSUME NEW t \in TypesIn(all) \ TypesIn(First(Window, hits)),
              Cardinality(TypesIn(all) \ TypesIn(First(Window, hits))) <= Window
       PROVE  t \in TypesIn(First(Window, all))
  <2> DEFINE missed == TypesIn(all) \ TypesIn(First(Window, hits))
  <2>1. missed = TypesAt(hits, P)
    <3>1. \A n \in P : hits[n].type \in TypesIn(hits) /\ hits[n].type \notin TypesAt(hits, 1 .. Window)
      BY <1>3 DEF TypesIn, TypesAt
    <3>2. TypesAt(hits, P) \subseteq TypesIn(hits) \ TypesAt(hits, 1 .. Window)
      BY <3>1 DEF TypesAt
    <3> QED
      BY <1>4, <1>17, <1>22, <3>2
  <2>2. Cardinality(TypesAt(hits, P)) = c
    BY <1>3, <1>5, TypesCounted DEF c
  <2>3. c <= Window
    BY <1>27, <2>1, <2>2
  <2>4. t \in TypesAt(hits, moved)
    BY <1>25, <1>27, <2>1, <2>3
  <2> QED
    BY <1>20, <1>21, <2>4
<1> QED
  BY <1>1, <1>16, <1>21, <1>22, <1>26, <1>27 DEF IsDiversified, L

\* Diversifying loses no row and no media type of the window.
LEMMA Diversified ==
  ASSUME LibrarySearchAssumption, NEW hits \in Seq(Hits)
  PROVE  IsDiversified(diversify(hits), hits)
<1>1. CASE Len(hits) <= Window \/ Promoted(hits) = {}
  <2>1. diversify(hits) = hits
    BY <1>1 DEF diversify
  <2> QED
    BY <1>1, <2>1, DiversifiedAsIs
<1>2. CASE ~ (Len(hits) <= Window \/ Promoted(hits) = {})
  <2>1. Len(hits) > Window
    BY <1>2 DEF LibrarySearchAssumption
  <2> QED
    BY <1>2, <2>1, DiversifiedMoved
<1> QED
  BY <1>1, <1>2
------------------------------------------------------------------------------
(* The search as it is served.                                               *)

\* What a search ranks.
IsRanked(ranked, owner) ==
  /\ ranked \in Seq(Hits)
  /\ \A n \in DOMAIN ranked : Visible(rows, owner, ranked[n].id)
  /\ \A m, n \in DOMAIN ranked : ranked[m].id = ranked[n].id => m = n
  /\ \A w \in Works, n \in DOMAIN Legs :
       /\ Visible(rows, owner, w) /\ rows[w].filed # {} /\ w \in ToSet(Legs[n])
       /\ ~ \E k \in DOMAIN ranked : ranked[k].id = w
       => Cardinality(AheadIn(n, w)) >= RetrievalLimit \/ Len(ranked) >= RetrievalLimit
  /\ IsDiversified(diversify(ranked), ranked)

\* The rows of distinct works show no work twice.
LEMMA ShownOnce ==
  ASSUME NEW ranked \in Seq(Hits), \A m, n \in DOMAIN ranked : ranked[m].id = ranked[n].id => m = n,
         NEW w
  PROVE  Times(ranked, w) <= 1
<1> DEFINE at == {n \in DOMAIN ranked : ranked[n].id = w}
<1>1. CASE at = {}
  <2>1. Cardinality(at) = 0
    BY <1>1, FS_EmptySet
  <2> QED
    BY <2>1 DEF Times
<1>2. CASE at # {}
  <2>1. PICK n : n \in at
    BY <1>2
  <2>2. at = {n}
    BY <2>1
  <2>3. Cardinality(at) = 1
    BY <2>2, FS_Singleton
  <2> QED
    BY <2>3 DEF Times
<1> QED
  BY <1>1, <1>2

\* The statements of a search rank it so.
LEMMA SearchRanked ==
  ASSUME ReadSideAssumption, LibrarySearchAssumption, rows \in Tables, NEW owner
  PROVE  IsRanked(rerank(rows, Candidates(rows, owner, LibraryIds \cup {Unfiled})), owner)
<1> DEFINE libs == LibraryIds \cup {Unfiled}
           C == Candidates(rows, owner, libs)
           ranked == rerank(rows, C)
<1>1. AreCandidates(C, rows, owner, libs)
  BY CandidatesFound
<1> HIDE DEF C
<1>2. /\ ranked \in Seq(Hits) /\ Len(ranked) = Cardinality(C)
      /\ \A m, n \in DOMAIN ranked : ranked[m].id = ranked[n].id => m = n
      /\ \A n \in DOMAIN ranked : \E c \in C : c.id = ranked[n].id
      /\ \A c \in C : \E n \in DOMAIN ranked : ranked[n].id = c.id
  BY <1>1, RerankedRows
<1> HIDE DEF ranked
<1>3. \A n \in DOMAIN ranked : Visible(rows, owner, ranked[n].id)
  BY <1>1, <1>2 DEF AreCandidates
<1>5. ASSUME NEW w \in Works, NEW n \in DOMAIN Legs,
             Visible(rows, owner, w), rows[w].filed # {}, w \in ToSet(Legs[n]),
             ~ \E k \in DOMAIN ranked : ranked[k].id = w
      PROVE  Cardinality(AheadIn(n, w)) >= RetrievalLimit \/ Len(ranked) >= RetrievalLimit
  <2>1. ~ \E c \in C : c.id = w
    <3>1. ASSUME NEW c \in C, c.id = w  PROVE FALSE
      BY <1>2, <1>5, <3>1
    <3> QED
      BY <3>1
  <2>2. CASE RetrievedBy(rows, libs, w)
    BY <1>1, <1>2, <1>5, <2>1, <2>2 DEF AreCandidates
  <2>3. CASE ~ RetrievedBy(rows, libs, w)
    <3>1. \A u \in Works : rows[u].filed \subseteq LibraryIds
      BY DEF Tables
    <3>2. InScope(rows, libs, w)
      BY <1>5, <3>1 DEF InScope
    <3>3. w \notin ToSet(Retrieved(rows, Legs[n], libs))
      BY <2>3 DEF RetrievedBy
    <3>4. Cardinality(LegAhead(rows, libs, Legs[n], w)) >= RetrievalLimit
      BY <1>5, <3>2, <3>3, LegMisses
    <3>5. LegAhead(rows, libs, Legs[n], w) \subseteq AheadIn(n, w)
      BY DEF LegAhead, AheadIn, InScope
    <3>6. AheadIn(n, w) \subseteq Works
      BY DEF AheadIn, LibrarySearchAssumption, ToSet
    <3>7. IsFiniteSet(AheadIn(n, w))
      BY <3>6, FS_Subset DEF ReadSideAssumption
    <3>8. Cardinality(LegAhead(rows, libs, Legs[n], w)) <= Cardinality(AheadIn(n, w))
      BY <3>5, <3>7, FS_Subset
    <3>9. /\ Cardinality(AheadIn(n, w)) \in Nat
          /\ Cardinality(LegAhead(rows, libs, Legs[n], w)) \in Nat
      BY <3>5, <3>7, FS_Subset, FS_CardinalityType
    <3>10. RetrievalLimit \in Nat
      BY DEF LibrarySearchAssumption
    <3> QED
      BY <3>4, <3>8, <3>9, <3>10
  <2> QED
    BY <2>2, <2>3
<1>6. IsDiversified(diversify(ranked), ranked)
  BY <1>2, Diversified
<1>7. IsRanked(ranked, owner)
  BY <1>2, <1>3, <1>5, <1>6 DEF IsRanked
<1> QED
  BY <1>7 DEF ranked, C

\* The same rows in another order are as distinct.
LEMMA DistinctStill ==
  ASSUME NEW s \in Seq(Hits), NEW t \in Seq(Hits), Len(s) = Len(t), ToSet(s) = ToSet(t),
         \A m, n \in DOMAIN s : s[m].id = s[n].id => m = n
  PROVE  \A m, n \in DOMAIN t : t[m].id = t[n].id => m = n
<1> DEFINE S == ToSet(s)
           D == 1 .. Len(s)
<1>1. /\ Len(s) \in Nat /\ DOMAIN s = D /\ DOMAIN t = D
      /\ \A x \in S : \E n \in D : s[n] = x
      /\ \A x \in S : \E n \in D : t[n] = x
      /\ s \in [D -> S] /\ t \in [D -> S]
  <2>1. /\ Len(s) \in Nat /\ DOMAIN s = D /\ DOMAIN t = D /\ S = ToSet(t)
        /\ s = [n \in D |-> s[n]] /\ t = [n \in D |-> t[n]]
    OBVIOUS
  <2>2. /\ \A n \in D : s[n] \in S /\ t[n] \in S
        /\ \A x \in S : \E n \in D : s[n] = x
        /\ \A x \in S : \E n \in D : t[n] = x
    BY <2>1 DEF ToSet
  <2> HIDE DEF S, D
  <2> QED
    BY <2>1, <2>2
<1>2. IsFiniteSet(D) /\ Cardinality(D) = Len(s)
  BY <1>1, SpanFinite
<1> HIDE DEF S, D
<1>3. s \in Surjection(D, S) /\ t \in Surjection(D, S)
  BY <1>1 DEF Surjection
<1>4. s \in Injection(D, S)
  BY <1>1 DEF Injection, IsInjective
<1>5. Cardinality(S) = Cardinality(D)
  BY <1>2, <1>3, <1>4, FS_Surjection
<1>6. t \in Injection(D, S)
  BY <1>2, <1>3, <1>5, FS_Surjection
<1>7. \A m, n \in D : t[m] = t[n] => m = n
  BY <1>1, <1>6 DEF Injection, IsInjective
<1>8. ASSUME NEW m \in D, NEW n \in D, t[m].id = t[n].id  PROVE m = n
  <2>1. t[m] \in S /\ t[n] \in S
    BY <1>1
  <2>2. PICK a \in D : s[a] = t[m]
    BY <1>1, <2>1
  <2>3. PICK b \in D : s[b] = t[n]
    BY <1>1, <2>1
  <2>4. a = b
    BY <1>1, <1>8, <2>2, <2>3
  <2> QED
    BY <1>7, <2>2, <2>3, <2>4
<1> QED
  BY <1>1, <1>8

\* Sequences are the same that are as long and have the same entries.
LEMMA SameSequence ==
  ASSUME NEW T, NEW s \in Seq(T), NEW t \in Seq(T), Len(s) = Len(t),
         \A i \in 1 .. Len(s) : s[i] = t[i]
  PROVE  s = t
OBVIOUS

\* What is cut off for the client's limit, as SearchExact asks of it.
IsServed(hits, ranked, owner, limit) ==
  /\ \A n \in DOMAIN hits : Visible(rows, owner, hits[n].id)
  /\ \A w \in Works : Times(hits, w) <= 1
  /\ \A w \in Works, n \in DOMAIN Legs :
       /\ Visible(rows, owner, w) /\ rows[w].filed # {}
       /\ w \in ToSet(Legs[n]) /\ ~ \E k \in DOMAIN hits : hits[k].id = w
       => \/ Cardinality(AheadIn(n, w)) >= RetrievalLimit
          \/ Len(hits) >= Least(limit, RetrievalLimit)
  /\ limit >= Window =>
       LET top == TypesIn(First(Window, hits))
           ranking == TypesIn(First(Window, ranked))
           missed == TypesIn(ranked) \ ranking
       IN  /\ Cardinality(top) >= Cardinality(ranking)
           /\ Cardinality(missed) <= Window => missed \subseteq top

\* The same rows have the same types.
LEMMA SameTypes ==
  ASSUME NEW s, NEW t, ToSet(s) = ToSet(t)  PROVE TypesIn(s) = TypesIn(t)
<1>1. \A q : TypesIn(q) = {x.type : x \in ToSet(q)}
  BY DEF TypesIn, ToSet
<1> QED
  BY <1>1

LEMMA SearchServed ==
  ASSUME LibrarySearchAssumption, NEW ranked, NEW owner, IsRanked(ranked, owner),
         NEW limit \in Nat \ {0}
  PROVE  IsServed(First(limit, diversify(ranked)), ranked, owner, limit)
<1> DEFINE all == diversify(ranked)
           hits == First(limit, all)
           L == Len(ranked)
           k == Least(limit, L)
<1>1. /\ ranked \in Seq(Hits) /\ all \in Seq(Hits) /\ ToSet(all) = ToSet(ranked) /\ Len(all) = L
      /\ IsDiversified(all, ranked)
  BY DEF IsRanked, IsDiversified
<1>2. \A m, n \in DOMAIN all : all[m].id = all[n].id => m = n
  BY <1>1, DistinctStill DEF IsRanked
<1> HIDE DEF all
<1>3. /\ hits \in Seq(Hits) /\ Len(hits) = k /\ DOMAIN hits = 1 .. k /\ DOMAIN all = 1 .. L
      /\ k \in Nat /\ L \in Nat /\ (limit < L => k = limit) /\ (limit >= L => k = L)
      /\ \A i \in 1 .. k : hits[i] = all[i] /\ i \in DOMAIN all
  <2>1. all \in Seq(Hits) /\ limit \in Nat /\ Len(all) = L
    BY <1>1
  <2>2. /\ hits \in Seq(Hits) /\ Len(hits) = Least(limit, Len(all))
        /\ Least(limit, Len(all)) \in Nat
        /\ (limit < Len(all) => Least(limit, Len(all)) = limit)
        /\ (limit >= Len(all) => Least(limit, Len(all)) = Len(all))
        /\ DOMAIN hits = 1 .. Least(limit, Len(all)) /\ DOMAIN all = 1 .. Len(all)
        /\ Len(all) \in Nat
        /\ \A i \in 1 .. Least(limit, Len(all)) : hits[i] = all[i] /\ i \in DOMAIN all
    BY <2>1, FirstOf, Zenon
  <2>3. Least(limit, Len(all)) = k
    BY <2>1
  <2> QED
    BY <2>1, <2>2, <2>3, Zenon
<1>4. DOMAIN ranked = 1 .. L
  BY <1>1
<1> HIDE DEF hits, L, k
<1>5. \A i \in DOMAIN all : \E n \in DOMAIN ranked : ranked[n] = all[i]
  BY <1>1 DEF ToSet
<1>6. \A n \in DOMAIN ranked : \E i \in DOMAIN all : all[i] = ranked[n]
  BY <1>1 DEF ToSet
<1>7. \A n \in DOMAIN hits : Visible(rows, owner, hits[n].id)
  BY <1>3, <1>5 DEF IsRanked
<1>8. \A w \in Works : Times(hits, w) <= 1
  BY <1>2, <1>3, ShownOnce
<1>9. ASSUME NEW w \in Works, NEW n \in DOMAIN Legs,
             Visible(rows, owner, w), rows[w].filed # {}, w \in ToSet(Legs[n]),
             ~ \E i \in DOMAIN hits : hits[i].id = w
      PROVE  \/ Cardinality(AheadIn(n, w)) >= RetrievalLimit
             \/ Len(hits) >= Least(limit, RetrievalLimit)
  <2>1. RetrievalLimit \in Nat
    BY DEF LibrarySearchAssumption
  <2>2. CASE \E i \in DOMAIN ranked : ranked[i].id = w
    <3>1. PICK i \in 1 .. L : all[i].id = w
      BY <1>3, <1>6, <2>2
    <3>2. i \notin 1 .. k
      BY <1>3, <1>9, <3>1
    <3>3. limit < L
      BY <1>3, <3>2
    <3> QED
      BY <1>3, <2>1, <3>3 DEF Least
  <2>3. CASE ~ \E i \in DOMAIN ranked : ranked[i].id = w
    <3>1. Cardinality(AheadIn(n, w)) >= RetrievalLimit \/ L >= RetrievalLimit
      BY <1>9, <2>3 DEF IsRanked, L
    <3> QED
      BY <1>3, <2>1, <3>1 DEF Least
  <2> QED
    BY <2>2, <2>3
<1>10. ASSUME limit >= Window
       PROVE  LET top == TypesIn(First(Window, hits))
                  ranking == TypesIn(First(Window, ranked))
                  missed == TypesIn(ranked) \ ranking
              IN  /\ Cardinality(top) >= Cardinality(ranking)
                  /\ Cardinality(missed) <= Window => missed \subseteq top
  <2>1. Window \in Nat \ {0}
    BY DEF LibrarySearchAssumption
  <2>2. First(Window, hits) = First(Window, all)
    <3>1. /\ First(Window, hits) \in Seq(Hits)
          /\ Len(First(Window, hits)) = Least(Window, k)
          /\ DOMAIN First(Window, hits) = 1 .. Least(Window, k)
          /\ \A i \in 1 .. Least(Window, k) : First(Window, hits)[i] = hits[i] /\ i \in DOMAIN hits
      <4>1. hits \in Seq(Hits) /\ Window \in Nat /\ Len(hits) = k
        BY <1>3, <2>1
      <4>2. /\ First(Window, hits) \in Seq(Hits)
            /\ Len(First(Window, hits)) = Least(Window, Len(hits))
            /\ DOMAIN First(Window, hits) = 1 .. Least(Window, Len(hits))
            /\ \A i \in 1 .. Least(Window, Len(hits)) :
                 First(Window, hits)[i] = hits[i] /\ i \in DOMAIN hits
        BY <4>1, FirstOf, Zenon
      <4>3. Least(Window, Len(hits)) = Least(Window, k)
        BY <4>1
      <4> QED
        BY <4>2, <4>3, Zenon
    <3>2. /\ First(Window, all) \in Seq(Hits)
          /\ Len(First(Window, all)) = Least(Window, L)
          /\ DOMAIN First(Window, all) = 1 .. Least(Window, L)
          /\ \A i \in 1 .. Least(Window, L) : First(Window, all)[i] = all[i]
      <4>1. all \in Seq(Hits) /\ Window \in Nat /\ Len(all) = L
        BY <1>1, <2>1
      <4>2. /\ First(Window, all) \in Seq(Hits)
            /\ Len(First(Window, all)) = Least(Window, Len(all))
            /\ DOMAIN First(Window, all) = 1 .. Least(Window, Len(all))
            /\ \A i \in 1 .. Least(Window, Len(all)) :
                 First(Window, all)[i] = all[i] /\ i \in DOMAIN all
        BY <4>1, FirstOf, Zenon
      <4>3. Least(Window, Len(all)) = Least(Window, L)
        BY <4>1
      <4> QED
        BY <4>2, <4>3, Zenon
    <3>3. Least(Window, k) = Least(Window, L)
      BY <1>3, <1>10, <2>1 DEF Least
    <3>4. \A i \in 1 .. Least(Window, L) : First(Window, hits)[i] = First(Window, all)[i]
      BY <1>3, <3>1, <3>2, <3>3
    <3> QED
      BY <3>1, <3>2, <3>3, <3>4, SameSequence
  <2>3. TypesIn(all) = TypesIn(ranked)
    BY <1>1, SameTypes
  <2> QED
    BY <1>1, <2>2, <2>3 DEF IsDiversified
<1> QED
  BY <1>7, <1>8, <1>9, <1>10 DEF IsServed, all, hits

\* A search asks in every library, Unfiled among them.
SearchInv ==
  /\ reader.at = "retrieve" =>
       reader.libs = LibraryIds \cup {Unfiled} /\ reader.limit \in SearchLimits
  /\ SearchExact

\* Every step keeps it: a search answers from one statement.
LEMMA SearchStep ==
  ASSUME ReadSideAssumption, LibrarySearchAssumption, WalkInv, SearchInv, [RSNext]_readVars
  PROVE  SearchInv'
<1> DEFINE Searching == {"retrieve", "found"}
<1>0. "at" \in DOMAIN reader /\ (reader.at \in Walking => reader \in Walks)
  BY DEF WalkInv
<1>1. ASSUME reader'.at \notin Searching  PROVE SearchInv'
  BY <1>1 DEF SearchInv, SearchExact
<1>2. CASE Import
  BY <1>2, WritesTouch DEF SearchInv, SearchExact, WalkInv
<1>3. ASSUME NEW from \in {"works", "recent"}, NEW q \in Asked(from), NEW tok \in {NoToken, token},
             AskPage(from, q, tok)
      PROVE  SearchInv'
  BY <1>1, <1>3 DEF AskPage, Refuse, Reading, Idle
<1>4. ASSUME reader.at \in Walking, NEW page, Answered(reader, page)  PROVE reader'.at \notin Searching
  BY <1>0, <1>4 DEF Answered, Reading, Walks
<1>5. CASE ReadPage
  <2>1. reader.at \in Walking
    BY <1>5 DEF ReadPage, Walking
  <2>2. CASE NeedsTail(reader.q, reader.cur,
                       browseWorksPage(rows, reader.q, reader.cur, BrowseLimit + 1))
    BY <1>0, <1>1, <1>5, <2>1, <2>2 DEF ReadPage, Reading, Walks
  <2>3. CASE ~ NeedsTail(reader.q, reader.cur,
                         browseWorksPage(rows, reader.q, reader.cur, BrowseLimit + 1))
    BY <1>1, <1>4, <1>5, <2>1, <2>3 DEF ReadPage
  <2> QED
    BY <2>2, <2>3
<1>6. CASE ReadTail
  BY <1>1, <1>4, <1>6 DEF ReadTail, Walking
<1>7. ASSUME NEW owner \in BOOLEAN, CountKinds(owner)  PROVE SearchInv'
  BY <1>1, <1>7 DEF CountKinds, Begin, Reading
<1>8. ASSUME NEW owner \in BOOLEAN, ListLibraries(owner)  PROVE SearchInv'
  BY <1>1, <1>8 DEF ListLibraries, Begin, Reading
<1>9. ASSUME NEW owner \in BOOLEAN, NEW limit \in SearchLimits, ReadSearchable(owner, limit)
      PROVE  SearchInv'
  BY <1>9 DEF ReadSearchable, Begin, Reading, SearchInv, SearchExact
<1>10. CASE CountAudiobooks
  BY <1>1, <1>10 DEF CountAudiobooks, Reading
<1>11. CASE AttachSources \/ AttachCompleteness \/ AttachSkips
  BY <1>0, <1>1, <1>11 DEF AttachSources, AttachCompleteness, AttachSkips, Reading
<1>12. CASE Retrieve
  <2> DEFINE ranked == rerank(rows, Candidates(rows, reader.owner, reader.libs))
  <2>1. /\ reader.at = "retrieve" /\ rows' = rows
        /\ reader' = [at |-> "found", owner |-> reader.owner, limit |-> reader.limit,
                      ranked |-> ranked, hits |-> First(reader.limit, diversify(ranked))]
    BY <1>12 DEF Retrieve, Reading, table
  <2>2. /\ reader.libs = LibraryIds \cup {Unfiled} /\ rows \in Tables
        /\ reader.limit \in Nat \ {0}
    BY <2>1 DEF SearchInv, WalkInv, ReadSideAssumption
  <2>3. IsRanked(ranked, reader.owner)
    BY <2>2, SearchRanked
  <2> HIDE DEF ranked
  <2>4. PICK hits : hits = First(reader.limit, diversify(ranked))
    OBVIOUS
  <2>5. IsServed(hits, ranked, reader.owner, reader.limit)
    BY <2>2, <2>3, <2>4, SearchServed
  <2>6. /\ reader'.at = "found" /\ reader'.owner = reader.owner /\ reader'.limit = reader.limit
        /\ reader'.ranked = ranked /\ reader'.hits = hits
    BY <2>1, <2>4
  <2>7. SearchExact'
    <3>1. \A n, w : AheadIn(n, w)' = AheadIn(n, w)
      BY <2>1 DEF AheadIn
    <3>2. \A w : Returned(w)' <=> \E k \in DOMAIN hits : hits[k].id = w
      BY <2>6 DEF Returned
    <3> QED
      BY <2>1, <2>5, <2>6, <3>1, <3>2 DEF SearchExact, IsServed
  <2> QED
    BY <2>6, <2>7 DEF SearchInv
<1>13. CASE Leave
  BY <1>1, <1>13 DEF Leave, Reading, Idle
<1>14. CASE UNCHANGED readVars
  BY <1>14 DEF readVars, SearchInv, SearchExact, Returned, AheadIn
<1> QED
  BY <1>2, <1>3, <1>5, <1>6, <1>7, <1>8, <1>9, <1>10, <1>11, <1>12, <1>13, <1>14 DEF RSNext, Serve

\* A client gets each live work that a leg matches once, a dead one never, and misses one only
\* for a limit; what it gets loses no media type of the window, and brings in those below it.
THEOREM SearchExactCorrect == RSSpec => []SearchExact
<1>1. RSInit => WalkInv /\ SearchInv
  <2>1. SUFFICES ASSUME RSInit  PROVE WalkInv /\ SearchInv
    OBVIOUS
  <2>2. rows \in Tables /\ reader = Idle /\ token = NoToken
    BY <2>1, ReadSideAssumption DEF RSInit, ReadSideAssumption
  <2> QED
    BY <2>2 DEF WalkInv, WalkExact, SearchInv, SearchExact, Idle, Walking
<1>2. WalkInv /\ SearchInv /\ [RSNext]_readVars => (WalkInv /\ SearchInv)'
  BY WalkStep, SearchStep, ReadSideAssumption, LibrarySearchAssumption
<1>3. SearchInv => SearchExact
  BY DEF SearchInv
<1> QED
  BY <1>1, <1>2, <1>3, PTL DEF RSSpec
------------------------------------------------------------------------------
(* The library list: verdicts and what was left out.                         *)

\* What a container's note says, and what the notes of a library are folded into.
NoteRows == [state : {"complete", "shortfall", "unverified"}, hidden : Nat, at : Nat]

Verdicts == [state : {"none", "complete", "shortfall", "unverified"}, containers : Nat, hidden : Nat,
             at : Nat]

\* One step of the fold.
LEMMA VerdictTyped ==
  ASSUME NEW into \in Verdicts, NEW note \in NoteRows
  PROVE  foldCompleteness(into, note) \in Verdicts
<1>1. /\ into.state \in {"none", "complete", "shortfall", "unverified"}
      /\ into.containers \in Nat /\ into.hidden \in Nat /\ into.at \in Nat
      /\ note.state \in {"complete", "shortfall", "unverified"} /\ note.hidden \in Nat /\ note.at \in Nat
  BY DEF Verdicts, NoteRows
<1> QED
  BY <1>1 DEF foldCompleteness, Verdicts

\* The fold, part by part.
VerdictFold(notes, iter) ==
  iter = [s \in SUBSET DOMAIN notes |->
            IF s = {} THEN NoVerdict ELSE foldCompleteness(iter[s \ {Max(s)}], notes[Max(s)])]

\* The verdicts after each note, the last that of the library.
RunningVerdicts(notes, n, g) ==
  /\ g \in [0 .. n -> Verdicts] /\ g[0] = NoVerdict
  /\ \A k \in 1 .. n : g[k] = foldCompleteness(g[k - 1], notes[k])
  /\ g[n] = FoldLeft(foldCompleteness, NoVerdict, notes)

\* There are such verdicts.
LEMMA VerdictsRun ==
  ASSUME NEW n \in Nat, NEW notes \in [1 .. n -> NoteRows]
  PROVE  \E g : RunningVerdicts(notes, n, g)
<1> DEFINE D == 1 .. n
           pick == [s \in SUBSET D |-> Max(s)]
           step == [x \in D |-> [v \in Verdicts |-> foldCompleteness(v, notes[x])]]
           fold == CHOOSE iter : VerdictFold(notes, iter)
           g == [k \in 0 .. n |-> fold[1 .. k]]
<1>1. IsFiniteSet(D) /\ DOMAIN notes = D /\ \A x \in D : notes[x] \in NoteRows
  BY SpanFinite
<1>2. FoldLeft(foldCompleteness, NoVerdict, notes) = fold[D]
  BY DEF FoldLeft, MapThenFoldSet, VerdictFold
<1>3. \A s \in SUBSET D : s # {} => pick[s] \in s /\ pick[s] \in D
  BY GreatestOf
<1>4. step \in [D -> [Verdicts -> Verdicts]]
      /\ \A x \in D, v \in Verdicts : step[x][v] = foldCompleteness(v, notes[x])
  <2>1. \A x \in D, v \in Verdicts : foldCompleteness(v, notes[x]) \in Verdicts
    BY <1>1, VerdictTyped
  <2> QED
    BY <2>1
<1>5. NoVerdict \in Verdicts
  BY DEF NoVerdict, Verdicts
<1>6. \A s \in SUBSET D : pick[s] = Max(s)
  OBVIOUS
<1>7. \A k \in 1 .. n : Max(1 .. k) = k
  BY GreatestOf
<1>8. D = 1 .. n /\ \A k \in 0 .. n : 1 .. k \in SUBSET D
  OBVIOUS
<1> HIDE DEF D, pick, step
<1>9. PICK iter : IsFold(D, Verdicts, NoVerdict, pick, step, iter)
  BY <1>1, <1>3, <1>4, <1>5, FoldExists
<1>10. ASSUME NEW s \in SUBSET D, s # {}
       PROVE  iter[s] = foldCompleteness(iter[s \ {Max(s)}], notes[Max(s)])
  <2>1. pick[s] \in D /\ s \ {pick[s]} \in SUBSET D
    BY <1>3, <1>10
  <2>2. iter[s \ {pick[s]}] \in Verdicts
    BY <1>9, <2>1 DEF IsFold
  <2>3. iter[s] = step[pick[s]][iter[s \ {pick[s]}]]
    BY <1>9, <1>10 DEF IsFold
  <2> QED
    BY <1>4, <1>6, <2>1, <2>2, <2>3
<1>11. iter[{}] = NoVerdict /\ iter \in [SUBSET D -> Verdicts]
  BY <1>9 DEF IsFold
<1>12. iter = [s \in SUBSET D |->
                 IF s = {} THEN NoVerdict ELSE foldCompleteness(iter[s \ {Max(s)}], notes[Max(s)])]
  BY <1>10, <1>11
<1>13. VerdictFold(notes, iter)
  BY <1>1, <1>12 DEF VerdictFold
<1>14. VerdictFold(notes, fold)
  BY <1>13
<1> HIDE DEF fold
<1>15. \A s \in SUBSET D :
         fold[s] = IF s = {} THEN NoVerdict ELSE foldCompleteness(fold[s \ {Max(s)}], notes[Max(s)])
  BY <1>1, <1>14 DEF VerdictFold
<1>16. ASSUME NEW k \in 1 .. n  PROVE fold[1 .. k] = foldCompleteness(fold[1 .. (k - 1)], notes[k])
  <2>1. k \in Nat /\ k \in 1 .. k /\ k \in 0 .. n
    OBVIOUS
  <2>2. 1 .. k \in SUBSET D /\ Max(1 .. k) = k
    BY <1>7, <1>8, <2>1
  <2>3. (1 .. k) \ {k} = 1 .. (k - 1)
    BY <2>1
  <2> QED
    BY <1>15, <2>1, <2>2, <2>3
<1>17. fold[1 .. 0] = NoVerdict
  <2>1. 1 .. 0 = {} /\ {} \in SUBSET D
    OBVIOUS
  <2> QED
    BY <1>15, <2>1
<1>18. \A k \in 0 .. n : fold[1 .. k] \in Verdicts
  <2> DEFINE off == {k \in 0 .. n : fold[1 .. k] \notin Verdicts}
  <2>1. SUFFICES ASSUME off # {}  PROVE FALSE
    OBVIOUS
  <2>2. off \in SUBSET Nat
    OBVIOUS
  <2>3. PICK k \in off : \A m \in off : k <= m
    BY <2>1, <2>2, LeastOne
  <2>4. k \in 0 .. n /\ k # 0
    BY <1>5, <1>17, <2>3
  <2>5. k \in 1 .. n /\ k - 1 \in 0 .. n /\ ~ (k <= k - 1)
    BY <2>4
  <2>6. fold[1 .. (k - 1)] \in Verdicts
    BY <2>3, <2>5
  <2>7. notes[k] \in NoteRows
    BY <1>1, <1>8, <2>5
  <2>8. fold[1 .. k] \in Verdicts
    BY <1>16, <2>5, <2>6, <2>7, VerdictTyped
  <2> QED
    BY <2>3, <2>8
<1>19. g \in [0 .. n -> Verdicts] /\ g[0] = NoVerdict /\ g[n] = fold[D]
  BY <1>8, <1>17, <1>18
<1>20. \A k \in 1 .. n : g[k] = foldCompleteness(g[k - 1], notes[k])
  <2> TAKE k \in 1 .. n
  <2>1. k \in 0 .. n /\ k - 1 \in 0 .. n
    OBVIOUS
  <2>2. g[k] = fold[1 .. k] /\ g[k - 1] = fold[1 .. (k - 1)]
    BY <2>1
  <2> QED
    BY <1>16, <2>2
<1> HIDE DEF g
<1>21. RunningVerdicts(notes, n, g)
  BY <1>2, <1>19, <1>20 DEF RunningVerdicts
<1> QED
  BY <1>21

\* The states of the first notes.
StatesTo(notes, k) == {notes[i].state : i \in 1 .. k}

\* After each note, the verdict is the worst so far, with the total unless one is unverified.
LEMMA VerdictsAre ==
  ASSUME NEW n \in Nat, NEW notes \in [1 .. n -> NoteRows], NEW f, NEW g, NEW h,
         f = [i \in 1 .. n |-> notes[i].hidden], RunningVerdicts(notes, n, g), RunningSums(f, n, h)
  PROVE  \A k \in 0 .. n :
           /\ g[k].state = Worst(StatesTo(notes, k))
           /\ g[k].hidden = IF g[k].state \in {"none", "unverified"} THEN 0 ELSE h[k]
<1> DEFINE good(k) == /\ g[k].state = Worst(StatesTo(notes, k))
                      /\ g[k].hidden = IF g[k].state \in {"none", "unverified"} THEN 0 ELSE h[k]
           off == {k \in 0 .. n : ~ good(k)}
<1>1. g[0] = NoVerdict /\ \A k \in 1 .. n : g[k] = foldCompleteness(g[k - 1], notes[k])
  BY DEF RunningVerdicts
<1>2. \A k \in 1 .. n : h[k] = h[k - 1] + notes[k].hidden /\ h[k - 1] \in Nat
  BY DEF RunningSums
<1>3. \A k \in 0 .. n : g[k] \in Verdicts /\ h[k] \in Nat
  BY DEF RunningVerdicts, RunningSums
<1>4. h[0] = 0
  BY DEF RunningSums
<1>5. SUFFICES ASSUME off # {}  PROVE FALSE
  OBVIOUS
<1>6. off \in SUBSET Nat
  OBVIOUS
<1> HIDE DEF good
<1>7. PICK k \in off : \A m \in off : k <= m
  BY <1>5, <1>6, LeastOne
<1>8. k \in 0 .. n /\ ~ good(k)
  BY <1>7
<1>9. good(0)
  <2>1. StatesTo(notes, 0) = {}
    BY DEF StatesTo
  <2>2. Worst({}) = "none"
    BY DEF Worst
  <2>3. g[0].state = "none" /\ g[0].hidden = 0
    BY <1>1 DEF NoVerdict
  <2> QED
    BY <2>1, <2>2, <2>3 DEF good
<1>10. k \in 1 .. n /\ k - 1 \in 0 .. n /\ ~ (k <= k - 1)
  BY <1>8, <1>9
<1>11. good(k - 1)
  BY <1>7, <1>10
<1> DEFINE before == StatesTo(notes, k - 1)
           note == notes[k]
           into == g[k - 1]
<1>12. /\ note.state \in {"complete", "shortfall", "unverified"} /\ note.hidden \in Nat
       /\ note \in NoteRows
  BY <1>10 DEF NoteRows
<1>13. into.state \in {"none", "complete", "shortfall", "unverified"} /\ into.hidden \in Nat
  BY <1>3, <1>10 DEF Verdicts
<1>14. before \subseteq {"complete", "shortfall", "unverified"}
  BY <1>10 DEF StatesTo, NoteRows
<1>15. StatesTo(notes, k) = before \cup {note.state}
  <2>1. \A i \in 1 .. k : i = k \/ i \in 1 .. (k - 1)
    BY <1>10
  <2>2. k \in 1 .. k /\ \A i \in 1 .. (k - 1) : i \in 1 .. k
    BY <1>10
  <2> QED
    BY <2>1, <2>2 DEF StatesTo
<1>16. into.state = Worst(before)
       /\ into.hidden = IF into.state \in {"none", "unverified"} THEN 0 ELSE h[k - 1]
  BY <1>11 DEF good
<1>17. g[k] = foldCompleteness(into, note)
  BY <1>1, <1>10
<1>18. h[k] = h[k - 1] + note.hidden /\ h[k - 1] \in Nat
  BY <1>2, <1>10
<1>19. into.state = "none" => h[k - 1] = 0
  <2>1. SUFFICES ASSUME into.state = "none"  PROVE k = 1
    BY <1>4
  <2>2. before = {}
    BY <1>14, <1>16, <2>1 DEF Worst
  <2>3. k - 1 >= 1 => notes[1].state \in before
    BY <1>10 DEF StatesTo
  <2> QED
    BY <1>10, <2>2, <2>3
<1> HIDE DEF before, note, into
<1>20. /\ g[k].state = IF "unverified" \in {into.state, note.state} THEN "unverified"
                       ELSE IF note.state = "shortfall" \/ into.state = "none" THEN note.state
                       ELSE into.state
       /\ g[k].hidden = IF "unverified" \in {into.state, note.state} THEN 0
                        ELSE into.hidden + note.hidden
  BY <1>17 DEF foldCompleteness
<1>21. g[k].state = Worst(before \cup {note.state})
  <2> DEFINE after == before \cup {note.state}
  <2>1. after # {} /\ note.state \in after
    OBVIOUS
  <2>2. /\ "unverified" \in after <=> "unverified" \in before \/ note.state = "unverified"
        /\ "shortfall" \in after <=> "shortfall" \in before \/ note.state = "shortfall"
    OBVIOUS
  <2> HIDE DEF after
  <2>3. Worst(after) = IF "unverified" \in after THEN "unverified"
                       ELSE IF "shortfall" \in after THEN "shortfall" ELSE "complete"
    BY <2>1 DEF Worst
  <2>4. into.state = IF before = {} THEN "none" ELSE IF "unverified" \in before THEN "unverified"
                     ELSE IF "shortfall" \in before THEN "shortfall" ELSE "complete"
    BY <1>16 DEF Worst
  <2>5. g[k].state = Worst(after)
    BY <1>12, <1>20, <2>2, <2>3, <2>4
  <2> QED
    BY <2>5 DEF after
<1>22. g[k].hidden = IF g[k].state \in {"none", "unverified"} THEN 0 ELSE h[k]
  <2>1. CASE "unverified" \in {into.state, note.state}
    BY <1>20, <2>1
  <2>2. CASE "unverified" \notin {into.state, note.state}
    <3>1. g[k].state \notin {"none", "unverified"}
      BY <1>12, <1>13, <1>20, <2>2
    <3>2. g[k].hidden = into.hidden + note.hidden
      BY <1>20, <2>2
    <3>3. into.hidden = h[k - 1]
      BY <1>13, <1>16, <1>19, <2>2
    <3> QED
      BY <1>18, <3>1, <3>2, <3>3
  <2> QED
    BY <2>1, <2>2
<1> QED
  BY <1>8, <1>15, <1>21, <1>22 DEF good

\* What a container's skip note says, and what those of a library are folded into.
SkipRows == [container : Containers, items : Nat, at : Nat]

SkipSums == [state : {"unknown", "none", "left_out"}, items : Nat, told : SUBSET Containers, at : Nat]

\* One step of that fold.
LEMMA SkipTyped ==
  ASSUME NEW into \in SkipSums, NEW entry \in SkipRows
  PROVE  foldSkips(into, entry) \in SkipSums
<1>1. /\ into.state \in {"unknown", "none", "left_out"}
      /\ into.items \in Nat /\ into.told \subseteq Containers /\ into.at \in Nat
      /\ entry.container \in Containers /\ entry.items \in Nat /\ entry.at \in Nat
  BY DEF SkipSums, SkipRows
<1> QED
  BY <1>1 DEF foldSkips, SkipSums

\* The fold of what was skipped, part by part.
SkipFold(entries, iter) ==
  iter = [s \in SUBSET DOMAIN entries |->
            IF s = {} THEN NoSkips ELSE foldSkips(iter[s \ {Max(s)}], entries[Max(s)])]

\* The sums after each note, the last that of the library.
RunningSkips(entries, n, g) ==
  /\ g \in [0 .. n -> SkipSums] /\ g[0] = NoSkips
  /\ \A k \in 1 .. n : g[k] = foldSkips(g[k - 1], entries[k])
  /\ g[n] = FoldLeft(foldSkips, NoSkips, entries)

\* There are such sums.
LEMMA SkipsRun ==
  ASSUME NEW n \in Nat, NEW entries \in [1 .. n -> SkipRows]
  PROVE  \E g : RunningSkips(entries, n, g)
<1> DEFINE D == 1 .. n
           pick == [s \in SUBSET D |-> Max(s)]
           step == [x \in D |-> [v \in SkipSums |-> foldSkips(v, entries[x])]]
           fold == CHOOSE iter : SkipFold(entries, iter)
           g == [k \in 0 .. n |-> fold[1 .. k]]
<1>1. IsFiniteSet(D) /\ DOMAIN entries = D /\ \A x \in D : entries[x] \in SkipRows
  BY SpanFinite
<1>2. FoldLeft(foldSkips, NoSkips, entries) = fold[D]
  BY DEF FoldLeft, MapThenFoldSet, SkipFold
<1>3. \A s \in SUBSET D : s # {} => pick[s] \in s /\ pick[s] \in D
  BY GreatestOf
<1>4. step \in [D -> [SkipSums -> SkipSums]]
      /\ \A x \in D, v \in SkipSums : step[x][v] = foldSkips(v, entries[x])
  <2>1. \A x \in D, v \in SkipSums : foldSkips(v, entries[x]) \in SkipSums
    BY <1>1, SkipTyped
  <2> QED
    BY <2>1
<1>5. NoSkips \in SkipSums
  BY DEF NoSkips, SkipSums
<1>6. \A s \in SUBSET D : pick[s] = Max(s)
  OBVIOUS
<1>7. \A k \in 1 .. n : Max(1 .. k) = k
  BY GreatestOf
<1>8. D = 1 .. n /\ \A k \in 0 .. n : 1 .. k \in SUBSET D
  OBVIOUS
<1> HIDE DEF D, pick, step
<1>9. PICK iter : IsFold(D, SkipSums, NoSkips, pick, step, iter)
  BY <1>1, <1>3, <1>4, <1>5, FoldExists
<1>10. ASSUME NEW s \in SUBSET D, s # {}
       PROVE  iter[s] = foldSkips(iter[s \ {Max(s)}], entries[Max(s)])
  <2>1. pick[s] \in D /\ s \ {pick[s]} \in SUBSET D
    BY <1>3, <1>10
  <2>2. iter[s \ {pick[s]}] \in SkipSums
    BY <1>9, <2>1 DEF IsFold
  <2>3. iter[s] = step[pick[s]][iter[s \ {pick[s]}]]
    BY <1>9, <1>10 DEF IsFold
  <2> QED
    BY <1>4, <1>6, <2>1, <2>2, <2>3
<1>11. iter[{}] = NoSkips /\ iter \in [SUBSET D -> SkipSums]
  BY <1>9 DEF IsFold
<1>12. iter = [s \in SUBSET D |->
                 IF s = {} THEN NoSkips ELSE foldSkips(iter[s \ {Max(s)}], entries[Max(s)])]
  BY <1>10, <1>11
<1>13. SkipFold(entries, iter)
  BY <1>1, <1>12 DEF SkipFold
<1>14. SkipFold(entries, fold)
  BY <1>13
<1> HIDE DEF fold
<1>15. \A s \in SUBSET D :
         fold[s] = IF s = {} THEN NoSkips ELSE foldSkips(fold[s \ {Max(s)}], entries[Max(s)])
  BY <1>1, <1>14 DEF SkipFold
<1>16. ASSUME NEW k \in 1 .. n  PROVE fold[1 .. k] = foldSkips(fold[1 .. (k - 1)], entries[k])
  <2>1. k \in Nat /\ k \in 1 .. k /\ k \in 0 .. n
    OBVIOUS
  <2>2. 1 .. k \in SUBSET D /\ Max(1 .. k) = k
    BY <1>7, <1>8, <2>1
  <2>3. (1 .. k) \ {k} = 1 .. (k - 1)
    BY <2>1
  <2> QED
    BY <1>15, <2>1, <2>2, <2>3
<1>17. fold[1 .. 0] = NoSkips
  <2>1. 1 .. 0 = {} /\ {} \in SUBSET D
    OBVIOUS
  <2> QED
    BY <1>15, <2>1
<1>18. \A k \in 0 .. n : fold[1 .. k] \in SkipSums
  <2> DEFINE off == {k \in 0 .. n : fold[1 .. k] \notin SkipSums}
  <2>1. SUFFICES ASSUME off # {}  PROVE FALSE
    OBVIOUS
  <2>2. off \in SUBSET Nat
    OBVIOUS
  <2>3. PICK k \in off : \A m \in off : k <= m
    BY <2>1, <2>2, LeastOne
  <2>4. k \in 0 .. n /\ k # 0
    BY <1>5, <1>17, <2>3
  <2>5. k \in 1 .. n /\ k - 1 \in 0 .. n /\ ~ (k <= k - 1)
    BY <2>4
  <2>6. fold[1 .. (k - 1)] \in SkipSums
    BY <2>3, <2>5
  <2>7. entries[k] \in SkipRows
    BY <1>1, <1>8, <2>5
  <2>8. fold[1 .. k] \in SkipSums
    BY <1>16, <2>5, <2>6, <2>7, SkipTyped
  <2> QED
    BY <2>3, <2>8
<1>19. g \in [0 .. n -> SkipSums] /\ g[0] = NoSkips /\ g[n] = fold[D]
  BY <1>8, <1>17, <1>18
<1>20. \A k \in 1 .. n : g[k] = foldSkips(g[k - 1], entries[k])
  <2> TAKE k \in 1 .. n
  <2>1. k \in 0 .. n /\ k - 1 \in 0 .. n
    OBVIOUS
  <2>2. g[k] = fold[1 .. k] /\ g[k - 1] = fold[1 .. (k - 1)]
    BY <2>1
  <2> QED
    BY <1>16, <2>2
<1> HIDE DEF g
<1>21. RunningSkips(entries, n, g)
  BY <1>2, <1>19, <1>20 DEF RunningSkips
<1> QED
  BY <1>21

\* Sums that are those of the items skipped so far.
CountItems(g, h, n) == \A k \in 0 .. n : g[k].items = h[k]

\* After each note, the items skipped so far.
LEMMA SkipsAre ==
  ASSUME NEW n \in Nat, NEW entries \in [1 .. n -> SkipRows], NEW f, NEW g, NEW h,
         f = [i \in 1 .. n |-> entries[i].items], RunningSkips(entries, n, g), RunningSums(f, n, h)
  PROVE  CountItems(g, h, n)
<1> DEFINE off == {k \in 0 .. n : g[k].items # h[k]}
<1>1. g[0] = NoSkips /\ \A k \in 1 .. n : g[k] = foldSkips(g[k - 1], entries[k])
  BY DEF RunningSkips
<1>2. h[0] = 0 /\ \A k \in 1 .. n : h[k] = h[k - 1] + entries[k].items
  BY DEF RunningSums
<1>3. SUFFICES ASSUME off # {}  PROVE FALSE
  BY DEF CountItems
<1>4. off \in SUBSET Nat
  OBVIOUS
<1>5. PICK k \in off : \A m \in off : k <= m
  BY <1>3, <1>4, LeastOne
<1>6. k \in 0 .. n /\ g[k].items # h[k]
  BY <1>5
<1>7. g[0].items = 0
  BY <1>1 DEF NoSkips
<1>8. k \in 1 .. n /\ k - 1 \in 0 .. n /\ ~ (k <= k - 1)
  BY <1>2, <1>6, <1>7
<1>9. g[k - 1].items = h[k - 1]
  BY <1>5, <1>8
<1>10. g[k].items = g[k - 1].items + entries[k].items
  <2>1. \A into, entry : foldSkips(into, entry).items = into.items + entry.items
    BY DEF foldSkips
  <2> QED
    BY <1>1, <1>8, <2>1
<1> QED
  BY <1>2, <1>6, <1>8, <1>9, <1>10

\* What the listing reads.
Reports == [state : {"complete", "shortfall", "unverified"}, hidden : Nat, at : Nat]

Lefts == [items : Nat, at : Nat]

ListTables == [notes : [Containers -> Reports \cup {NoNote}], skips : [Containers -> Lefts \cup {NoNote}],
               deleted : SUBSET {c.instance : c \in Containers}]

\* The sources with a note are shown sources, all that have one.
LEMMA NotedSources ==
  ASSUME LibraryListAssumption, NEW s, NEW notes, NEW l
  PROVE  /\ Noted(s, notes, l) \in Seq(Range(Sources))
         /\ \A i \in DOMAIN Noted(s, notes, l) :
              /\ Noted(s, notes, l)[i] \in ToSet(Shown(s, l))
              /\ notes[ContainerOf(Noted(s, notes, l)[i])] # NoNote
              /\ ContainerOf(Noted(s, notes, l)[i]) \in Containers
         /\ \A x \in ToSet(Shown(s, l)) :
              notes[ContainerOf(x)] # NoNote => \E i \in DOMAIN Noted(s, notes, l) : Noted(s, notes, l)[i] = x
<1> DEFINE R == Range(Sources)
           among == {src \in R : src.lib = l /\ src.instance \notin s.deleted}
           with == {src \in R : notes[ContainerOf(src)] # NoNote}
           q == Shown(s, l)
           p == Noted(s, notes, l)
<1>1. Sources \in Seq(R) /\ q = Selected(Sources, among) /\ p = Selected(q, with)
  BY DEF LibraryListAssumption, Shown, Noted
<1>2. \A x \in R : ContainerOf(x) \in Containers
  BY DEF ContainerOf, Containers
<1>3. \A x : x \in with <=> x \in R /\ notes[ContainerOf(x)] # NoNote
  OBVIOUS
<1> HIDE DEF R, among, with, q, p
<1>4. q \in Seq(R)
  BY <1>1, SelectedEntries
<1>5. p \in Seq(R) /\ Chosen(q, with, Len(q), p)
  BY <1>1, <1>4, SelectedEntries
<1>6. DOMAIN q = 1 .. Len(q) /\ \A i \in DOMAIN q : q[i] \in R
  BY <1>4
<1>7. \A x : (\E i \in DOMAIN p : p[i] = x) <=> x \in with /\ \E m \in DOMAIN q : q[m] = x
  BY <1>5, <1>6 DEF Chosen
<1>8. \A x : x \in ToSet(q) <=> \E m \in DOMAIN q : q[m] = x
  BY DEF ToSet
<1>9. \A i \in DOMAIN p : /\ p[i] \in ToSet(q) /\ notes[ContainerOf(p[i])] # NoNote
                          /\ ContainerOf(p[i]) \in Containers
  BY <1>2, <1>3, <1>7, <1>8
<1>10. \A x \in ToSet(q) : notes[ContainerOf(x)] # NoNote => \E i \in DOMAIN p : p[i] = x
  BY <1>3, <1>6, <1>7, <1>8
<1> QED
  BY <1>5, <1>9, <1>10 DEF R, p, q

\* What a listing says of a library's containers, as ListingExact asks of it.
IsVerdict(verdict, l) ==
  LET noted == Noted(lists, lists.notes, l)
  IN  /\ verdict.state = Worst(StatesOf(l))
      /\ verdict.hidden = IF verdict.state \in {"none", "unverified"} THEN 0
            ELSE SumFunction([n \in DOMAIN noted |-> lists.notes[ContainerOf(noted[n])].hidden])

\* The fold finds the worst verdict, and the total if there is one.
LEMMA VerdictFound ==
  ASSUME LibraryListAssumption, lists \in ListTables, NEW l
  PROVE  IsVerdict(Completeness(lists, l), l)
<1> DEFINE noted == Noted(lists, lists.notes, l)
           n == Len(noted)
           notes == [i \in DOMAIN noted |-> lists.notes[ContainerOf(noted[i])]]
           f == [i \in DOMAIN noted |-> lists.notes[ContainerOf(noted[i])].hidden]
           states == {lists.notes[ContainerOf(src)].state :
                        src \in {x \in ToSet(Shown(lists, l)) : lists.notes[ContainerOf(x)] # NoNote}}
<1>1. Completeness(lists, l) = FoldLeft(foldCompleteness, NoVerdict, notes)
  BY DEF Completeness
<1>2. /\ noted \in Seq(Range(Sources))
      /\ \A i \in DOMAIN noted : /\ noted[i] \in ToSet(Shown(lists, l))
                                  /\ lists.notes[ContainerOf(noted[i])] # NoNote
                                  /\ ContainerOf(noted[i]) \in Containers
      /\ \A x \in ToSet(Shown(lists, l)) :
           lists.notes[ContainerOf(x)] # NoNote => \E i \in DOMAIN noted : noted[i] = x
  BY NotedSources
<1>3. StatesOf(l) = states
  BY DEF StatesOf
<1> HIDE DEF noted
<1>4. n \in Nat /\ DOMAIN noted = 1 .. n
  BY <1>2
<1>5. \A c \in Containers : lists.notes[c] # NoNote => lists.notes[c] \in NoteRows
  BY DEF ListTables, Reports, NoteRows
<1>6. \A i \in 1 .. n : lists.notes[ContainerOf(noted[i])] \in NoteRows
  BY <1>2, <1>4, <1>5
<1>7. notes \in [1 .. n -> NoteRows] /\ \A i \in 1 .. n : notes[i] = lists.notes[ContainerOf(noted[i])]
  BY <1>4, <1>6
<1>8. f \in [1 .. n -> Nat] /\ f = [i \in 1 .. n |-> notes[i].hidden]
  <2>1. \A i \in 1 .. n : lists.notes[ContainerOf(noted[i])].hidden \in Nat
    BY <1>6 DEF NoteRows
  <2> QED
    BY <1>4, <1>7, <2>1
<1>9. states = StatesTo(notes, n)
  <2>1. \A i \in 1 .. n : notes[i].state \in states
    BY <1>2, <1>4, <1>7
  <2>2. \A x \in ToSet(Shown(lists, l)) : lists.notes[ContainerOf(x)] # NoNote =>
          \E i \in 1 .. n : notes[i].state = lists.notes[ContainerOf(x)].state
    BY <1>2, <1>4, <1>7
  <2> HIDE DEF notes
  <2> QED
    BY <2>1, <2>2 DEF StatesTo
<1> HIDE DEF n, notes, f, states
<1>10. PICK g : RunningVerdicts(notes, n, g)
  BY <1>4, <1>7, VerdictsRun
<1>11. PICK h : RunningSums(f, n, h)
  BY <1>4, <1>8, SumsRun
<1>12. n \in 0 .. n
  BY <1>4
<1>13. /\ g[n].state = Worst(StatesTo(notes, n))
       /\ g[n].hidden = IF g[n].state \in {"none", "unverified"} THEN 0 ELSE h[n]
  BY <1>4, <1>7, <1>8, <1>10, <1>11, <1>12, VerdictsAre
<1>14. g[n] = Completeness(lists, l) /\ h[n] = SumFunction(f)
  BY <1>1, <1>10, <1>11 DEF RunningVerdicts, RunningSums
<1>15. /\ Completeness(lists, l).state = Worst(StatesOf(l))
       /\ Completeness(lists, l).hidden =
            IF Completeness(lists, l).state \in {"none", "unverified"} THEN 0 ELSE SumFunction(f)
  BY <1>3, <1>9, <1>13, <1>14
<1> QED
  BY <1>15 DEF IsVerdict, f, noted

\* What a listing says of the items a library's containers left out.
IsSkipped(skips, l) ==
  LET skipped == Noted(lists, lists.skips, l)
  IN  skips.items = SumFunction([n \in DOMAIN skipped |-> lists.skips[ContainerOf(skipped[n])].items])

\* The fold counts every container's.
LEMMA SkipsFound ==
  ASSUME LibraryListAssumption, lists \in ListTables, NEW l
  PROVE  IsSkipped(Skips(lists, l), l)
<1> DEFINE noted == Noted(lists, lists.skips, l)
           n == Len(noted)
           entries == [i \in DOMAIN noted |->
                         [container |-> ContainerOf(noted[i]), items |-> lists.skips[ContainerOf(noted[i])].items,
                          at |-> lists.skips[ContainerOf(noted[i])].at]]
           f == [i \in DOMAIN noted |-> lists.skips[ContainerOf(noted[i])].items]
<1>1. Skips(lists, l) = FoldLeft(foldSkips, NoSkips, entries)
  BY DEF Skips
<1>2. /\ noted \in Seq(Range(Sources))
      /\ \A i \in DOMAIN noted : /\ lists.skips[ContainerOf(noted[i])] # NoNote
                                  /\ ContainerOf(noted[i]) \in Containers
  BY NotedSources
<1> HIDE DEF noted
<1>3. n \in Nat /\ DOMAIN noted = 1 .. n
  BY <1>2
<1>4. \A c \in Containers : lists.skips[c] # NoNote => lists.skips[c].items \in Nat /\ lists.skips[c].at \in Nat
  BY DEF ListTables, Lefts
<1>5. \A i \in 1 .. n : /\ ContainerOf(noted[i]) \in Containers
                        /\ lists.skips[ContainerOf(noted[i])].items \in Nat
                        /\ lists.skips[ContainerOf(noted[i])].at \in Nat
  BY <1>2, <1>3, <1>4
<1>6. entries \in [1 .. n -> SkipRows]
  BY <1>3, <1>5 DEF SkipRows
<1>7. f \in [1 .. n -> Nat] /\ f = [i \in 1 .. n |-> entries[i].items]
  BY <1>3, <1>5
<1> HIDE DEF n, entries, f
<1>8. PICK g : RunningSkips(entries, n, g)
  BY <1>3, <1>6, SkipsRun
<1>9. PICK h : RunningSums(f, n, h)
  BY <1>3, <1>7, SumsRun
<1>10. n \in 0 .. n
  BY <1>3
<1>11. CountItems(g, h, n)
  BY <1>3, <1>6, <1>7, <1>8, <1>9, SkipsAre
<1>12. g[n] = Skips(lists, l) /\ h[n] = SumFunction(f)
  BY <1>1, <1>8, <1>9 DEF RunningSkips, RunningSums
<1>13. Skips(lists, l).items = SumFunction(f)
  BY <1>10, <1>11, <1>12 DEF CountItems
<1> QED
  BY <1>13 DEF IsSkipped, f, noted
------------------------------------------------------------------------------
(* The library list as it is served.                                         *)

\* The listing of the libraries that is being served, and what it has read so far: the sizes
\* of those it lists, then their verdicts, then what they left out.
Listing == {"sources", "verdicts", "skips", "listed"}

ListInv ==
  /\ lists \in ListTables /\ writes \in Nat
  /\ reader.at \in Listing =>
       /\ DOMAIN reader = {"at", "ids", "sizes", "sources", "verdicts", "skips"}
       /\ ToSet(reader.ids) \subseteq LibraryIds
  /\ reader.at \in Listing /\ touched = {} =>
       \A l \in ToSet(reader.ids) : reader.sizes[l] = SizeOf(TRUE, l)
  /\ reader.at \in {"skips", "listed"} /\ touched = {} =>
       \A l \in ToSet(reader.ids) : reader.verdicts[l] = Completeness(lists, l)
  /\ reader.at = "listed" /\ touched = {} =>
       \A l \in ToSet(reader.ids) : reader.skips[l] = Skips(lists, l)

\* What the listing has read is right when nothing was written since it began.
LEMMA ListingFrom ==
  ASSUME ReadSideAssumption, LibraryListAssumption, ListInv
  PROVE  ListingExact
<1>1. SUFFICES ASSUME reader.at = "listed", touched = {}, NEW l \in ToSet(reader.ids)
               PROVE  /\ IsVerdict(reader.verdicts[l], l) /\ IsSkipped(reader.skips[l], l)
                      /\ reader.sizes[l] = Cardinality({w \in Works : Admitted(rows,
                           [media |-> Every, sort |-> "added_at", libs |-> {l}, owner |-> TRUE], w)})
  BY DEF ListingExact, IsVerdict, IsSkipped
<1>2. lists \in ListTables
  BY DEF ListInv
<1>3. IsVerdict(reader.verdicts[l], l)
  BY <1>1, <1>2, VerdictFound DEF ListInv
<1>4. IsSkipped(reader.skips[l], l)
  BY <1>1, <1>2, SkipsFound DEF ListInv
<1>5. reader.sizes[l] = SizeOf(TRUE, l)
  BY <1>1 DEF ListInv, Listing
<1>6. ASSUME NEW w \in Works
      PROVE  Admitted(rows, [media |-> Every, sort |-> "added_at", libs |-> {l}, owner |-> TRUE], w)
               <=> Visible(rows, TRUE, w) /\ l \in rows[w].libs
  <2> DEFINE q == [media |-> Every, sort |-> "added_at", libs |-> {l}, owner |-> TRUE]
  <2>1. q.media = Every /\ q.libs = {l} /\ q.owner = TRUE
    OBVIOUS
  <2> HIDE DEF q
  <2>2. KindOf[w] \in browseKinds[q.media]
    BY <2>1 DEF ReadSideAssumption
  <2>3. Split(rows, q.media, w)
    BY <2>1 DEF Split, Every
  <2>4. q.libs # {} /\ (q.libs \cap rows[w].libs # {} <=> l \in rows[w].libs)
    BY <2>1
  <2>5. Admitted(rows, q, w) <=> Visible(rows, TRUE, w) /\ l \in rows[w].libs
    BY <2>1, <2>2, <2>3, <2>4 DEF Admitted
  <2> QED
    BY <2>5 DEF q
<1>7. {w \in Works : Admitted(rows, [media |-> Every, sort |-> "added_at", libs |-> {l}, owner |-> TRUE], w)}
        = {w \in Works : Visible(rows, TRUE, w) /\ l \in rows[w].libs}
  BY <1>6
<1> QED
  BY <1>3, <1>4, <1>5, <1>7 DEF SizeOf

\* An import changes the reports in place.
LEMMA ReportsStay ==
  ASSUME ReadSideAssumption, ListInv, Import
  PROVE  lists' \in ListTables /\ writes' \in Nat
<1>1. /\ lists \in ListTables /\ writes \in Nat
      /\ \A shape \in NoteShapes : shape \in [state : {"complete", "shortfall", "unverified"}, hidden : Nat]
  BY DEF ListInv, ReadSideAssumption
<1>2. CASE UNCHANGED lists /\ writes' = writes + 1
  BY <1>1, <1>2
<1>3. ASSUME NEW c \in Containers, NEW shape \in NoteShapes, NEW items \in 0 .. 1,
             ReportContainer(c, shape, items)
      PROVE  lists' \in ListTables /\ writes' \in Nat
  <2> DEFINE note == [state |-> shape.state, hidden |-> shape.hidden, at |-> writes + 1]
             entry == [items |-> items, at |-> writes + 1]
  <2>1. note \in Reports /\ entry \in Lefts
    BY <1>1 DEF Reports, Lefts
  <2>2. lists' = [lists EXCEPT !.notes[c] = note, !.skips[c] = entry] /\ writes' = writes + 1
    BY <1>3 DEF ReportContainer, Write
  <2> HIDE DEF note, entry
  <2>3. /\ lists = [notes |-> lists.notes, skips |-> lists.skips, deleted |-> lists.deleted]
        /\ lists.notes \in [Containers -> Reports \cup {NoNote}]
        /\ lists.skips \in [Containers -> Lefts \cup {NoNote}]
    BY <1>1 DEF ListTables
  <2>4. /\ [lists.notes EXCEPT ![c] = note] \in [Containers -> Reports \cup {NoNote}]
        /\ [lists.skips EXCEPT ![c] = entry] \in [Containers -> Lefts \cup {NoNote}]
    BY <2>1, <2>3
  <2>5. lists' = [notes |-> [lists.notes EXCEPT ![c] = note],
                  skips |-> [lists.skips EXCEPT ![c] = entry], deleted |-> lists.deleted]
    BY <2>2, <2>3
  <2> QED
    BY <1>1, <2>2, <2>4, <2>5 DEF ListTables
<1>4. ASSUME NEW i \in {c.instance : c \in Containers}, DeleteInstance(i)
      PROVE  lists' \in ListTables /\ writes' \in Nat
  BY <1>1, <1>4 DEF DeleteInstance, Write, ListTables
<1> QED
  BY <1>2, <1>3, <1>4 DEF Import, InsertWork, UpdateWork, TombstoneWork, WriteEdition, Write

\* A request of another kind is no listing.
LEMMA NoListing ==
  ASSUME ListInv, UNCHANGED <<lists, writes>>, reader'.at \notin Listing
  PROVE  ListInv'
BY DEF ListInv, Listing

\* Every step keeps it.
LEMMA ListStep ==
  ASSUME ReadSideAssumption, WalkInv, ListInv, [RSNext]_readVars
  PROVE  ListInv'
<1>0. "at" \in DOMAIN reader /\ (reader.at \in Walking => reader \in Walks)
  BY DEF WalkInv
<1>1. CASE Import
  BY <1>1, WritesTouch, ReportsStay DEF ListInv, WalkInv
<1>2. ASSUME NEW from \in {"works", "recent"}, NEW q \in Asked(from), NEW tok \in {NoToken, token},
             AskPage(from, q, tok)
      PROVE  ListInv'
  BY <1>2, NoListing DEF AskPage, Refuse, Reading, table, Idle, Listing
<1>3. ASSUME reader.at \in Walking, NEW page, Answered(reader, page)
      PROVE  reader'.at \notin Listing /\ UNCHANGED <<lists, writes>>
  BY <1>0, <1>3 DEF Answered, Reading, table, Walks, Listing
<1>4. CASE ReadPage
  <2>1. reader.at \in Walking
    BY <1>4 DEF ReadPage, Walking
  <2>2. CASE NeedsTail(reader.q, reader.cur,
                       browseWorksPage(rows, reader.q, reader.cur, BrowseLimit + 1))
    BY <1>0, <1>4, <2>1, <2>2, NoListing DEF ReadPage, Reading, table, Walks, Listing
  <2>3. CASE ~ NeedsTail(reader.q, reader.cur,
                         browseWorksPage(rows, reader.q, reader.cur, BrowseLimit + 1))
    BY <1>3, <1>4, <2>1, <2>3, NoListing DEF ReadPage
  <2> QED
    BY <2>2, <2>3
<1>5. CASE ReadTail
  BY <1>3, <1>5, NoListing DEF ReadTail, Walking
<1>6. ASSUME NEW owner \in BOOLEAN, CountKinds(owner)  PROVE ListInv'
  BY <1>6, NoListing DEF CountKinds, Begin, Reading, table, Listing
<1>7. ASSUME NEW owner \in BOOLEAN, ListLibraries(owner)  PROVE ListInv'
  <2>1. /\ reader' = [at |-> "sources", ids |-> ListedTo(owner),
                      sizes |-> [l \in LibraryIds |-> SizeOf(owner, l)],
                      sources |-> <<>>, verdicts |-> <<>>, skips |-> <<>>]
        /\ UNCHANGED <<rows, lists, writes>>
    BY <1>7 DEF ListLibraries, Begin, Reading, table
  <2>2. ToSet(ListedTo(owner)) \subseteq LibraryIds /\ \A l \in ToSet(ListedTo(owner)) : owner
    BY DEF ListedTo, LibraryIds, ToSet
  <2>3. \A l \in ToSet(ListedTo(owner)) : reader'.sizes[l] = SizeOf(TRUE, l)
    BY <2>1, <2>2
  <2>4. /\ DOMAIN reader' = {"at", "ids", "sizes", "sources", "verdicts", "skips"}
        /\ reader'.at = "sources" /\ reader'.ids = ListedTo(owner)
    BY <2>1
  <2>5. \A l : SizeOf(TRUE, l)' = SizeOf(TRUE, l)
    BY <2>1 DEF SizeOf, Visible
  <2> QED
    BY <2>1, <2>2, <2>3, <2>4, <2>5 DEF ListInv
<1>8. ASSUME NEW owner \in BOOLEAN, NEW limit \in SearchLimits, ReadSearchable(owner, limit)
      PROVE  ListInv'
  BY <1>8, NoListing DEF ReadSearchable, Begin, Reading, table, Listing
<1>9. CASE CountAudiobooks
  BY <1>9, NoListing DEF CountAudiobooks, Reading, table, Listing
<1>10. ASSUME UNCHANGED <<rows, lists, writes, touched>>
       PROVE  /\ \A l : SizeOf(TRUE, l)' = SizeOf(TRUE, l)
              /\ \A l : Completeness(lists, l)' = Completeness(lists, l)
              /\ \A l : Skips(lists, l)' = Skips(lists, l)
  BY <1>10 DEF SizeOf, Visible
<1>11. CASE AttachSources
  <2>1. /\ reader.at = "sources" /\ UNCHANGED <<rows, lists, writes, touched>>
        /\ reader' = [reader EXCEPT !.at = IF reader.ids = <<>> THEN "listed" ELSE "verdicts",
                        !.sources = [l \in ToSet(reader.ids) |-> ToSet(Shown(lists, l))]]
    BY <1>11 DEF AttachSources, Reading, table
  <2>2. /\ DOMAIN reader = {"at", "ids", "sizes", "sources", "verdicts", "skips"}
        /\ ToSet(reader.ids) \subseteq LibraryIds
        /\ touched = {} => \A l \in ToSet(reader.ids) : reader.sizes[l] = SizeOf(TRUE, l)
    BY <2>1 DEF ListInv, Listing
  <2>3. /\ DOMAIN reader' = {"at", "ids", "sizes", "sources", "verdicts", "skips"}
        /\ reader'.ids = reader.ids /\ reader'.sizes = reader.sizes
        /\ reader'.at = IF reader.ids = <<>> THEN "listed" ELSE "verdicts"
    BY <2>1, <2>2
  <2>4. reader.ids = <<>> => ToSet(reader.ids) = {}
    BY DEF ToSet
  <2>5. \A l : SizeOf(TRUE, l)' = SizeOf(TRUE, l) /\ Skips(lists, l)' = Skips(lists, l)
    BY <1>10, <2>1
  <2>6. reader'.at # "skips" /\ (reader'.at = "listed" => ToSet(reader'.ids) = {})
    BY <2>3, <2>4
  <2>7. lists' \in ListTables /\ writes' \in Nat /\ touched' = touched
    BY <2>1 DEF ListInv
  <2> QED
    BY <2>2, <2>3, <2>5, <2>6, <2>7 DEF ListInv
<1>12. CASE AttachCompleteness
  <2>1. /\ reader.at = "verdicts" /\ UNCHANGED <<rows, lists, writes, touched>>
        /\ reader' = [reader EXCEPT !.at = "skips",
                        !.verdicts = [l \in ToSet(reader.ids) |-> Completeness(lists, l)]]
    BY <1>12 DEF AttachCompleteness, Reading, table
  <2>2. /\ DOMAIN reader = {"at", "ids", "sizes", "sources", "verdicts", "skips"}
        /\ ToSet(reader.ids) \subseteq LibraryIds
        /\ touched = {} => \A l \in ToSet(reader.ids) : reader.sizes[l] = SizeOf(TRUE, l)
    BY <2>1 DEF ListInv, Listing
  <2>3. /\ DOMAIN reader' = {"at", "ids", "sizes", "sources", "verdicts", "skips"}
        /\ reader'.ids = reader.ids /\ reader'.sizes = reader.sizes /\ reader'.at = "skips"
        /\ \A l \in ToSet(reader.ids) : reader'.verdicts[l] = Completeness(lists, l)
    BY <2>1, <2>2
  <2> QED
    BY <1>10, <2>1, <2>2, <2>3 DEF ListInv
<1>13. CASE AttachSkips
  <2>1. /\ reader.at = "skips" /\ UNCHANGED <<rows, lists, writes, touched>>
        /\ reader' = [reader EXCEPT !.at = "listed",
                        !.skips = [l \in ToSet(reader.ids) |-> Skips(lists, l)]]
    BY <1>13 DEF AttachSkips, Reading, table
  <2>2. /\ DOMAIN reader = {"at", "ids", "sizes", "sources", "verdicts", "skips"}
        /\ ToSet(reader.ids) \subseteq LibraryIds
        /\ touched = {} => \A l \in ToSet(reader.ids) : reader.sizes[l] = SizeOf(TRUE, l)
        /\ touched = {} => \A l \in ToSet(reader.ids) : reader.verdicts[l] = Completeness(lists, l)
    BY <2>1 DEF ListInv, Listing
  <2>3. /\ DOMAIN reader' = {"at", "ids", "sizes", "sources", "verdicts", "skips"}
        /\ reader'.ids = reader.ids /\ reader'.sizes = reader.sizes
        /\ reader'.verdicts = reader.verdicts /\ reader'.at = "listed"
        /\ \A l \in ToSet(reader.ids) : reader'.skips[l] = Skips(lists, l)
    BY <2>1, <2>2
  <2> QED
    BY <1>10, <2>1, <2>2, <2>3 DEF ListInv
<1>14. CASE Retrieve
  BY <1>14, NoListing DEF Retrieve, Reading, table, Listing
<1>15. CASE Leave
  BY <1>15, NoListing DEF Leave, Reading, table, Idle, Listing
<1>16. CASE UNCHANGED readVars
  BY <1>10, <1>16 DEF readVars, ListInv
<1> QED
  BY <1>1, <1>2, <1>4, <1>5, <1>6, <1>7, <1>8, <1>9, <1>11, <1>12, <1>13, <1>14, <1>15, <1>16
     DEF RSNext, Serve

\* A library is listed with the worst verdict among its containers, with totals only if each of
\* them is verified, with the items left out in all, and with the size the grid shows.
THEOREM ListingExactCorrect == RSSpec => []ListingExact
<1>1. RSInit => WalkInv /\ ListInv
  <2>1. SUFFICES ASSUME RSInit  PROVE WalkInv /\ ListInv
    OBVIOUS
  <2>2. rows \in Tables /\ reader = Idle /\ token = NoToken
    BY <2>1, ReadSideAssumption DEF RSInit, ReadSideAssumption
  <2>3. lists \in ListTables /\ writes \in Nat
    BY <2>1 DEF RSInit, ListTables
  <2> QED
    BY <2>2, <2>3 DEF WalkInv, WalkExact, ListInv, Idle, Walking, Listing
<1>2. WalkInv /\ ListInv /\ [RSNext]_readVars => (WalkInv /\ ListInv)'
  BY WalkStep, ListStep, ReadSideAssumption
<1>3. ListInv => ListingExact
  BY ListingFrom, ReadSideAssumption, LibraryListAssumption
<1> QED
  BY <1>1, <1>2, <1>3, PTL DEF RSSpec
==============================================================================
