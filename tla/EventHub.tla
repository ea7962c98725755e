------------------------------- MODULE EventHub -------------------------------
(***************************************************************************)
(* The hub behind GET /api/events: publishers that never block, a queue per  *)
(* connection that is dropped when full, a ring of recent events replayed to *)
(* a browser that comes back with the id it last saw, and browsers whose     *)
(* connections break.                                                        *)
(*                                                                          *)
(* A frame is an event with its id and its number in the log, or the word    *)
(* that events were missed. A connection is what the server holds for it:    *)
(*   sub    none, live, or dropped (closed, its queue still to be drained)   *)
(*   out    frames the handler writes first: the missed word and the replay  *)
(*   queue  sub.ch                                                           *)
(* A frame still in either when a connection breaks never arrives.           *)
(***************************************************************************)
EXTENDS Naturals, Sequences, Functions, Selecting

CONSTANTS
  Clients, UserOf, Owners, Shared,
  QueueLen,     \* subscriberQueue
  RingLen,      \* the replay buffer
  MaxEvents,    \* bound on the events published
  MaxBreaks,    \* bound on the connections that break
  MaxRestarts   \* bound on the restarts of the process

ASSUME HubAssumption ==
  /\ Shared \in Owners
  /\ DOMAIN UserOf = Clients
  /\ QueueLen \in Nat \ {0} /\ RingLen \in Nat \ {0}
  /\ MaxEvents \in Nat /\ MaxBreaks \in Nat /\ MaxRestarts \in Nat

VARIABLES
  next,       \* the last id given out by this process
  ring,
  closed,
  conn,
  lastId,     \* browser: the id its EventSource will come back with, 0 before the first
  log,        \* history: the owner of every event published
  pos,        \* history: per client, the number of the last event it was shown
  told,       \* history: per client, it was told of a hole and has got no event since
  horizon,    \* history: per client whose id is an earlier process's, how much had been
              \*   published when it was last connected, or when that process ended
  breaks, restarts

histories == <<told, horizon>>
vars == <<next, ring, closed, conn, lastId, log, pos, histories, breaks, restarts>>

Gone == [sub |-> "none", out |-> <<>>, queue |-> <<>>]

VisibleTo(c, owner) == owner = UserOf[c] \/ owner = Shared
------------------------------------------------------------------------------

\* The ring after one more event: the oldest makes room once it is full.
Pushed(ev) == IF Len(ring) = RingLen THEN Append(Tail(ring), ev) ELSE Append(ring, ev)

\* A full queue that loses the event and keeps the subscriber.
OfferedLossy(c, ev) ==
  IF conn[c].sub = "live" /\ VisibleTo(c, ev.owner) /\ Len(conn[c].queue) < QueueLen
  THEN [conn[c] EXCEPT !.queue = Append(@, ev)]
  ELSE conn[c]

\* A subscriber's side of Publish: the event joins its queue, or the queue is full
\* and the subscriber is dropped, to come back by itself.
Offered(c, ev) ==
  IF conn[c].sub # "live" \/ ~VisibleTo(c, ev.owner) THEN conn[c]
  ELSE IF Len(conn[c].queue) < QueueLen THEN [conn[c] EXCEPT !.queue = Append(@, ev)]
  ELSE [conn[c] EXCEPT !.sub = "dropped"]

\* The ring no longer reaches back to the id.
RingStartsPast(id) == ring # <<>> /\ ring[1].id > id + 1

MissedFrame(id) == [id |-> id, owner |-> Shared, n |-> 0]

\* The word that events were missed, when some were.
Word(c) == IF RingStartsPast(lastId[c]) THEN <<MissedFrame(lastId[c])>> ELSE <<>>

Unseen(c) == {ev \in Range(ring) : ev.id > lastId[c] /\ VisibleTo(c, ev.owner)}

\* A replay by exact owner, without the shared events a live stream gets.
ReplayOwnOnly(c) ==
  IF lastId[c] = 0 THEN <<>>
  ELSE Word(c) \o Selected(ring, {ev \in Unseen(c) : ev.owner = UserOf[c]})

\* What subscribe hands the handler to write before the live events.
Replay(c) == IF lastId[c] = 0 THEN <<>> ELSE Word(c) \o Selected(ring, Unseen(c))
------------------------------------------------------------------------------
Init ==
  /\ next = 0 /\ ring = <<>> /\ closed = FALSE
  /\ conn = [c \in Clients |-> Gone]
  /\ lastId = [c \in Clients |-> 0]
  /\ log = <<>>
  /\ pos = [c \in Clients |-> 0]
  /\ told = [c \in Clients |-> FALSE]
  /\ horizon = [c \in Clients |-> 0]
  /\ breaks = 0 /\ restarts = 0

Publish(owner) ==
  /\ ~closed /\ Len(log) < MaxEvents
  /\ LET ev == [id |-> next + 1, owner |-> owner, n |-> Len(log) + 1]
     IN /\ next' = next + 1
        /\ ring' = Pushed(ev)
        /\ conn' = [c \in Clients |-> Offered(c, ev)]
        /\ log' = Append(log, owner)
  /\ UNCHANGED <<closed, lastId, pos, histories, breaks, restarts>>

\* handleEvents up to its loop. A client with no id joins the feed where it is.
Connect(c) ==
  /\ conn[c].sub = "none" /\ ~closed
  /\ conn' = [conn EXCEPT ![c] = [sub |-> "live", out |-> Replay(c), queue |-> <<>>]]
  /\ pos' = [pos EXCEPT ![c] = IF lastId[c] = 0 THEN Len(log) ELSE @]
  /\ horizon' = [horizon EXCEPT ![c] = IF @ > 0 THEN Len(log) ELSE 0]
  /\ UNCHANGED <<next, ring, closed, lastId, log, told, breaks, restarts>>

\* The browser gets a frame, and remembers its id.
Receive(c, f) ==
  /\ lastId' = [lastId EXCEPT ![c] = f.id]
  /\ pos' = [pos EXCEPT ![c] = IF f.n = 0 THEN @ ELSE f.n]
  /\ told' = [told EXCEPT ![c] = f.n = 0]
  /\ horizon' = [horizon EXCEPT ![c] = IF f.n = 0 THEN @ ELSE 0]

WriteReplay(c) ==
  /\ conn[c].out # <<>>
  /\ Receive(c, Head(conn[c].out))
  /\ conn' = [conn EXCEPT ![c].out = Tail(@)]
  /\ UNCHANGED <<next, ring, closed, log, breaks, restarts>>

\* The loop's case of an event; what a dropped subscriber still holds is drained.
WriteLive(c) ==
  /\ conn[c].out = <<>> /\ conn[c].queue # <<>>
  /\ Receive(c, Head(conn[c].queue))
  /\ conn' = [conn EXCEPT ![c].queue = Tail(@)]
  /\ UNCHANGED <<next, ring, closed, log, breaks, restarts>>

\* The loop's case of a closed channel: the server ends the stream.
EndDropped(c) ==
  /\ conn[c].sub = "dropped" /\ conn[c].out = <<>> /\ conn[c].queue = <<>>
  /\ conn' = [conn EXCEPT ![c] = Gone]
  /\ UNCHANGED <<next, ring, closed, lastId, log, pos, histories, breaks, restarts>>

\* The request's context ends, or a write fails.
Break(c) ==
  /\ conn[c].sub # "none" /\ breaks < MaxBreaks
  /\ conn' = [conn EXCEPT ![c] = Gone]
  /\ breaks' = breaks + 1
  /\ UNCHANGED <<next, ring, closed, lastId, log, pos, histories, restarts>>

\* Hub.Close: shutdown ends every stream, and nothing is published from then on.
Close ==
  /\ ~closed /\ restarts < MaxRestarts
  /\ closed' = TRUE
  /\ conn' = [c \in Clients |->
       IF conn[c].sub = "live" THEN [conn[c] EXCEPT !.sub = "dropped"] ELSE conn[c]]
  /\ UNCHANGED <<next, ring, lastId, log, pos, histories, breaks, restarts>>

\* The process is gone and another one serves: its hub starts empty, at id 1.
Restart ==
  /\ restarts < MaxRestarts
  /\ next' = 0 /\ ring' = <<>> /\ closed' = FALSE
  /\ conn' = [c \in Clients |-> Gone]
  /\ horizon' = [c \in Clients |-> IF lastId[c] > 0 THEN Len(log) ELSE 0]
  /\ restarts' = restarts + 1
  /\ UNCHANGED <<lastId, log, pos, told, breaks>>

Next ==
  \/ \E o \in Owners : Publish(o)
  \/ \E c \in Clients :
       Connect(c) \/ WriteReplay(c) \/ WriteLive(c) \/ EndDropped(c) \/ Break(c)
  \/ Close \/ Restart

\* The handler's loop runs and the browser's EventSource reconnects by itself.
Fairness ==
  /\ \A c \in Clients :
       WF_vars(Connect(c)) /\ WF_vars(WriteReplay(c) \/ WriteLive(c) \/ EndDropped(c))
  /\ WF_vars(closed /\ Restart)

HubSpec == Init /\ [][Next]_vars /\ Fairness
------------------------------------------------------------------------------

\* The hub implements the feed: queues that overflow, replays that race with live
\* events and connections that break leave a browser with every event it may see,
\* in order, or with the word that some were missed. A browser that comes back to
\* another process loses what was published before it was back, and nothing after.
Feed == INSTANCE EventFeed WITH joined <- [c \in Clients |-> lastId[c] > 0]

ImplementsFeed == Feed!FeedSpec

\* Every event a browser may see reaches it, or it is told: nobody who has seen one
\* event stays behind for ever on a server that no longer restarts, but for what it
\* missed before it was back.
CaughtUp(c) == \A n \in (pos[c] + 1)..Len(log) : n > horizon[c] => ~VisibleTo(c, log[n])

EventuallyCaughtUp == \A c \in Clients : <>[](CaughtUp(c) \/ told[c])

\* "So the client knows its view has a hole rather than silently believing it is
\* complete" (events.go:178-179): an event is shown only with no other missing before
\* it, or after the word that some are. Not so after a restart: the id the browser
\* brings is ahead of the new process's, whose ring then looks complete to it.
NoSilentGap ==
  [][\A c \in Clients :
       pos'[c] # pos[c] /\ lastId[c] > 0 =>
         told[c] \/ \A n \in (pos[c] + 1)..(pos'[c] - 1) : ~VisibleTo(c, log[n])]_vars
==============================================================================
