------------------------------ MODULE EventFeed ------------------------------
(***************************************************************************)
(* What the one event stream of UsArr promises a browser, whatever becomes   *)
(* of its connection: the events its user may see, in order, each either     *)
(* shown or covered by the word that some were missed.                       *)
(*                                                                          *)
(* log is every event ever published, by owner; pos is how much of it each   *)
(* client has been shown or passed over. A client that has not been shown    *)
(* anything yet joins wherever the feed is. One that was told of a hole may   *)
(* find its next event further on; one that comes back to another process     *)
(* than it left may miss what was published before it was back, no more.      *)
(***************************************************************************)
EXTENDS Naturals, Sequences

CONSTANTS
  Clients,   \* browser tabs
  UserOf,    \* per client, the signed-in user
  Owners,    \* users events are published for
  Shared     \* the owner whose events everybody sees

VARIABLES
  log, pos, joined,
  told,      \* per client, it was told of a hole and has been shown nothing since
  horizon    \* per client, how much of the log a restart may have cost it

feedVars == <<log, pos, joined, told, horizon>>

VisibleTo(c, owner) == owner = UserOf[c] \/ owner = Shared

\* The events c may see that are behind k and that c has not been shown.
Due(c, k) == {n \in (pos[c] + 1)..k : VisibleTo(c, log[n])}
------------------------------------------------------------------------------
FeedInit ==
  /\ log = <<>>
  /\ pos = [c \in Clients |-> 0]
  /\ joined = [c \in Clients |-> FALSE]
  /\ told = [c \in Clients |-> FALSE]
  /\ horizon = [c \in Clients |-> 0]

Append1 ==
  /\ \E o \in Owners : log' = Append(log, o)
  /\ UNCHANGED <<pos, joined, told, horizon>>

Join(c) ==
  /\ ~joined[c]
  /\ pos' = [pos EXCEPT ![c] = Len(log)]
  /\ UNCHANGED <<log, joined, told, horizon>>

Show(c) ==
  /\ \E n \in Due(c, Len(log)) :
       /\ told[c] \/ \A m \in Due(c, n - 1) : m =< horizon[c]
       /\ pos' = [pos EXCEPT ![c] = n]
  /\ joined' = [joined EXCEPT ![c] = TRUE]
  /\ told' = [told EXCEPT ![c] = FALSE]
  /\ horizon' = [horizon EXCEPT ![c] = 0]
  /\ UNCHANGED log

TellOfHole(c) ==
  /\ joined[c]
  /\ told' = [told EXCEPT ![c] = TRUE]
  /\ UNCHANGED <<log, pos, joined, horizon>>

ServerRestarts ==
  /\ horizon' = [c \in Clients |-> IF joined[c] THEN Len(log) ELSE 0]
  /\ UNCHANGED <<log, pos, joined, told>>

\* A client that the process behind it has shown nothing yet comes back to it.
ComeBack(c) ==
  /\ horizon[c] > 0
  /\ horizon' = [horizon EXCEPT ![c] = Len(log)]
  /\ UNCHANGED <<log, pos, joined, told>>

FeedNext ==
  \/ Append1 \/ ServerRestarts
  \/ \E c \in Clients : Join(c) \/ Show(c) \/ TellOfHole(c) \/ ComeBack(c)

FeedSpec == FeedInit /\ [][FeedNext]_feedVars
==============================================================================
