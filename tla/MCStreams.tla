------------------------------- MODULE MCStreams -------------------------------
(* One of three protocols of the server besides importing:                       *)
(*  - events: two tabs of two users, over a ring of two events and queues of one; *)
(*  - searches: two indexers of different priority that may bring the same       *)
(*    releases, one leg at a time, a channel of one event, two searches one      *)
(*    after the other;                                                           *)
(*  - keys: two rows in pages of one, two rotations over three keys, and a       *)
(*    server with one request between its read and its write.                    *)
EXTENDS EventHub, Search, Credentials, TLC

CONSTANTS tab1, tab2, alice, bob, system, g1, s1, here, r1

MCUserOf == tab1 :> alice @@ tab2 :> bob
MCPriorityOf == 1 :> 10 @@ 2 :> 5

VARIABLE part   \* which of the three

MCVars == <<part, vars, searchVars, credentialsVars>>

MCInit ==
  /\ part \in {"events", "searches", "keys"}
  /\ Init /\ SearchesInit
  /\ CredentialsInit /\ (part # "keys" => row = [i \in Rows |-> NoRow])

MCNext ==
  /\ UNCHANGED part
  /\ \/ part = "events" /\ Next /\ UNCHANGED <<searchVars, credentialsVars>>
     \/ part = "searches" /\ SearchesNext /\ UNCHANGED <<vars, credentialsVars>>
     \/ part = "keys" /\ CredentialsNext /\ UNCHANGED <<vars, searchVars>>

\* The fairness of each. Only a connection could be asked for in a part that is not the
\* run's: there no event is under way, no search has begun and no key is pending.
MCSpec ==
  /\ MCInit /\ [][MCNext]_MCVars
  /\ \A c \in Clients :
       /\ WF_vars(part = "events" /\ Connect(c))
       /\ WF_vars(WriteReplay(c) \/ WriteLive(c) \/ EndDropped(c))
  /\ WF_vars(closed /\ Restart)
  /\ SearchFairness /\ CredentialsFairness
==============================================================================
