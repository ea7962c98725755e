------------------------------ MODULE MCEventHub ------------------------------
(* Two tabs of two users over a ring of two events and queues of one.             *)
EXTENDS EventHub, TLC

CONSTANTS tab1, tab2, alice, bob, system

MCUserOf == tab1 :> alice @@ tab2 :> bob
==============================================================================
