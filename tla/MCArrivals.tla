------------------------------ MODULE MCArrivals ------------------------------
(* Two libraries, three books in one and one in the other, pages of two.         *)
EXTENDS Arrivals, TLC

CONSTANTS b1, b2, b3, b4, lA, lB, none

MCLibOf == b1 :> lA @@ b2 :> lA @@ b3 :> lA @@ b4 :> lB
MCId == b1 :> 1 @@ b2 :> 2 @@ b3 :> 3 @@ b4 :> 4
==============================================================================
