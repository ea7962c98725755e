------------------------------ MODULE MCPasses -------------------------------
(* A Kavita with a comic series and a book, a BookOrbit with a book that is the  *)
(* Kavita's or another; a file on each side, one cover permit, two widths.                   *)
EXTENDS Passes, TLC

CONSTANTS kavita, bookorbit, k1, k2, o1, fk, fo, open, closed, name

MCWalk == kavita :> <<k1, k2>> @@ bookorbit :> <<o1>>
MCCards ==
  k1 :> [work : {1}, meta : {open, closed}]
  @@ k2 :> [work : {2}, meta : {open}]
  @@ o1 :> [work : {2, 3}, meta : {open}]
MCKeeper == fk :> kavita @@ fo :> bookorbit
MCWidths == <<200, 500>>
MCTotalOf == open :> 0 @@ closed :> 3
MCNamesOf == open :> {name} @@ closed :> {}
MCFirstShelf ==
  [i \in Items |-> [work |-> IF i = k1 THEN 1 ELSE 2, meta |-> open]]
MCFirstOwner == fk :> k1 @@ fo :> o1
==============================================================================
