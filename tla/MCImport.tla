------------------------------- MODULE MCImport -------------------------------
(* The catalogue, in one part of the run, under any transactions of two           *)
(* instances: b1 is matched to one strong identifier or the other and may carry a  *)
(* weak one beside it; b2 is a comic issue nobody has matched, or a book that      *)
(* claims both identifiers.  In the other, under the imports of a BookOrbit: two   *)
(* libraries and three books in them, a prose book with an identifier and two      *)
(* issues of one comic series; pages of two rows, batches of two.                  *)
EXTENDS FullImport, TLC

CONSTANTS kavita, audiobookshelf, bookorbit, b1, b2, b3, s1, noRef, cA, cB, x, y, weak

MCId == b1 :> 1 @@ b2 :> 2 @@ b3 :> 3

MCCard ==
  b1 :> [kind |-> "book", ids |-> <<x>>, parent |-> noRef]
  @@ b2 :> [kind |-> "comic_issue", ids |-> <<>>, parent |-> s1]
  @@ b3 :> [kind |-> "comic_issue", ids |-> <<>>, parent |-> s1]

MCListing == <<cA, cB>>

MCElsewhere ==
  [ref : {b1}, kind : {"book"}, ids : {<<x>>, <<y>>, <<weak, x>>},
   container : {cA}, parent : {noRef}]
  \cup
  {[ref |-> b2, kind |-> "book", ids |-> <<x, y>>, container |-> cB, parent |-> noRef],
   [ref |-> b2, kind |-> "comic_issue", ids |-> <<>>, container |-> cB, parent |-> s1]}

MCItems == MCElsewhere \cup {ItemOf(b, c) : b \in Books, c \in Containers}

VARIABLE part

MCVars == <<part, importVars>>

MCInit ==
  /\ part \in {"transactions", "imports"}
  /\ ImportInit
  /\ part = "transactions" => \A b \in Books : place[b] = Nowhere

\* A transaction of another instance than BookOrbit's, of its items.
Elsewhere ==
  /\ \E i \in Instances \ {Inst} :
       \/ \E it \in MCElsewhere : ApplyCatalogueBatch(i, it)
       \/ \E seen0 \in SUBSET (Refs \ {b3}), observed \in SUBSET Containers :
            SweepDeletions(i, seen0, observed)
  /\ Len(db'.works) =< 3

MCNext ==
  /\ UNCHANGED part
  /\ \/ part = "transactions" /\ Elsewhere /\ UNCHANGED <<upstream, walk, history, disturbances>>
     \/ part = "imports" /\ ImportNext

MCSpec == MCInit /\ [][MCNext]_MCVars /\ WF_importVars(part = "imports" /\ Import)
==============================================================================
