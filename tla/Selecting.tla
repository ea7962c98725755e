------------------------------ MODULE Selecting ------------------------------
(* What a loop that passes over some entries of a sequence leaves, and what an   *)
(* ORDER BY makes of a set of rows.                                             *)
EXTENDS Naturals, Sequences, FiniteSets

\* The members of a set in an order: the n-th is the one that n - 1 come before.
Sorted(S, Before(_, _)) ==
  [n \in 1 .. Cardinality(S) |->
     CHOOSE x \in S : Cardinality({y \in S : Before(y, x)}) = n - 1]

\* The entries of a sequence that are in a set, in their order.
Selected(s, S) ==
  LET chosen[k \in 0 .. Len(s)] ==
        IF k = 0 THEN <<>>
        ELSE IF s[k] \in S THEN Append(chosen[k - 1], s[k])
        ELSE chosen[k - 1]
  IN  chosen[Len(s)]
==============================================================================
