------------------------------- MODULE Orders -------------------------------
(***************************************************************************)
(* The order in which a set of numbers is listed: by a BTreeMap, or by a   *)
(* vector that was filled in index order.                                  *)
(***************************************************************************)
EXTENDS Naturals, FiniteSets, Functions

Ascending(S) ==
  {order \in [1..Cardinality(S) -> S] :
     /\ Range(order) = S
     /\ \A i, j \in 1..Cardinality(S) : i < j => order[i] < order[j]}
=============================================================================
