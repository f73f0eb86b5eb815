------------------------------ MODULE MCBudget ------------------------------
(***************************************************************************)
(* A small instance of Budget: u64 is two bits wide, so that counters    *)
(* reach their width.                                                      *)
(***************************************************************************)
EXTENDS Budget, TLC

\* card and slice pass any of the three, --all a deadline only.
MCLimits ==
  {[decode |-> None, ssa |-> None, deadline |-> 1],
   [decode |-> 1, ssa |-> 2, deadline |-> None],
   [decode |-> None, ssa |-> 0, deadline |-> 2]}
=============================================================================
