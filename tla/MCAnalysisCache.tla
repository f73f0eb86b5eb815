-------------------------- MODULE MCAnalysisCache --------------------------
(***************************************************************************)
(* A small instance of AnalysisCache: rebuilds always produce new bytes,   *)
(* the first two of the three contents with one length and time.           *)
(***************************************************************************)
EXTENDS AnalysisCache, TLC

Fresh(v) == {u \in Versions : u > v}
LengthAndTime(v) == IF v <= 2 THEN 1 ELSE 2
Symmetry == Permutations(Procs)
=============================================================================
