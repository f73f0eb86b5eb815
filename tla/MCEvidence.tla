----------------------------- MODULE MCEvidence -----------------------------
(***************************************************************************)
(* The evidence stores and the document of one investigation, one or the   *)
(* other active: Evidence takes what an investigation cites as a set,      *)
(* Investigation what its store holds.                                     *)
(*                                                                         *)
(* Record 1 sorts first and was derived from record 2, which was derived   *)
(* from record 3, so an import copies records before the ones they refer   *)
(* to.                                                                     *)
(***************************************************************************)
EXTENDS Evidence, MCInvestigation, TLC

Symmetry == Permutations(Procs) \cup Permutations(Stores) \cup Permutations(Texts)

ChainOfThree == <<{2}, {3}, {}>>

EIdle ==
  /\ disk = [s \in Stores |-> [id \in Ids |-> None]] /\ cited = [s \in Stores |-> None]
  /\ bundle = None /\ proc = [p \in Procs |-> Idle] /\ ops = MaxOps /\ halfway = {}

DIdle ==
  /\ \E text \in Texts : doc = [Created(text, {}) EXCEPT !.revision = 0, !.history = <<>>]
  /\ held = {}

MCInit == (Init /\ DIdle) \/ (DInit /\ EIdle)
MCNext == (Next /\ UNCHANGED dvars) \/ (DNext /\ doc.revision > 0 /\ UNCHANGED vars)
MCSpec == MCInit /\ [][MCNext]_<<vars, dvars>>
=============================================================================
