------------------------------ MODULE MCLedger ------------------------------
(***************************************************************************)
(* Small instances of Ledger.                                              *)
(***************************************************************************)
EXTENDS Ledger

\* One exported investigation with two revisions.
TwoRevisions == {<<<<"bundle", 1>>, <<"bundle", 2>>>>}
=============================================================================
