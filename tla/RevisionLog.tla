---------------------------- MODULE RevisionLog ----------------------------
(***************************************************************************)
(* What an investigation ledger promises its users: one history, to which  *)
(* accepted changes are appended one at a time and each at most once, and  *)
(* from which nothing is ever removed.                                     *)
(***************************************************************************)
EXTENDS Sequences

CONSTANT Changes        \* the changes somebody may ask for

VARIABLE log            \* the accepted changes, oldest first

LInit == log = <<>>

LAppend(c) ==
  /\ \A i \in DOMAIN log : log[i] # c
  /\ log' = Append(log, c)

LSpec == LInit /\ [][\E c \in Changes : LAppend(c)]_log
=============================================================================
