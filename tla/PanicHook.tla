------------------------------ MODULE PanicHook ------------------------------
(***************************************************************************)
(* The process-wide panic hook while the folding pass of                   *)
(* rsleigh-decompile/src/fold.rs silences it around equality saturation.   *)
(* Each thread of for_each_ordered folds one function at a time; work()    *)
(* inside the loop may cancel the function and unwind past the statement   *)
(* that puts the hook back.                                                *)
(***************************************************************************)
EXTENDS Naturals

CONSTANTS Threads,      \* threads that fold
          Deadline      \* TRUE when a limit can cancel a function

VARIABLES hook,         \* the registered hook: "default" or "silent"
          pc,           \* where each thread is
          prev          \* prev_hook of each thread

vars == <<hook, pc, prev>>

Init ==
  /\ hook = "default"
  /\ pc = [t \in Threads |-> "outside"]
  /\ prev = [t \in Threads |-> "default"]

\* take_hook: the default hook is registered and the old one returned.
TakeHook(t) ==
  /\ pc[t] = "outside"
  /\ prev' = [prev EXCEPT ![t] = hook]
  /\ hook' = "default"
  /\ pc' = [pc EXCEPT ![t] = "taken"]

SilenceHook(t) ==
  /\ pc[t] = "taken"
  /\ hook' = "silent"
  /\ pc' = [pc EXCEPT ![t] = "eqsat"]
  /\ UNCHANGED prev

\* budget::work("fold", 1) unwinds out of the loop.
Cancelled(t) ==
  /\ Deadline /\ pc[t] = "eqsat"
  /\ pc' = [pc EXCEPT ![t] = "outside"]
  /\ UNCHANGED <<hook, prev>>

\* The loop over the variables is done: set_hook(prev_hook).
RestoreHook(t) ==
  /\ pc[t] = "eqsat"
  /\ hook' = prev[t]
  /\ pc' = [pc EXCEPT ![t] = "outside"]
  /\ UNCHANGED prev

Next == \E t \in Threads : TakeHook(t) \/ SilenceHook(t) \/ Cancelled(t) \/ RestoreHook(t)

Spec == Init /\ [][Next]_vars

\* "Suppress panic messages during eqsat": outside of it, a panic's message
\* is printed.
SilentOnlyDuringEqsat == (\A t \in Threads : pc[t] = "outside") => hook = "default"
=============================================================================
