----------------------------- MODULE OrderedLoop -----------------------------
(***************************************************************************)
(* What for_each_ordered (rsleigh-cli/src/cli.rs) promises: every index is *)
(* run once, and emit is given (0, job(0)), (1, job(1)), ... as the loop   *)
(* of --jobs 1 gives them; only the jobs may run ahead of their turn.  A   *)
(* panic of a job or of emit ends the loop early.                          *)
(***************************************************************************)
EXTENDS Naturals, Sequences

CONSTANTS Count,        \* number of indices
          Results,      \* what a job can return
          None          \* the job has not returned

VARIABLES job,          \* what job(i) returned
          out,          \* what emit was called with, in order
          ended         \* "no", "returned" or "panicked"

LoopInit ==
  /\ job = [i \in 0..(Count - 1) |-> None]
  /\ out = <<>>
  /\ ended = "no"

\* job(i), which is called once.
RunJob(i) ==
  /\ ended = "no" /\ job[i] = None
  /\ \E v \in Results : job' = [job EXCEPT ![i] = v]
  /\ UNCHANGED <<out, ended>>

\* emit(i, job(i)) for the next index.
Step ==
  /\ ended = "no" /\ Len(out) < Count /\ job[Len(out)] # None
  /\ out' = Append(out, [idx |-> Len(out), val |-> job[Len(out)]])
  /\ UNCHANGED <<job, ended>>

Return ==
  /\ ended = "no" /\ Len(out) = Count
  /\ ended' = "returned"
  /\ UNCHANGED <<job, out>>

Panic ==
  /\ ended = "no"
  /\ ended' = "panicked"
  /\ UNCHANGED <<job, out>>

LoopNext == (\E i \in 0..(Count - 1) : RunJob(i)) \/ Step \/ Return \/ Panic

LoopSpec == LoopInit /\ [][LoopNext]_<<job, out, ended>>
=============================================================================
