----------------------------- MODULE OrderedPool -----------------------------
(***************************************************************************)
(* for_each_ordered of rsleigh-cli/src/cli.rs with two or more jobs: the   *)
(* worker threads of `rsleigh FILE --all` claim indices from one atomic    *)
(* counter, send (index, value) through an mpsc channel, and the calling   *)
(* thread hands the values to emit in index order.  A job's value is what  *)
(* within_fn_timeout made of it; a panic outside that boundary (pass 1     *)
(* decodes before it) kills the worker, and a panic of emit (stdout is     *)
(* gone) drops the receiver.                                               *)
(***************************************************************************)
EXTENDS Naturals, Sequences, FiniteSets

CONSTANTS Count,        \* count: the number of indices
          Workers,      \* the jobs.min(count) threads
          Results,      \* values a job may return
          None          \* no value yet

ASSUME CountAssumption == Count \in Nat /\ Workers # {} /\ None \notin Results

VARIABLES next,         \* AtomicUsize: the next index to claim
          worker,       \* what each thread is doing
          channel,      \* messages sent and not yet received
          receiver,     \* the receiving end exists
          pending,      \* values received ahead of their turn
          want,         \* the next index to emit
          main,         \* what the calling thread is doing
          emitted,      \* what emit was called with so far
          result        \* history: what job(i) returned

vars == <<next, worker, channel, receiver, pending, want, main, emitted, result>>

Indices == 0..(Count - 1)
Message == [idx : Indices, val : Results]
Simple(pc) == [pc |-> pc]
Running(i) == [pc |-> "job", idx |-> i]
Gone(w) == worker[w].pc \in {"exited", "died"}
Live(w) == ~Gone(w) /\ worker[w].pc # "unborn"

Init ==
  /\ next = 0
  /\ worker = [w \in Workers |-> Simple("unborn")]
  /\ channel = <<>>
  /\ receiver = TRUE
  /\ pending = [i \in Indices |-> None]
  /\ want = 0
  /\ main = "spawn"
  /\ emitted = <<>>
  /\ result = [i \in Indices |-> None]

---------------------------------------------------------------------------
(* The scope's closure, on the calling thread *)

Spawn(w) ==
  /\ main = "spawn" /\ worker[w].pc = "unborn"
  /\ worker' = [worker EXCEPT ![w] = Simple("claim")]
  /\ UNCHANGED <<next, channel, receiver, pending, want, main, emitted, result>>

\* expect("spawn decompile worker"): the closure unwinds, dropping both ends.
SpawnFails ==
  /\ main = "spawn" /\ \E w \in Workers : worker[w].pc = "unborn"
  /\ receiver' = FALSE
  /\ main' = "unwinding"
  /\ UNCHANGED <<next, worker, channel, pending, want, emitted, result>>

\* drop(send): from here on only the workers hold senders.
DropSend ==
  /\ main = "spawn" /\ \A w \in Workers : worker[w].pc # "unborn"
  /\ main' = "recv"
  /\ UNCHANGED <<next, worker, channel, receiver, pending, want, emitted, result>>

\* One iteration of the for loop over the receiver starts.
Receive ==
  /\ main = "recv" /\ channel # <<>>
  /\ pending' = [pending EXCEPT ![Head(channel).idx] = Head(channel).val]
  /\ channel' = Tail(channel)
  /\ main' = "drain"
  /\ UNCHANGED <<next, worker, receiver, want, emitted, result>>

HasNext == want < Count /\ pending[want] # None

\* Variant: the smallest index that is pending is taken for the next one.
EmitSmallest ==
  /\ main = "drain" /\ want < Count
  /\ \E i \in Indices :
       /\ pending[i] # None /\ \A j \in Indices : pending[j] # None => i <= j
       /\ emitted' = Append(emitted, [idx |-> want, val |-> pending[i]])
       /\ pending' = [pending EXCEPT ![i] = None]
  /\ want' = want + 1
  /\ UNCHANGED <<next, worker, channel, receiver, main, result>>

\* while let Some(value) = pending.remove(&want): emit(want, value).
Emit ==
  /\ main = "drain" /\ HasNext
  /\ emitted' = Append(emitted, [idx |-> want, val |-> pending[want]])
  /\ pending' = [pending EXCEPT ![want] = None]
  /\ want' = want + 1
  /\ UNCHANGED <<next, worker, channel, receiver, main, result>>

\* emit panics after the value left pending: the loop's receiver is dropped.
EmitPanics ==
  /\ main = "drain" /\ HasNext
  /\ pending' = [pending EXCEPT ![want] = None]
  /\ receiver' = FALSE
  /\ main' = "unwinding"
  /\ UNCHANGED <<next, worker, channel, want, emitted, result>>

\* Variant: one value per message received.
DrainOnce ==
  /\ main = "drain" /\ (HasNext => Len(emitted) > 0)
  /\ main' = "recv"
  /\ UNCHANGED <<next, worker, channel, receiver, pending, want, emitted, result>>

Drained ==
  /\ main = "drain" /\ ~HasNext
  /\ main' = "recv"
  /\ UNCHANGED <<next, worker, channel, receiver, pending, want, emitted, result>>

\* Variant: the calling thread keeps its own sender.
DisconnectNever ==
  /\ FALSE
  /\ UNCHANGED vars

\* The last sender is gone and the channel is empty: the for loop ends.
Disconnect ==
  /\ main = "recv" /\ channel = <<>> /\ \A w \in Workers : Gone(w)
  /\ receiver' = FALSE
  /\ main' = "join"
  /\ UNCHANGED <<next, worker, channel, pending, want, emitted, result>>

\* thread::scope joins every thread, then passes a panic on: the closure's
\* own, or "a scoped thread panicked".
Join ==
  /\ main \in {"join", "unwinding"} /\ \A w \in Workers : ~Live(w)
  /\ main' = IF main = "join" /\ \A w \in Workers : worker[w].pc # "died"
               THEN "returned" ELSE "panicked"
  /\ UNCHANGED <<next, worker, channel, receiver, pending, want, emitted, result>>

---------------------------------------------------------------------------
(* A worker thread *)

\* Variant: load and store instead of fetch_add, another worker in between.
ClaimRacy(w) ==
  /\ worker[w].pc = "claim"
  /\ next' \in {next, next + 1}
  /\ worker' = [worker EXCEPT ![w] = IF next >= Count THEN Simple("exited") ELSE Running(next)]
  /\ UNCHANGED <<channel, receiver, pending, want, main, emitted, result>>

\* Variant: the counter is bumped before it is read.
ClaimSkipsFirst(w) ==
  /\ worker[w].pc = "claim"
  /\ next' = next + 1
  /\ worker' = [worker EXCEPT ![w] =
       IF next + 1 >= Count THEN Simple("exited") ELSE Running(next + 1)]
  /\ UNCHANGED <<channel, receiver, pending, want, main, emitted, result>>

\* next.fetch_add(1); past the end, the worker leaves the loop.
Claim(w) ==
  /\ worker[w].pc = "claim"
  /\ next' = next + 1
  /\ worker' = [worker EXCEPT ![w] = IF next >= Count THEN Simple("exited") ELSE Running(next)]
  /\ UNCHANGED <<channel, receiver, pending, want, main, emitted, result>>

\* job(i) returns and its value is sent; without a receiver send fails and
\* the worker leaves the loop.
Finish(w, v) ==
  /\ worker[w].pc = "job"
  /\ result' = [result EXCEPT ![worker[w].idx] = v]
  /\ channel' = IF receiver THEN Append(channel, [idx |-> worker[w].idx, val |-> v]) ELSE channel
  /\ worker' = [worker EXCEPT ![w] = Simple(IF receiver THEN "claim" ELSE "exited")]
  /\ UNCHANGED <<next, receiver, pending, want, main, emitted>>

\* job(i) panics outside within_fn_timeout: the thread unwinds.
JobPanics(w) ==
  /\ worker[w].pc = "job"
  /\ worker' = [worker EXCEPT ![w] = Simple("died")]
  /\ UNCHANGED <<next, channel, receiver, pending, want, main, emitted, result>>

---------------------------------------------------------------------------
WorkerStep(w) == Claim(w) \/ (\E v \in Results : Finish(w, v)) \/ JobPanics(w)
MainStep ==
  \/ \E w \in Workers : Spawn(w)
  \/ SpawnFails \/ DropSend
  \/ Receive \/ Emit \/ EmitPanics \/ Drained \/ Disconnect \/ Join

Next == MainStep \/ \E w \in Workers : WorkerStep(w)

Spec == Init /\ [][Next]_vars

\* Threads are scheduled, and every job ends: within_fn_timeout stops it at
\* a budget checkpoint at the latest.
FairSpec == Spec /\ WF_vars(MainStep) /\ \A w \in Workers : WF_vars(WorkerStep(w))

Ended == main \in {"returned", "panicked"}

---------------------------------------------------------------------------
WorkerStates == {Simple(pc) : pc \in {"unborn", "claim", "exited", "died"}}
                  \cup {Running(i) : i \in Indices}

TypeOK ==
  /\ next \in Nat
  /\ worker \in [Workers -> WorkerStates]
  /\ channel \in Seq(Message)
  /\ receiver \in BOOLEAN
  /\ pending \in [Indices -> Results \cup {None}]
  /\ want \in 0..Count
  /\ main \in {"spawn", "recv", "drain", "unwinding", "join", "returned", "panicked"}
  /\ emitted \in Seq(Message)
  /\ result \in [Indices -> Results \cup {None}]

\* emit sees, in index order, the value each job returned, whichever worker
\* ran it and in whatever order the jobs finished.
EmittedInOrder ==
  /\ Len(emitted) = want
  /\ \A k \in 1..Len(emitted) : emitted[k].idx = k - 1 /\ emitted[k].val = result[k - 1]

\* If for_each_ordered returns, every index was emitted: a worker's death
\* never makes it return normally with results missing.
ReturnedComplete == main = "returned" => Len(emitted) = Count

\* "As soon as all earlier indices are done": the calling thread never blocks
\* on an empty channel while the value it waits for has been computed.
NeverBlocksOnReady ==
  main = "recv" /\ channel = <<>> /\ want < Count => result[want] = None

\* for_each_ordered returns or panics, whatever dies on the way.
PoolEnds == <>Ended

---------------------------------------------------------------------------
Promise == INSTANCE OrderedLoop WITH
  job <- result,
  out <- emitted,
  ended <- IF Ended THEN main ELSE "no"

\* With any number of workers, for_each_ordered calls each job once and emit
\* with the arguments the loop of a single thread gives it, in that loop's
\* order: (0, job(0)), (1, job(1)), ..., whichever jobs finished first.
Implements == Promise!LoopSpec
=============================================================================
