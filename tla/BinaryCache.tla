----------------------------- MODULE BinaryCache -----------------------------
(***************************************************************************)
(* Whole-binary results computed once and shared by every worker           *)
(* (src/rsleigh-decompile/src/binary_cache.rs): one slot per cache, for    *)
(* the most recent key, behind a mutex that is held while a missing value  *)
(* is computed.  A file is identified by path, length and modification     *)
(* time, read before the lock is taken; the parse reads the file later.    *)
(*                                                                         *)
(* A file version is a number.  Two versions may share a stamp (the length *)
(* and modification time), which the key cannot tell apart.                *)
(***************************************************************************)
EXTENDS Naturals, FiniteSets

CONSTANTS
    Threads,      \* the decompile workers of one process
    Paths,        \* the binaries they ask about
    MaxVersions,  \* bound of the model: how often a file is replaced
    MaxGets       \* bound of the model: requests per worker

ASSUME BinaryCacheAssumption == MaxVersions \in Nat /\ MaxGets \in Nat

VARIABLES
    version,  \* the version of each file on disk
    stamp,    \* what metadata() reports for it
    since,    \* ghost: the first version of each path that had the stamp
    slot,     \* the cached key and value, or none
    holder,   \* who holds the mutex
    worker,   \* per thread: [at, path, stamp, since, value]
    gets      \* requests made so far, per thread

cvars == <<version, stamp, since, slot, holder, worker, gets>>

Nobody == "nobody"
NoEntry == [path |-> Nobody, stamp |-> 0, value |-> 0]
Fresh == [at |-> "idle", path |-> Nobody, stamp |-> 0, since |-> 0, value |-> 0]

CInit ==
    /\ version = [p \in Paths |-> 1]
    /\ stamp = [p \in Paths |-> 1]
    /\ since = [p \in Paths |-> 1]
    /\ slot = NoEntry
    /\ holder = Nobody
    /\ worker = [t \in Threads |-> Fresh]
    /\ gets = [t \in Threads |-> 0]

\* The file is replaced, with a new length or modification time or with the
\* same ones.
Replace(p, same) ==
    /\ version[p] < MaxVersions
    /\ version' = [version EXCEPT ![p] = @ + 1]
    /\ stamp' = [stamp EXCEPT ![p] = IF same THEN @ ELSE @ + 1]
    /\ since' = [since EXCEPT ![p] = IF same THEN @ ELSE version[p] + 1]
    /\ UNCHANGED <<slot, holder, worker, gets>>

\* Key::file: metadata() before anything is locked.
ReadKey(t, p) ==
    /\ worker[t].at = "idle" /\ gets[t] < MaxGets
    /\ worker' = [worker EXCEPT ![t] = [Fresh EXCEPT !.at = "wait", !.path = p,
                                        !.stamp = stamp[p], !.since = since[p]]]
    /\ gets' = [gets EXCEPT ![t] = @ + 1]
    /\ UNCHANGED <<version, stamp, since, slot, holder>>

\* Key::file gives None: cached() computes without the cache.
Uncached(t, p) ==
    /\ worker[t].at = "idle" /\ gets[t] < MaxGets
    /\ worker' = [worker EXCEPT ![t] = [Fresh EXCEPT !.at = "done", !.path = p,
                                        !.since = version[p], !.value = version[p]]]
    /\ gets' = [gets EXCEPT ![t] = @ + 1]
    /\ UNCHANGED <<version, stamp, since, slot, holder>>

\* Variant of Matches: the path alone identifies the binary.
PathOnly(t) == slot.path = worker[t].path

Matches(t) == slot.path = worker[t].path /\ slot.stamp = worker[t].stamp

\* lock(): a poisoned mutex is taken like any other.
Lock(t) ==
    /\ worker[t].at = "wait" /\ holder = Nobody
    /\ IF Matches(t)
       THEN /\ worker' = [worker EXCEPT ![t].at = "done", ![t].value = slot.value]
            /\ UNCHANGED holder
       ELSE /\ worker' = [worker EXCEPT ![t].at = "compute"]
            /\ holder' = t
    /\ UNCHANGED <<version, stamp, since, slot, gets>>

\* compute() reads the file as it is now; the result enters the slot under the
\* key that was read before, and the guard is dropped.
Compute(t) ==
    /\ worker[t].at = "compute"
    /\ LET value == version[worker[t].path] IN
       /\ slot' = [path |-> worker[t].path, stamp |-> worker[t].stamp, value |-> value]
       /\ worker' = [worker EXCEPT ![t].at = "done", ![t].value = value]
    /\ holder' = Nobody
    /\ UNCHANGED <<version, stamp, since, gets>>

\* Variant of Unwind: the mutex is never released.
UnwindKeepsLock(t) ==
    /\ worker[t].at = "compute"
    /\ worker' = [worker EXCEPT ![t] = Fresh]
    /\ UNCHANGED <<version, stamp, since, slot, holder, gets>>

\* compute() panics, or the execution budget unwinds it: the mutex is released
\* poisoned and the slot is as it was.
Unwind(t) ==
    /\ worker[t].at = "compute"
    /\ worker' = [worker EXCEPT ![t] = Fresh]
    /\ holder' = Nobody
    /\ UNCHANGED <<version, stamp, since, slot, gets>>

\* The worker uses the value and comes back with another request.
Use(t) ==
    /\ worker[t].at = "done"
    /\ worker' = [worker EXCEPT ![t] = Fresh]
    /\ UNCHANGED <<version, stamp, since, slot, holder, gets>>

WorkerMove(t) == Lock(t) \/ Compute(t) \/ Unwind(t)

CNext ==
    \/ \E p \in Paths, same \in BOOLEAN : Replace(p, same)
    \/ \E t \in Threads, p \in Paths : ReadKey(t, p) \/ Uncached(t, p)
    \/ \E t \in Threads : WorkerMove(t) \/ Use(t)

CFairness == \A t \in Threads : WF_cvars(WorkerMove(t))
CSpec == CInit /\ [][CNext]_cvars /\ CFairness

-----------------------------------------------------------------------------
\* A worker never gets a value older than the binary its key describes: not when
\* the file is replaced between the key and the parse, not from a computation
\* that unwound while it held the lock, not from another worker's key.  Only
\* versions with the same length and modification time are confused.
NeverOlder ==
    /\ \A t \in Threads : worker[t].at = "done" =>
          worker[t].value \in worker[t].since .. version[worker[t].path]
    /\ slot # NoEntry => slot.value \in slot.stamp .. version[slot.path]

\* A worker that asks gets its answer or unwinds itself: one that panics while
\* it computes does not leave the others waiting.
EveryGetEnds == \A t \in Threads : worker[t].at = "wait" ~> worker[t].at # "wait"
=============================================================================
