----------------------------- MODULE Provenance -----------------------------
(***************************************************************************)
(* Bounded instruction evidence kept across SSA transformations            *)
(* (src/rsleigh-decompile/src/provenance.rs).  Every SSA variable carries  *)
(* the operations that contributed to its value, at most MAX_ORIGINS of    *)
(* them, and a flag saying that some were left out.  Definitions and       *)
(* rewrites merge what their inputs hold at that moment; propagate() then  *)
(* resolves forward references and cycles with a FIFO worklist that stops  *)
(* at a work ceiling and flags everything that might still have changed.   *)
(*                                                                         *)
(* An operation origin is a number: only the order of origins matters.     *)
(* The sorted, duplicate-free vector of origins is the set of its members. *)
(***************************************************************************)
EXTENDS Naturals, FiniteSets, Sequences, SequencesExt, Orders

CONSTANTS
    Lowerings,   \* the functions to lower: sequences of [own, refs], the
                 \* origin and the inputs of each definition
    MaxOrigins,  \* MAX_ORIGINS
    WorkFactor,  \* visits per variable: MAX_ORIGINS + 2 in the code
    MaxRewrites, \* bound of the model: rewrites of one behaviour
    MaxRefs      \* bound of the model: inputs of a rewritten expression

ASSUME ProvenanceAssumption ==
    /\ MaxOrigins \in Nat /\ WorkFactor \in Nat
    /\ MaxRewrites \in Nat /\ MaxRefs \in Nat
    /\ Lowerings \subseteq Seq([own : SUBSET Nat, refs : SUBSET Nat])
    /\ \A f \in Lowerings : \A i \in 1 .. Len(f) :
          /\ IsFiniteSet(f[i].own) /\ Cardinality(f[i].own) <= 1
          /\ f[i].refs \subseteq 0 .. i - 2

VARIABLES
    function,    \* the function being lowered
    pcount,      \* vars.len()
    inputs,      \* collect_expr_refs(vars[i].expr), as a set of indices
    owed,        \* ghost: what the inputs of i held when they were replaced
    operations,  \* vars[i].origins.operations
    truncated,   \* vars[i].origins.truncated
    pphase,      \* "edit", "work" (the worklist), "mark" (the closure walk)
    queue,       \* VecDeque of indices
    pwork,       \* work
    marked,      \* marked
    rewrites     \* rewrites so far (bound of the model)

pvars == <<function, pcount, inputs, owed, operations, truncated, pphase, queue,
           pwork, marked, rewrites>>

Vars == 0 .. Len(function) - 1
Source(i) == function[i + 1].own
Defined == 0 .. pcount - 1

\* A vector of origins that stays sorted and within MAX_ORIGINS keeps the
\* smallest members: what insert() pops is always the largest.
Smallest(S) == {o \in S : Cardinality({p \in S : p < o}) < MaxOrigins}

\* Variant of MergeInputs: the flag describes the last merge only.
MergeForgetsFlag(ops, cut, S) ==
    LET all == ops \cup UNION {operations[i] : i \in S}
    IN  [ops |-> Smallest(all),
         cut |-> Cardinality(all) > MaxOrigins \/ \E i \in S : truncated[i]]

\* merge() of the origins of every variable in S into the record
\* [ops, cut]: each insertion beyond MAX_ORIGINS sets the flag, and so does a
\* flag of an input.
MergeInputs(ops, cut, S) ==
    LET all == ops \cup UNION {operations[i] : i \in S}
    IN  [ops |-> Smallest(all),
         cut |-> cut \/ Cardinality(all) > MaxOrigins \/ \E i \in S : truncated[i]]

PInit ==
    /\ function \in Lowerings
    /\ pcount = 0
    /\ inputs = [i \in Vars |-> {}]
    /\ owed = [i \in Vars |-> {}]
    /\ operations = [i \in Vars |-> {}]
    /\ truncated = [i \in Vars |-> FALSE]
    /\ pphase = "edit"
    /\ queue = <<>>
    /\ pwork = 0
    /\ marked = {}
    /\ rewrites = 0

\* SsaCfg::new_var with Origins::definition.  A definition has the operation
\* being lowered as its own origin, or none for an Unknown expression or a
\* definition the analysis introduces.
Define ==
    /\ pphase = "edit" /\ pcount < Len(function)
    /\ LET new == MergeInputs(Smallest(Source(pcount)), MaxOrigins = 0 /\ Source(pcount) # {},
                              function[pcount + 1].refs)
       IN  /\ operations' = [operations EXCEPT ![pcount] = new.ops]
           /\ truncated' = [truncated EXCEPT ![pcount] = new.cut]
    /\ inputs' = [inputs EXCEPT ![pcount] = function[pcount + 1].refs]
    /\ pcount' = pcount + 1
    /\ UNCHANGED <<function, owed, pphase, queue, pwork, marked, rewrites>>

\* Variant of RewriteMerges: only the inputs that come are merged.
NewInputsOnly(i, refs) == refs

\* What rewrite() merges: the inputs that go and those that come.
RewriteMerges(i, refs) == inputs[i] \cup refs

\* provenance::rewrite: the evidence is merged before the expression is
\* replaced.  A reference to a later variable (the Phi of a loop header that
\* an earlier definition is linked to) is how forward references and cycles
\* arise.
Rewrite(i, refs) ==
    /\ pphase = "edit" /\ rewrites < MaxRewrites
    /\ LET new == MergeInputs(operations[i], truncated[i], RewriteMerges(i, refs))
       IN  /\ operations' = [operations EXCEPT ![i] = new.ops]
           /\ truncated' = [truncated EXCEPT ![i] = new.cut]
    /\ inputs' = [inputs EXCEPT ![i] = refs]
    /\ owed' = [owed EXCEPT ![i] = @ \cup UNION {operations[j] : j \in inputs[i]}]
    /\ rewrites' = rewrites + 1
    /\ UNCHANGED <<function, pcount, pphase, queue, pwork, marked>>

\* The consumers vector: who reads i, in index order.
Consumers(i) == {j \in Defined : i \in inputs[j]}

\* propagate(): every variable is queued, in index order.
Propagate ==
    /\ pphase = "edit" /\ pcount > 0
    /\ pphase' = "work"
    /\ queue' = [k \in 1 .. pcount |-> k - 1]
    /\ pwork' = 0
    /\ marked' = {}
    /\ UNCHANGED <<function, pcount, inputs, owed, operations, truncated, rewrites>>

Limit == pcount * WorkFactor

\* What is queued after i was visited: its consumers when its origins changed
\* and they are not queued already.
Requeue(i, rest, new) ==
    IF new = [ops |-> operations[i], cut |-> truncated[i]]
    THEN {}
    ELSE Consumers(i) \ ToSet(rest)

\* One turn of the worklist.
Visit ==
    /\ pphase = "work" /\ queue # <<>> /\ pwork < Limit
    /\ LET i == Head(queue)
           new == MergeInputs(operations[i], truncated[i], inputs[i])
       IN  /\ operations' = [operations EXCEPT ![i] = new.ops]
           /\ truncated' = [truncated EXCEPT ![i] = new.cut]
           /\ \E order \in Ascending(Requeue(i, Tail(queue), new)) :
                 queue' = Tail(queue) \o order
    /\ pwork' = pwork + 1
    /\ UNCHANGED <<function, pcount, inputs, owed, pphase, marked, rewrites>>

\* The loop ends: the queue is empty, or the ceiling is reached and the rest
\* of the queue is left for the closure walk.
LeaveLoop ==
    /\ pphase = "work" /\ (queue = <<>> \/ pwork >= Limit)
    /\ pphase' = "mark"
    /\ UNCHANGED <<function, pcount, inputs, owed, operations, truncated, queue, pwork,
                   marked, rewrites>>

\* One turn of the closure walk: flag the variable and go on to its readers.
Mark ==
    /\ pphase = "mark" /\ queue # <<>>
    /\ LET i == Head(queue) IN
       IF i \in marked
       THEN /\ queue' = Tail(queue)
            /\ UNCHANGED <<truncated, marked>>
       ELSE /\ marked' = marked \cup {i}
            /\ truncated' = [truncated EXCEPT ![i] = TRUE]
            /\ \E order \in Ascending(Consumers(i) \ marked') : queue' = Tail(queue) \o order
    /\ UNCHANGED <<function, pcount, inputs, owed, operations, pphase, pwork, rewrites>>

\* propagate() returns; the fold rounds go on rewriting and call it again.
Propagated ==
    /\ pphase = "mark" /\ queue = <<>>
    /\ pphase' = "edit"
    /\ UNCHANGED <<function, pcount, inputs, owed, operations, truncated, queue, pwork,
                   marked, rewrites>>

PStep == Visit \/ LeaveLoop \/ Mark \/ Propagated

PNext ==
    \/ Define
    \/ \E i \in Defined, refs \in SUBSET Defined : Cardinality(refs) <= MaxRefs /\ Rewrite(i, refs)
    \/ Propagate
    \/ PStep

PSpec == PInit /\ [][PNext]_pvars /\ WF_pvars(PStep)

-----------------------------------------------------------------------------
(* The properties.                                                         *)

PTypeOK ==
    /\ function \in Lowerings
    /\ pcount \in 0 .. Len(function)
    /\ inputs \in [Vars -> SUBSET Vars]
    /\ owed \in [Vars -> SUBSET Nat]
    /\ operations \in [Vars -> SUBSET Nat]
    /\ truncated \in [Vars -> BOOLEAN]
    /\ pphase \in {"edit", "work", "mark"}
    /\ queue \in Seq(Vars)
    /\ pwork \in 0 .. Limit
    /\ marked \subseteq Vars
    /\ rewrites \in 0 .. MaxRewrites

\* Everything i may read its value from, through any number of expressions:
\* the least set that holds i and the inputs of its members.
Reach(i) ==
    {j \in Vars : \A S \in SUBSET Vars :
        i \in S /\ (\A k \in S : inputs[k] \subseteq S) => j \in S}

Returned == pphase = "mark" /\ queue = <<>>

\* The worklist's invariant, the argument for CompleteOrFlagged: a variable that
\* is not waiting and not flagged already holds what its inputs hold, and none
\* of them is flagged.
SettledOrQueued ==
    pphase = "work" => \A i \in Defined : i \in ToSet(queue) \/
        \A j \in inputs[i] :
            /\ truncated[j] => truncated[i]
            /\ ~truncated[i] => operations[j] \subseteq operations[i]

\* When propagate() returns, a variable whose origins are not flagged as
\* truncated names every operation that contributes to it through any chain of
\* definitions, cycles included, and everything the inputs that were rewritten
\* away on that chain were known to come from, whether or not the work ceiling
\* was reached: an unflagged list may be read as complete.
CompleteOrFlagged ==
    /\ SettledOrQueued
    /\ Returned => \A i \in Defined : truncated[i] \/
          \A j \in Reach(i) : Source(j) \cup owed[j] \subseteq operations[i]

\* A list never exceeds MAX_ORIGINS, and evidence is never dropped in silence:
\* an origin that leaves a variable's list leaves the flag behind, and the flag
\* is never taken back.
EvidenceKept ==
    [][\A i \in Defined : /\ truncated[i] => truncated'[i]
                          /\ operations[i] \subseteq operations'[i] \/ truncated'[i]
                          /\ Cardinality(operations'[i]) <= MaxOrigins]_pvars

\* propagate() returns, on cyclic SSA too: the two walks are bounded.
PropagateReturns == (pphase # "edit") ~> (pphase = "edit")
=============================================================================
