---------------------------- MODULE BackwardSlice ----------------------------
(***************************************************************************)
(* The bounded backward traversal of one function's SSA                    *)
(* (backward_slice, src/rsleigh-decompile/src/slice.rs): a breadth-first   *)
(* walk over expression dependencies that stops at boundaries it cannot    *)
(* see through and at limits on nodes, depth and edges, and says of every  *)
(* edge it does not follow why.                                            *)
(*                                                                         *)
(* A variable is [deps, boundary]: the variables its expression and its    *)
(* reaching stores name, in order, and the reason why its value does not   *)
(* come from them alone ("none" when it does).                             *)
(***************************************************************************)
EXTENDS Integers, FiniteSets, Sequences, SequencesExt, Orders

CONSTANT MaxInputs  \* MAX_INPUTS

ASSUME BackwardSliceAssumption == MaxInputs \in Nat

VARIABLES
    lvars,   \* ssa.vars of the function walked
    lmax,    \* [nodes, depth]: the limits of this call
    lqueue,  \* queue: [var, depth]
    lseen,   \* seen
    lnodes,  \* nodes: [var, depth, boundary, inputs]
    ledges,  \* edges
    lcut     \* truncated

localVars == <<lvars, lmax, lqueue, lseen, lnodes, ledges, lcut>>

LocalIdle ==
    /\ lvars = <<>> /\ lmax = [nodes |-> 0, depth |-> 0]
    /\ lqueue = <<>> /\ lseen = {} /\ lnodes = <<>> /\ ledges = 0 /\ lcut = FALSE

\* backward_slice is called.
LocalStart(vars, root, max) ==
    /\ lvars' = vars
    /\ lmax' = max
    /\ lqueue' = <<[var |-> root, depth |-> 0]>>
    /\ lseen' = {root}
    /\ lnodes' = <<>>
    /\ ledges' = 0
    /\ lcut' = FALSE

\* The inputs that would extend the walk: known, not seen, each counted once.
Fresh(at, deps) ==
    {k \in DOMAIN deps :
        /\ lvars[at.var].boundary = "none"
        /\ deps[k] \in DOMAIN lvars \ lseen
        /\ at.depth < lmax.depth
        /\ \A j \in 1 .. k - 1 : deps[j] # deps[k]}

\* Those of them that the node limit still admits.
Taken(at, deps) ==
    {k \in Fresh(at, deps) :
        Cardinality(lseen) + Cardinality({j \in Fresh(at, deps) : j < k}) < lmax.nodes}

\* Why the edge to input k of `at' is not followed, in the code's order.
StopReason(at, deps, k) ==
    IF lvars[at.var].boundary # "none" THEN lvars[at.var].boundary
    ELSE IF deps[k] \notin DOMAIN lvars THEN "missing_variable"
    ELSE IF deps[k] \in lseen \cup {deps[j] : j \in Taken(at, deps)} THEN "none"
    ELSE IF at.depth >= lmax.depth THEN "depth_limit"
    ELSE "node_limit"

\* A limit that stopped an edge, or inputs beyond the edge limit.
Cut(inputs, deps) ==
    \/ \E k \in DOMAIN inputs : inputs[k].stop \in {"depth_limit", "node_limit"}
    \/ Len(inputs) < Len(deps)

\* One turn of the traversal.
LocalVisit ==
    /\ lqueue # <<>>
    /\ LET at == Head(lqueue)
           all == lvars[at.var].deps
           room == MaxInputs - ledges
           deps == IF Len(all) <= room THEN all ELSE SubSeq(all, 1, room)
           inputs == [k \in DOMAIN deps |-> [var |-> deps[k], stop |-> StopReason(at, deps, k)]]
       IN  \E new \in Ascending(Taken(at, deps)) :
           /\ lseen' = lseen \cup {deps[k] : k \in Taken(at, deps)}
           /\ lqueue' = Tail(lqueue) \o
                 [i \in DOMAIN new |-> [var |-> deps[new[i]], depth |-> at.depth + 1]]
           /\ ledges' = ledges + Len(deps)
           /\ lcut' = (lcut \/ Cut(inputs, all))
           /\ lnodes' = Append(lnodes, [var |-> at.var, depth |-> at.depth,
                                        boundary |-> lvars[at.var].boundary,
                                        inputs |-> inputs])
    /\ UNCHANGED <<lvars, lmax>>

LocalDone == lqueue = <<>>

\* The `complete' flag of the local slice.
LocalComplete ==
    /\ ~lcut
    /\ \A i \in DOMAIN lnodes :
          /\ lnodes[i].boundary = "none"
          /\ \A k \in DOMAIN lnodes[i].inputs : lnodes[i].inputs[k].stop = "none"

Walked == {lnodes[i].var : i \in DOMAIN lnodes}

\* While the walk goes on, every edge that carries no stop reason leads to a
\* variable that is in the slice or still waiting ("None means the target node
\* is included"), and no variable is in it twice or beyond the limits.
LocalEdgesHonest ==
    /\ \A i \in DOMAIN lnodes : \A k \in DOMAIN lnodes[i].inputs :
          lnodes[i].inputs[k].stop = "none" =>
              \/ lnodes[i].inputs[k].var \in Walked
              \/ \E j \in DOMAIN lqueue : lqueue[j].var = lnodes[i].inputs[k].var
    /\ Cardinality(Walked) = Len(lnodes)
    /\ Len(lnodes) + Len(lqueue) <= lmax.nodes
    /\ ledges <= MaxInputs

\* A slice reported as complete is closed: whatever a member of it is computed
\* from is a member too.
LocalCompleteClosed ==
    LocalDone /\ LocalComplete =>
        \A v \in Walked : ToSet(lvars[v].deps) \subseteq Walked
=============================================================================
