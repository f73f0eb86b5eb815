--------------------------- MODULE Interprocedural ---------------------------
(***************************************************************************)
(* Context-sensitive dependencies across direct helper calls (backward,    *)
(* src/rsleigh-decompile/src/slice/interprocedural.rs).  A job is a        *)
(* variable in a calling context; each job runs a local backward slice and *)
(* then admits its nodes one by one.  A node that is a call opens a        *)
(* context for the callee and links to its returns; a parameter of a       *)
(* callee links back to the argument in the caller.  Everything is         *)
(* bounded: nodes, depth, contexts, functions, work and inputs.            *)
(*                                                                         *)
(* A program maps each function to [vars, returns, effects]; a variable is *)
(* [deps, boundary, slot, call, args]: besides what the local slice reads, *)
(* the parameter slot it stands for (0: none), the function it calls       *)
(* ("import", "unknown", or "err" when dependency_call refuses) and the    *)
(* variables bound to the callee's slots.                                  *)
(***************************************************************************)
EXTENDS BackwardSlice

CONSTANTS
    Binaries,   \* the programs to slice; the root is variable 1 of "f"
    LimitSets   \* the Limits records to use

\* bounded() keeps the limits as they are or lowers them, and backward() refuses
\* a slice of no node or no function.  An SSA variable that stands for a parameter
\* is an input or a load, and dependency_call names a function or says why not.
ASSUME InterproceduralAssumption ==
    /\ \A l \in LimitSets :
          /\ l.nodes \in Nat \ {0} /\ l.functions \in Nat \ {0}
          /\ l.depth \in Nat /\ l.callDepth \in Nat /\ l.work \in Nat
    /\ \A p \in Binaries :
          /\ "f" \in DOMAIN p /\ 1 \in DOMAIN p["f"].vars
          /\ \A f \in DOMAIN p :
                /\ p[f].vars \in Seq([deps : Seq(Nat), boundary : STRING, slot : Nat,
                                     call : STRING, args : Seq(Nat)])
                /\ p[f].returns \in Seq(DOMAIN p[f].vars)
                /\ \A v \in DOMAIN p[f].vars :
                      LET var == p[f].vars[v] IN
                      /\ ToSet(var.args) \subseteq DOMAIN p[f].vars
                      /\ var.slot # 0 => var.boundary # "none"
                      /\ var.boundary = "unmodeled_call" =>
                            var.call \in DOMAIN p \cup {"import", "unknown", "err"}

VARIABLES
    code,       \* the program
    limits,     \* limits.bounded()
    phase,      \* "jobs", "local", "nodes", "finish", "done"
    jobs,       \* jobs: [ref, depth]
    visited,    \* visited
    pending,    \* what remains of local.nodes
    here,       \* context and depth of the job being worked on
    contexts,   \* contexts, with caller_arguments of their frames
    nodes,      \* result.nodes
    functions,  \* functions
    work,       \* metrics.traversal_work
    inputsUsed, \* inputs_used
    cutShort,   \* result.truncated
    stops,      \* result.stops, as a set
    complete    \* result.complete

sliceVars == <<code, limits, phase, jobs, visited, pending, here, contexts, nodes,
               functions, work, inputsUsed, cutShort, stops, complete>>
ivars == <<sliceVars, localVars>>

Ref(c, v) == [ctx |-> c, var |-> v]
Fn(c) == contexts[c].fn
Var(ref) == code[Fn(ref.ctx)].vars[ref.var]

\* The scan of a function that summaries and local slices need.
ScanWork(f) == Len(code[f].vars)

\* charge(): the work is accounted for before it is done.
Affordable(amount) == work + amount <= limits.work

IInit ==
    /\ code \in Binaries
    /\ limits \in LimitSets
    /\ phase = "jobs"
    /\ jobs = <<[ref |-> Ref(1, 1), depth |-> 0]>>
    /\ visited = {}
    /\ pending = <<>>
    /\ here = [ctx |-> 1, depth |-> 0]
    /\ contexts = <<[fn |-> "f", caller |-> 0, via |-> 0, depth |-> 0, args |-> <<>>]>>
    /\ nodes = <<>>
    /\ functions = {"f"}
    /\ work = 0
    /\ inputsUsed = 0
    /\ cutShort = FALSE
    /\ stops = {}
    /\ complete = FALSE
    /\ LocalIdle

\* A job whose variable was admitted meanwhile.
SkipJob ==
    /\ phase = "jobs" /\ jobs # <<>> /\ Head(jobs).ref \in visited
    /\ jobs' = Tail(jobs)
    /\ UNCHANGED <<code, limits, phase, visited, pending, here, contexts, nodes, functions,
                   work, inputsUsed, cutShort, stops, complete, localVars>>

TooFar(job) == job.depth > limits.depth

\* A job beyond the depth or node limit.
RefuseJob ==
    /\ phase = "jobs" /\ jobs # <<>> /\ Head(jobs).ref \notin visited
    /\ TooFar(Head(jobs)) \/ Len(nodes) >= limits.nodes
    /\ jobs' = Tail(jobs)
    /\ cutShort' = TRUE
    /\ stops' = stops \cup {IF TooFar(Head(jobs)) THEN "depth_limit" ELSE "node_limit"}
    /\ UNCHANGED <<code, limits, phase, visited, pending, here, contexts, nodes, functions,
                   work, inputsUsed, complete, localVars>>

Admissible(job) == job.ref \notin visited /\ ~TooFar(job) /\ Len(nodes) < limits.nodes

\* The scan cannot be paid for: the loop breaks.
OutOfWork ==
    /\ phase = "jobs" /\ jobs # <<>> /\ Admissible(Head(jobs))
    /\ ~Affordable(ScanWork(Fn(Head(jobs).ref.ctx)))
    /\ cutShort' = TRUE
    /\ stops' = stops \cup {"traversal_work_limit"}
    /\ phase' = "finish"
    /\ UNCHANGED <<code, limits, jobs, visited, pending, here, contexts, nodes, functions,
                   work, inputsUsed, complete, localVars>>

StartJob ==
    /\ phase = "jobs" /\ jobs # <<>> /\ Admissible(Head(jobs))
    /\ LET job == Head(jobs) IN
       /\ Affordable(ScanWork(Fn(job.ref.ctx)))
       /\ work' = work + ScanWork(Fn(job.ref.ctx))
       /\ here' = [ctx |-> job.ref.ctx, depth |-> job.depth]
       /\ LocalStart(code[Fn(job.ref.ctx)].vars, job.ref.var,
                     [nodes |-> limits.nodes - Len(nodes), depth |-> limits.depth - job.depth])
    /\ jobs' = Tail(jobs)
    /\ phase' = "local"
    /\ UNCHANGED <<code, limits, visited, pending, contexts, nodes, functions, inputsUsed,
                   cutShort, stops, complete>>

LocalStep ==
    /\ phase = "local" /\ LocalVisit
    /\ UNCHANGED sliceVars

LocalEnds ==
    /\ phase = "local" /\ LocalDone
    /\ pending' = lnodes
    /\ cutShort' = (cutShort \/ lcut)
    /\ phase' = "nodes"
    /\ UNCHANGED <<code, limits, jobs, visited, here, contexts, nodes, functions, work,
                   inputsUsed, stops, complete, localVars>>

NodesEnd ==
    /\ phase = "nodes" /\ pending = <<>>
    /\ phase' = "jobs"
    /\ UNCHANGED <<code, limits, jobs, visited, pending, here, contexts, nodes, functions,
                   work, inputsUsed, cutShort, stops, complete, localVars>>

SkipNode ==
    /\ phase = "nodes" /\ pending # <<>>
    /\ Ref(here.ctx, Head(pending).var) \in visited
    /\ pending' = Tail(pending)
    /\ UNCHANGED <<code, limits, phase, jobs, visited, here, contexts, nodes, functions, work,
                   inputsUsed, cutShort, stops, complete, localVars>>

\* The node cannot be paid for: the rest of the local slice is dropped.
DropNodes ==
    /\ phase = "nodes" /\ pending # <<>>
    /\ Ref(here.ctx, Head(pending).var) \notin visited
    /\ ~Affordable(1 + Len(Head(pending).inputs))
    /\ visited' = visited \cup {Ref(here.ctx, Head(pending).var)}
    /\ pending' = <<>>
    /\ phase' = "jobs"
    /\ cutShort' = TRUE
    /\ stops' = stops \cup {"traversal_work_limit"}
    /\ UNCHANGED <<code, limits, jobs, here, contexts, nodes, functions, work, inputsUsed,
                   complete, localVars>>

-----------------------------------------------------------------------------
(* What a node links to.  `left' is the work still affordable and `used'   *)
(* the inputs accounted for before the links.                              *)

\* A context and the contexts of its callers.
Chain(c) ==
    LET up[d \in 0 .. Len(contexts)] ==
            IF d = 0 THEN {} ELSE {d} \cup up[contexts[d].caller]
    IN  up[c]

\* Variant of Recursive: only the calling function itself is looked at.
DirectOnly(target) == target = Fn(here.ctx)

\* The walk over the ancestors of the calling context.
Recursive(target) == \E c \in Chain(here.ctx) : Fn(c) = target

\* Why a call is not entered; the conditions in the code's order.  `loads' says
\* whether load(target) succeeds.
CallStop(target, loads, left) ==
    LET depth == contexts[here.ctx].depth + 1 IN
    CASE target = "import" -> "external_call"
      [] target = "unknown" -> "unknown_call"
      [] target = "err" -> "indirect_call"
      [] OTHER ->
         IF Len(nodes) + 1 >= limits.nodes THEN "node_limit"
         ELSE IF depth > limits.callDepth THEN "call_depth_limit"
         ELSE IF Recursive(target) THEN "recursion_limit"
         ELSE IF target \notin functions /\ Cardinality(functions) >= limits.functions
              THEN "function_limit"
         ELSE IF left < 1 THEN "traversal_work_limit"
         ELSE IF ~loads THEN "function_unavailable"
         ELSE IF left - 1 < ScanWork(target) THEN "traversal_work_limit"
         ELSE IF code[target].effects THEN "unsupported_side_effects"
         ELSE IF code[target].returns = <<>> THEN "unsupported_return"
         ELSE IF Len(contexts) >= limits.nodes THEN "context_limit"
         ELSE "none"

\* How far a refused or entered call got, and what it charged on the way.
Loaded == {"unsupported_side_effects", "unsupported_return", "context_limit", "none"}

CallCost(target, stop, left) ==
    IF stop \in Loaded THEN 1 + ScanWork(target)
    ELSE IF stop = "function_unavailable" \/ (stop = "traversal_work_limit" /\ left >= 1)
         THEN 1 ELSE 0

LimitStops == {"call_depth_limit", "recursion_limit", "function_limit", "traversal_work_limit",
               "context_limit", "node_limit"}

\* The three kinds of node: a bound or unbound parameter of a callee, a call,
\* anything else.  Each gives the boundary, the links, the jobs they add, the
\* context they open, the work charged and the function admitted.
Plain(node) ==
    [boundary |-> node.boundary, inputs |-> node.inputs, links |-> <<>>, opens |-> <<>>,
     cost |-> 0, admits |-> {}]

\* Variant of Parameter: a parameter nothing is bound to passes for resolved.
UnboundResolved(node, slot) ==
    LET args == contexts[here.ctx].args IN
    [boundary |-> "none", inputs |-> <<>>,
     links |-> IF slot \in DOMAIN args THEN <<Ref(contexts[here.ctx].caller, args[slot])>> ELSE <<>>,
     opens |-> <<>>, cost |-> 0, admits |-> {}]

Parameter(node, slot) ==
    LET args == contexts[here.ctx].args IN
    IF slot \in DOMAIN args
    THEN [boundary |-> "none", inputs |-> <<>>,
          links |-> <<Ref(contexts[here.ctx].caller, args[slot])>>, opens |-> <<>>,
          cost |-> 0, admits |-> {}]
    ELSE [Plain(node) EXCEPT !.boundary = "missing_call_argument"]

CallNode(node, var, loads, left) ==
    LET stop == CallStop(var.call, loads, left)
        new == Len(contexts) + 1
    IN  [boundary |-> stop, inputs |-> node.inputs,
         links |-> IF stop = "none"
                   THEN [k \in DOMAIN code[var.call].returns |->
                            Ref(new, code[var.call].returns[k])]
                   ELSE <<>>,
         opens |-> IF stop = "none"
                   THEN <<[fn |-> var.call, caller |-> here.ctx, via |-> node.var,
                           depth |-> contexts[here.ctx].depth + 1, args |-> var.args]>>
                   ELSE <<>>,
         cost |-> CallCost(var.call, stop, left),
         admits |-> IF CallCost(var.call, stop, left) > 0 THEN {var.call} ELSE {}]

Outcome(node, loads, left) ==
    LET var == code[Fn(here.ctx)].vars[node.var] IN
    IF var.slot # 0 /\ here.ctx # 1 THEN Parameter(node, var.slot)
    ELSE IF node.boundary = "unmodeled_call" THEN CallNode(node, var, loads, left)
    ELSE Plain(node)

\* Every link is a job of its own.
LinkJobs(links, depth) == [k \in DOMAIN links |-> [ref |-> links[k], depth |-> depth + 1]]

\* One node of the local slice is admitted.
AdmitNode(loads) ==
    /\ phase = "nodes" /\ pending # <<>>
    /\ Ref(here.ctx, Head(pending).var) \notin visited
    /\ Affordable(1 + Len(Head(pending).inputs))
    /\ LET head == Head(pending)
           depth == head.depth + here.depth
           room == MaxInputs - inputsUsed
           cut == Len(head.inputs) > room
           node == [var |-> head.var, boundary |-> head.boundary,
                    inputs |-> IF cut THEN SubSeq(head.inputs, 1, room) ELSE head.inputs]
           used == inputsUsed + Len(node.inputs)
           paid == work + 1 + Len(head.inputs)
           out == Outcome(node, loads, limits.work - paid)
           afford == paid + out.cost + Len(out.links) <= limits.work
           fits == Len(out.links) <= MaxInputs - used
           links == IF fits THEN out.links ELSE SubSeq(out.links, 1, MaxInputs - used)
           full == used + Len(links) >= MaxInputs
       IN  /\ visited' = visited \cup {Ref(here.ctx, head.var)}
           /\ work' = paid + out.cost + IF afford THEN Len(out.links) ELSE 0
           /\ jobs' = jobs \o LinkJobs(out.links, depth)
           /\ contexts' = contexts \o out.opens
           /\ functions' = functions \cup out.admits
           /\ inputsUsed' = used + Len(links)
           /\ nodes' = Append(nodes,
                  [ref |-> Ref(here.ctx, head.var), depth |-> depth, inputs |-> out.inputs,
                   links |-> links,
                   boundary |-> IF ~fits THEN "input_limit"
                                ELSE IF ~afford THEN "traversal_work_limit"
                                ELSE out.boundary])
           /\ cutShort' = (cutShort \/ cut \/ ~afford \/ ~fits \/ full
                            \/ out.boundary \in LimitStops)
           /\ stops' = stops \cup (IF cut \/ full THEN {"input_limit"} ELSE {})
                             \cup (IF ~afford \/ out.boundary = "traversal_work_limit"
                                   THEN {"traversal_work_limit"} ELSE {})
                             \cup (IF out.boundary = "function_unavailable"
                                   THEN {"load_error"} ELSE {})
           /\ pending' = IF full THEN <<>> ELSE Tail(pending)
    /\ UNCHANGED <<code, limits, phase, here, complete, localVars>>

\* The execution budget unwinds out of the traversal; what was found is kept.
BudgetStops ==
    /\ phase \in {"local", "nodes"}
    /\ stops' = stops \cup {"execution_limit"}
    /\ cutShort' = TRUE
    /\ phase' = "finish"
    /\ UNCHANGED <<code, limits, jobs, visited, pending, here, contexts, nodes, functions,
                   work, inputsUsed, complete, localVars>>

JobsEnd ==
    /\ phase = "jobs" /\ jobs = <<>>
    /\ phase' = "finish"
    /\ UNCHANGED <<code, limits, jobs, visited, pending, here, contexts, nodes, functions,
                   work, inputsUsed, cutShort, stops, complete, localVars>>

Included == {nodes[i].ref : i \in DOMAIN nodes}

\* Variant of MarkedStop: an edge into what was dropped keeps looking followed.
KeepStop(stop, target) == stop

\* The last pass: an edge without a reason whose target was not included.
MarkedStop(stop, target) ==
    IF stop = "none" /\ target \notin Included THEN "traversal_limit" ELSE stop

Marked(node) ==
    [ref |-> node.ref, depth |-> node.depth, boundary |-> node.boundary,
     inputs |-> [k \in DOMAIN node.inputs |->
                    [var |-> node.inputs[k].var,
                     stop |-> MarkedStop(node.inputs[k].stop,
                                         Ref(node.ref.ctx, node.inputs[k].var))]],
     links |-> [k \in DOMAIN node.links |->
                    [ref |-> node.links[k], stop |-> MarkedStop("none", node.links[k])]]]

Finish ==
    /\ phase = "finish"
    /\ nodes' = [i \in DOMAIN nodes |-> Marked(nodes[i])]
    /\ complete' = (/\ ~cutShort /\ stops = {}
                    /\ \A i \in DOMAIN nodes :
                          /\ nodes[i].boundary = "none"
                          /\ \A k \in DOMAIN nodes'[i].inputs : nodes'[i].inputs[k].stop = "none"
                          /\ \A k \in DOMAIN nodes'[i].links : nodes'[i].links[k].stop = "none")
    /\ phase' = "done"
    /\ UNCHANGED <<code, limits, jobs, visited, pending, here, contexts, functions, work,
                   inputsUsed, cutShort, stops, localVars>>

INext ==
    \/ SkipJob \/ RefuseJob \/ OutOfWork \/ StartJob \/ JobsEnd
    \/ LocalStep \/ LocalEnds
    \/ NodesEnd \/ SkipNode \/ DropNodes \/ \E loads \in BOOLEAN : AdmitNode(loads)
    \/ BudgetStops \/ Finish

ISpec == IInit /\ [][INext]_ivars /\ WF_ivars(INext)

-----------------------------------------------------------------------------
\* A slice reported as complete leaves nothing out: every value a member is
\* computed from is a member in the right calling context.  A callee's
\* parameter comes from the argument the very caller passed, a call from every
\* return of the function it enters, an operation from its operands; and no
\* member is memory, an import, an unknown value or an input of the root
\* function.  The local slices it is put together from are closed likewise.
CompleteClosed ==
    /\ LocalCompleteClosed
    /\ phase = "done" /\ complete =>
           /\ Ref(1, 1) \in Included
           /\ \A r \in Included :
                 LET var == Var(r) IN
                 \/ /\ var.slot # 0 /\ r.ctx # 1
                    /\ var.slot \in DOMAIN contexts[r.ctx].args
                    /\ Ref(contexts[r.ctx].caller, contexts[r.ctx].args[var.slot]) \in Included
                 \/ /\ var.call \in DOMAIN code
                    /\ \E c \in DOMAIN contexts :
                          /\ contexts[c].fn = var.call
                          /\ contexts[c].caller = r.ctx /\ contexts[c].via = r.var
                          /\ ToSet(code[var.call].returns) # {}
                          /\ \A v \in ToSet(code[var.call].returns) : Ref(c, v) \in Included
                 \/ /\ var.boundary = "none" /\ var.slot = 0
                    /\ \A v \in ToSet(var.deps) : Ref(r.ctx, v) \in Included

\* In the result, complete or not, an edge that carries no stop reason leads to
\* a node of the result; and so it is in every local slice while it grows.
EdgesHonest ==
    /\ LocalEdgesHonest
    /\ phase = "done" => \A i \in DOMAIN nodes :
           /\ \A k \in DOMAIN nodes[i].inputs : nodes[i].inputs[k].stop = "none" =>
                 Ref(nodes[i].ref.ctx, nodes[i].inputs[k].var) \in Included
           /\ \A k \in DOMAIN nodes[i].links : nodes[i].links[k].stop = "none" =>
                 nodes[i].links[k].ref \in Included

\* Every limit holds at every step, although work is charged in several places
\* and nodes, inputs and links share their bounds; and no chain of contexts
\* enters a function twice, so that recursion is cut.
LimitsHold ==
    /\ Len(nodes) <= limits.nodes
    /\ Len(contexts) <= limits.nodes
    /\ Cardinality(functions) <= limits.functions
    /\ work <= limits.work
    /\ inputsUsed <= MaxInputs
    /\ \A c \in DOMAIN contexts :
          /\ contexts[c].depth <= limits.callDepth
          /\ \A d \in Chain(c) \ {c} : Fn(d) # Fn(c)

\* The traversal ends, on recursive programs and cyclic SSA too.
SliceReturns == (phase = "jobs") ~> (phase = "done")
=============================================================================
