------------------------------ MODULE Summaries ------------------------------
(***************************************************************************)
(* Summaries of functions, lifted through direct calls                     *)
(* (build_binary_summaries_scoped of rsleigh-cli/src/cli.rs, callgraph.rs  *)
(* and function_summary.rs of rsleigh-decompile).  First the functions     *)
(* worth exploring are found, from a scope or from those that call a       *)
(* library source or sink; then the call graph's components are computed,  *)
(* callees first; then each function's summary is its own events and,      *)
(* unless it is recursive, those of the functions it calls, with their     *)
(* argument slots translated to its own.                                   *)
(*                                                                         *)
(* A function is a number, and its address; its body is the sequence of    *)
(* its calls and tainted stores.  A call is [op, to, args]: "direct",      *)
(* "tail" (a jump out of the body, a direct call of the SSA but not of the *)
(* instructions) or "indirect", the addresses it was resolved to and, for  *)
(* each argument, the slots of the caller that arg_slots_for_var finds for *)
(* it.  A store is [op, slots], with what detect_tainted_store answers.    *)
(***************************************************************************)
EXTENDS Naturals, Sequences, SequencesExt, FiniteSetsExt

CONSTANT
    Images      \* the programs: [body, scope, passes], with scope_addrs and the
                \* limit MAX_PASSES or MAX_DEPTH of the exploration, 32 in the code

ASSUME SummariesAssumption == \A i \in Images : i.passes \in Nat \ {0}

VARIABLES
    image,      \* the program
    step,       \* "whole" or "scoped" (what to explore), "sccs", "lift", "built"
    reach,      \* reachable
    frontier,   \* frontier of a scoped build
    symbol,     \* position in symbols of a pass over the whole binary
    grow,       \* grow
    pass,       \* pass
    frames,     \* the calls of tarjan_visit: [id, rest]
    indices,    \* indices; 0 for a function not visited
    lowlinks,   \* lowlinks
    stack,      \* stack; on_stack is membership in it
    components, \* components
    summary     \* summaries

uvars == <<image, step, reach, frontier, symbol, grow, pass, frames, indices, lowlinks,
           stack, components, summary>>

Functions == 1 .. Len(image.body)
Source == 11         \* recv: taints the buffer passed as its first argument
Sink == 12           \* strcpy: watches its second
Imported == {Source, Sink}
GlobalSlot == 9      \* AbiSlot::Global
NoSummary == <<[api |-> 0, site |-> 0, slots |-> {}]>>

Body(f) == image.body[f]
IsCall(stmt) == stmt.op # "store"
IsDirect(stmt) == stmt.op \in {"direct", "tail"}

---------------------------------------------------------------------------
(* What to explore. *)

\* The targets of the Call operations of f: jumps to other functions are not seen.
Callees(f) == UNION {ToSet(s.to) : s \in {t \in ToSet(Body(f)) : t.op = "direct"}}
Touches(f) == Callees(f) \cap Imported # {}

UInit ==
    /\ image \in Images
    /\ LET touch == {f \in Functions : Touches(f)}
           whole == image.scope = {}
       IN  /\ step = IF ~whole THEN "scoped" ELSE IF touch = {} THEN "sccs" ELSE "whole"
           /\ reach = IF ~whole THEN image.scope ELSE IF touch = {} THEN Functions ELSE touch
    /\ frontier = image.scope
    /\ symbol = 1 /\ grow = FALSE /\ pass = 1
    /\ frames = <<>> /\ stack = <<>> /\ components = <<>>
    /\ indices = [f \in Functions |-> 0] /\ lowlinks = indices
    /\ summary = [f \in Functions |-> NoSummary]

\* What the scan of one symbol adds: its callees if it is in, itself if it calls one that is.
Pulled(f) ==
    IF f \in reach THEN Callees(f) \cap Functions
    ELSE IF Callees(f) \cap reach # {} THEN {f} ELSE {}

ScanSymbol ==
    /\ step = "whole" /\ symbol \in Functions
    /\ reach' = reach \cup Pulled(symbol)
    /\ grow' = (grow \/ reach' # reach)
    /\ symbol' = symbol + 1
    /\ UNCHANGED <<image, step, frontier, pass, frames, indices, lowlinks, stack, components,
                   summary>>

EndPass ==
    /\ step = "whole" /\ symbol \notin Functions
    /\ IF grow /\ pass < image.passes
         THEN symbol' = 1 /\ grow' = FALSE /\ pass' = pass + 1 /\ UNCHANGED step
         ELSE step' = "sccs" /\ UNCHANGED <<symbol, grow, pass>>
    /\ UNCHANGED <<image, reach, frontier, frames, indices, lowlinks, stack, components, summary>>

\* Variant: the last of the passes is not made.
SpreadShort ==
    /\ step = "scoped"
    /\ IF frontier # {} /\ pass < image.passes
         THEN /\ frontier' = (UNION {Callees(f) : f \in frontier} \cap Functions) \ reach
              /\ reach' = reach \cup frontier'
              /\ pass' = pass + 1
              /\ UNCHANGED step
         ELSE step' = "sccs" /\ UNCHANGED <<frontier, reach, pass>>
    /\ UNCHANGED <<image, symbol, grow, frames, indices, lowlinks, stack, components, summary>>

Spread ==
    /\ step = "scoped"
    /\ IF frontier # {} /\ pass <= image.passes
         THEN /\ frontier' = (UNION {Callees(f) : f \in frontier} \cap Functions) \ reach
              /\ reach' = reach \cup frontier'
              /\ pass' = pass + 1
              /\ UNCHANGED step
         ELSE step' = "sccs" /\ UNCHANGED <<frontier, reach, pass>>
    /\ UNCHANGED <<image, symbol, grow, frames, indices, lowlinks, stack, components, summary>>

---------------------------------------------------------------------------
(* The call graph and its components. *)

\* classify_edges: an import before a function of the explored set; anything else is opaque.
Direct(a) == a \notin Imported /\ a \in reach

\* direct_successors: each target once, in the order of the calls.
Successors(f) ==
    LET targets == FlattenSeq([i \in DOMAIN Body(f) |->
                       IF IsCall(Body(f)[i]) THEN SelectSeq(Body(f)[i].to, Direct) ELSE <<>>])
    IN  FoldLeft(LAMBDA out, t : IF t \in ToSet(out) THEN out ELSE Append(out, t), <<>>, targets)

Top == Last(frames)

\* tarjan_visit(f) begins, with the frames of its callers.
Enter(f, callers) ==
    LET index == Cardinality({g \in Functions : indices[g] # 0}) + 1
    IN  /\ indices' = [indices EXCEPT ![f] = index]
        /\ lowlinks' = [lowlinks EXCEPT ![f] = index]
        /\ stack' = Append(stack, f)
        /\ frames' = Append(callers, [id |-> f, rest |-> Successors(f)])
        /\ UNCHANGED <<components, step>>

Visit ==
    /\ step = "sccs" /\ frames = <<>>
    /\ LET unseen == {f \in reach : indices[f] = 0}
       IN  IF unseen # {} THEN Enter(Min(unseen), <<>>)
           ELSE step' = "lift" /\ UNCHANGED <<indices, lowlinks, stack, frames, components>>
    /\ UNCHANGED <<image, reach, frontier, symbol, grow, pass, summary>>

\* Variant of Pending: every visited successor is a back edge.
Visited(f) == indices[f] # 0

\* A successor that was visited before counts only while it is on the stack.
Pending(f) == f \in ToSet(stack)

Follow ==
    /\ step = "sccs" /\ frames # <<>> /\ Top.rest # <<>>
    /\ LET succ == Head(Top.rest)
           here == Append(Front(frames), [Top EXCEPT !.rest = Tail(Top.rest)])
       IN  IF indices[succ] = 0 THEN Enter(succ, here)
           ELSE /\ frames' = here
                /\ lowlinks' = IF Pending(succ)
                               THEN [lowlinks EXCEPT ![Top.id] = Min({@, indices[succ]})]
                               ELSE lowlinks
                /\ UNCHANGED <<indices, stack, components, step>>
    /\ UNCHANGED <<image, reach, frontier, symbol, grow, pass, summary>>

\* tarjan_visit returns: a root pops its component, the caller takes the lowlink over.
Leave ==
    /\ step = "sccs" /\ frames # <<>> /\ Top.rest = <<>>
    /\ LET f == Top.id
           callers == Front(frames)
           bottom == CHOOSE i \in DOMAIN stack : stack[i] = f
       IN  /\ frames' = callers
           /\ IF lowlinks[f] = indices[f]
                THEN /\ components' = Append(components, Reverse(SubSeq(stack, bottom, Len(stack))))
                     /\ stack' = SubSeq(stack, 1, bottom - 1)
                ELSE UNCHANGED <<components, stack>>
           /\ lowlinks' = IF callers = <<>> THEN lowlinks
                          ELSE [lowlinks EXCEPT ![Last(callers).id] = Min({@, lowlinks[f]})]
    /\ UNCHANGED <<image, step, reach, frontier, symbol, grow, pass, indices, summary>>

---------------------------------------------------------------------------
(* The summaries. *)

Recursive(component) ==
    Len(component) > 1 \/ component[1] \in ToSet(Successors(component[1]))

Arg(args, n) == IF n \in DOMAIN args THEN args[n] ELSE {}

\* build_function_summary: what one statement records.
Own(stmt, k) ==
    CASE stmt.op = "store" -> <<[api |-> 0, site |-> k, slots |-> stmt.slots]>>
      [] IsDirect(stmt) /\ stmt.to[1] = Source ->
            <<[api |-> Source, site |-> k, slots |-> Arg(stmt.args, 1)]>>
      [] IsDirect(stmt) /\ stmt.to[1] = Sink ->
            <<[api |-> Sink, site |-> k, slots |-> Arg(stmt.args, 2)]>>
      [] OTHER -> <<>>

\* remap_slots: an argument becomes what the caller passed, a global stays.
Remap(slots, args) ==
    UNION {Arg(args, n) : n \in slots \ {GlobalSlot}} \cup (slots \cap {GlobalSlot})

\* propagate_one, with what is known of the callees.
Lifted(stmt, k, known) ==
    IF ~IsDirect(stmt) \/ stmt.to[1] \notin DOMAIN known THEN <<>>
    ELSE LET events == known[stmt.to[1]]
         IN  [i \in DOMAIN events |->
                [events[i] EXCEPT !.site = k, !.slots = Remap(events[i].slots, stmt.args)]]

OwnEvents(f) == FlattenSeq([k \in DOMAIN Body(f) |-> Own(Body(f)[k], k)])
LiftedEvents(f, known) == FlattenSeq([k \in DOMAIN Body(f) |-> Lifted(Body(f)[k], k, known)])

Known == [f \in {g \in Functions : summary[g] # NoSummary} |-> summary[f]]

\* One function of the first component that is not finished.
Summarise ==
    /\ step = "lift" /\ components # <<>>
    /\ LET component == Head(components)
           left == {i \in DOMAIN component : summary[component[i]] = NoSummary}
           f == component[Min(left)]
       IN  /\ summary' = [summary EXCEPT ![f] =
                 OwnEvents(f) \o (IF Recursive(component) THEN <<>> ELSE LiftedEvents(f, Known))]
           /\ components' = IF Cardinality(left) = 1 THEN Tail(components) ELSE components
    /\ UNCHANGED <<image, step, reach, frontier, symbol, grow, pass, frames, indices, lowlinks,
                   stack>>

Finished ==
    /\ step = "lift" /\ components = <<>>
    /\ step' = "built"
    /\ UNCHANGED <<image, reach, frontier, symbol, grow, pass, frames, indices, lowlinks, stack,
                   components, summary>>

UNext ==
    \/ ScanSymbol \/ EndPass \/ Spread
    \/ Visit \/ Follow \/ Leave \/ Summarise \/ Finished

---------------------------------------------------------------------------
\* f calls itself through functions of the explored set.
Cyclic(f) ==
    LET below[n \in Nat] ==
            IF n = 0 THEN ToSet(Successors(f))
            ELSE below[n - 1] \cup UNION {ToSet(Successors(g)) : g \in below[n - 1]}
    IN  f \in below[Len(image.body)]

\* The events of every function, exploration and order left aside: its own and,
\* through at most n calls of functions that are not recursive, those of the
\* functions of inside that it calls.  A tail call counts if its target is
\* explored for another reason.
Events(n, inside) ==
    LET Counts(stmt) == IsDirect(stmt) /\ stmt.to[1] \in IF stmt.op = "tail" THEN reach ELSE inside
        within[m \in Nat] ==
            [f \in Functions |->
                OwnEvents(f) \o
                (IF m = 0 \/ Cyclic(f) THEN <<>>
                 ELSE FlattenSeq([k \in DOMAIN Body(f) |->
                          IF Counts(Body(f)[k]) THEN Lifted(Body(f)[k], k, within[m - 1]) ELSE <<>>]))]
    IN  within[n]

CutShort == (image.scope # {} /\ frontier # {}) \/ (image.scope = {} /\ grow)

\* The functions at most n calls away from where the exploration begins: below
\* the scope, or above and below the functions that call a source or a sink.
Near(n) ==
    LET whole == image.scope = {}
        within[m \in Nat] ==
            IF m = 0 THEN IF whole THEN {f \in Functions : Touches(f)} ELSE image.scope
            ELSE within[m - 1] \cup
                 {g \in Functions : \E f \in within[m - 1] :
                     g \in Callees(f) \/ (whole /\ f \in Callees(g))}
    IN  within[n]

\* Every explored function is summarised, once, and its summary holds exactly
\* the sources, sinks and stores it reaches through chains of direct calls, with
\* the slots of its own that feed them, as if the whole program had been
\* explored: what is left out is not needed and callees come before callers.
\* An exploration that runs into its limit of passes explores at least the
\* functions as many calls away, and its summaries hold what is reached through
\* explored functions.
\*
\* A member of a cycle keeps its own events and passes them on to callers outside
\* the cycle: function_summary.rs (799-803, and the test
\* bottom_up_recursive_scc_is_opaque) says that the members "get only the intra
\* summary", callgraph.rs (19-22, 235-237) that there is "no summary".  The code
\* does the former, and so does this property.
SummariesExact ==
    step = "built" =>
        /\ Near(image.passes) \subseteq reach
        /\ \A f \in reach :
              summary[f] = Events(Len(image.body), IF CutShort THEN reach ELSE Functions)[f]
=============================================================================
