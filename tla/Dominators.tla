----------------------------- MODULE Dominators -----------------------------
(***************************************************************************)
(* compute_dominators and compute_post_dominators of                       *)
(* rsleigh-decompile/src/dominators.rs: the iterative algorithm of Cooper, *)
(* Harvey and Kennedy, one action per block of a sweep.  Blocks are        *)
(* numbered from 1, block 1 is the entry; the virtual exit of the reverse  *)
(* graph is the number after the last block, which callers read as "no     *)
(* merge point".                                                           *)
(*                                                                         *)
(* A block is its terminator: [kind, succ] with succ the successors in the *)
(* order of Cfg::successors.                                               *)
(***************************************************************************)
EXTENDS Naturals, Sequences, SequencesExt

CONSTANT Cfgs      \* the control-flow graphs to analyse

VARIABLES
    cfg,        \* the graph: a sequence of terminators
    side,       \* "dom", then "pdom", then "done"
    idom,       \* the immediate dominators found so far; 0 is undef
    path,       \* the path of the depth-first search; empty once it is over
    order,      \* rpo: the reverse postorder of the nodes the search reaches
    at,         \* position in it of the current sweep
    changed,    \* the sweep has changed something
    dom,        \* the result of compute_dominators
    pdom        \* the result of compute_post_dominators

dvars == <<cfg, side, idom, path, order, at, changed, dom, pdom>>

Undef == 0
CfgBlocks == 1..Len(cfg)
ExitNode == Len(cfg) + 1
CfgNodes == 1..ExitNode
Range1(s) == {s[i] : i \in DOMAIN s}

\* Successors in the order of Cfg::successors; in the reverse graph a block without any flows into the exit.
Succs(b) == IF b \in CfgBlocks THEN cfg[b].succ ELSE <<>>

ExitSuccs(b) == IF b \in CfgBlocks /\ Succs(b) = <<>> THEN <<ExitNode>> ELSE Succs(b)

\* The sources of the edges into b, in block order.
Sources(b, succs) == SelectSeq([i \in CfgBlocks |-> i], LAMBDA p : b \in Range1(succs[p]))

RootOf(sd) == IF sd = "dom" THEN 1 ELSE ExitNode
Root == RootOf(side)
\* The edges the depth-first search follows and those the meet looks back over.
Onward(b) == IF side = "dom" THEN Succs(b) ELSE Sources(b, [p \in CfgBlocks |-> ExitSuccs(p)])

\* Variant: each edge replaces the predecessor recorded before it.
InwardLast(b) ==
    IF side = "dom"
      THEN LET from == Sources(b, [p \in CfgBlocks |-> Succs(p)]) IN SubSeq(from, Len(from), Len(from))
      ELSE ExitSuccs(b)

Inward(b) == IF side = "dom" THEN Sources(b, [p \in CfgBlocks |-> Succs(p)]) ELSE ExitSuccs(b)

\* rpo_number.
Number(b) == CHOOSE i \in DOMAIN order : order[i] = b

\* intersect: the finger later in the order moves up until the two meet.
Intersect(b1, b2) ==
    LET walk[x \in CfgNodes, y \in CfgNodes] ==
            IF x = y THEN x
            ELSE IF Number(x) > Number(y) THEN walk[idom[x], y] ELSE walk[x, idom[y]]
    IN  walk[b1, b2]

Unsolved(sd) == [b \in CfgNodes |-> IF b = RootOf(sd) THEN b ELSE Undef]

DInit ==
    /\ cfg \in Cfgs /\ side = "dom"
    /\ idom = Unsolved("dom") /\ path = <<1>> /\ order = <<>>
    /\ at = 1 /\ changed = FALSE
    /\ dom = <<>> /\ pdom = <<>>

\* dfs, dfs_collect: the search enters the next node it has not seen, or
\* leaves one, which then precedes all it has left before.
Search ==
    LET top == path[Len(path)]
        unseen == SelectSeq(Onward(top), LAMBDA b : b \notin Range1(path) \cup Range1(order))
    IN  /\ path # <<>>
        /\ \/ /\ unseen # <<>>
              /\ path' = Append(path, unseen[1])
              /\ UNCHANGED order
           \/ /\ unseen = <<>>
              /\ path' = SubSeq(path, 1, Len(path) - 1)
              /\ order' = <<top>> \o order
        /\ UNCHANGED <<cfg, side, idom, at, changed, dom, pdom>>

Sweeping == path = <<>> /\ side \in {"dom", "pdom"}

\* The meet over the neighbours that have a value already.
NewIdom(b) ==
    LET known == SelectSeq(Inward(b), LAMBDA p : idom[p] # Undef)
        meet[i \in DOMAIN known] ==
            IF i = 1 THEN known[1] ELSE Intersect(meet[i - 1], known[i])
    IN  IF known = <<>> THEN Undef ELSE meet[Len(known)]

\* Variant: every block that has a value counts as changed.
VisitAlways ==
    LET b == order[at]
        new == NewIdom(b)
    IN  /\ Sweeping /\ at <= Len(order)
        /\ at' = at + 1
        /\ IF b = Root \/ new = Undef
             THEN UNCHANGED <<idom, changed>>
             ELSE /\ idom' = [idom EXCEPT ![b] = new]
                  /\ changed' = TRUE
        /\ UNCHANGED <<cfg, side, path, order, dom, pdom>>

\* One block of the sweep.
VisitNode ==
    LET b == order[at]
        new == NewIdom(b)
    IN  /\ Sweeping /\ at <= Len(order)
        /\ at' = at + 1
        /\ IF b = Root \/ new = Undef \/ idom[b] = new
             THEN UNCHANGED <<idom, changed>>
             ELSE /\ idom' = [idom EXCEPT ![b] = new]
                  /\ changed' = TRUE
        /\ UNCHANGED <<cfg, side, path, order, dom, pdom>>

\* while changed: sweep again.
SweepAgain ==
    /\ Sweeping /\ at > Len(order) /\ changed
    /\ at' = 1 /\ changed' = FALSE
    /\ UNCHANGED <<cfg, side, idom, path, order, dom, pdom>>

\* What is returned: undef becomes the root of the search.
Filled == [b \in CfgBlocks |-> IF idom[b] = Undef THEN Root ELSE idom[b]]

\* The fixed point is reached: the dominators are returned and the
\* post-dominators begin, or those are returned.
Solved ==
    /\ Sweeping /\ at > Len(order) /\ ~changed
    /\ at' = 1 /\ changed' = FALSE
    /\ \/ /\ side = "dom" /\ side' = "pdom"
          /\ dom' = Filled
          /\ idom' = Unsolved("pdom") /\ path' = <<ExitNode>> /\ order' = <<>>
          /\ UNCHANGED pdom
       \/ /\ side = "pdom" /\ side' = "done"
          /\ pdom' = Filled
          /\ idom' = <<>> /\ path' = <<>> /\ order' = <<>>
          /\ UNCHANGED dom
    /\ UNCHANGED cfg

DNext == Search \/ VisitNode \/ SweepAgain \/ Solved

---------------------------------------------------------------------------
(* The reference: dominance by paths. *)

Forward(b) == IF b \in CfgBlocks THEN Range1(cfg[b].succ) ELSE {}
Backward(b) == {p \in CfgBlocks : b \in Forward(p) \/ (b = ExitNode /\ Forward(p) = {})}

\* The nodes some path from root reaches without going through avoid.
Reached(next(_), root, avoid) ==
    LET reach[k \in 0..ExitNode] ==
            IF k = 0 THEN {root} \ {avoid}
            ELSE LET r == reach[k - 1] IN r \cup UNION {next(b) \ {avoid} : b \in r}
    IN  reach[ExitNode]

\* d is the immediate dominator of b: every path from root to b passes d, and
\* every other node all paths pass is passed before d.
Immediate(next(_), root, d, b) ==
    LET Strict(x) == {y \in CfgNodes \ {x} : x \notin Reached(next, root, y)}
    IN  d \in Strict(b) /\ Strict(b) \ {d} = Strict(d)

\* compute_dominators: every reachable block but the entry is given its
\* immediate dominator, in irreducible graphs too; one that cannot be reached
\* is given the entry.  compute_post_dominators: a block from which the
\* function can be left is given the first block all its paths out go through,
\* the virtual exit if they end at different ones; a block that only leads into
\* an endless loop has no merge point either.
DominatorsExact ==
    side = "done" =>
        /\ \A b \in CfgBlocks \ {1} :
              IF b \in Reached(Forward, 1, Undef)
                THEN Immediate(Forward, 1, dom[b], b) ELSE dom[b] = 1
        /\ \A b \in CfgBlocks :
              IF b \in Reached(Backward, ExitNode, Undef)
                THEN Immediate(Backward, ExitNode, pdom[b], b) ELSE pdom[b] = ExitNode

=============================================================================
