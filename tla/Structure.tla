------------------------------ MODULE Structure ------------------------------
(***************************************************************************)
(* recover_structure of rsleigh-decompile/src/structure.rs: from a control *)
(* flow graph, its dominators and its post-dominators (Dominators) to      *)
(* nested ifs and loops.  A block's statements and its call are one item   *)
(* each; a condition is named by the block that tests it.                  *)
(*                                                                         *)
(* Conditions are not tests of one variable against constants, so there    *)
(* are no jump-table chains and nothing to collapse into a switch, and     *)
(* the only goto is the one for an indirect jump, which stays.             *)
(***************************************************************************)
EXTENDS Dominators

CONSTANTS
    MaxStructureDepth,      \* MAX_STRUCTURE_DEPTH
    MaxTests                \* bound of the properties: tests of one execution

VARIABLE structured     \* the statements recover_structure returns

Stmts(b) == IF cfg[b].stmts THEN <<[op |-> "stmts", block |-> b]>> ELSE <<>>
CallStmt(b) == [op |-> "call", block |-> b]
ReturnStmt(b) == [op |-> "return", block |-> b]
Goto == [op |-> "goto"]
IfElse(b, then, else) == [op |-> "if", block |-> b, then |-> then, else |-> else]
While(b, negate, body) == [op |-> "while", block |-> b, negate |-> negate, body |-> body]
DoWhile(b, negate, body) == [op |-> "dowhile", block |-> b, negate |-> negate, body |-> body]

Is(b, kind) == b \in CfgBlocks /\ cfg[b].kind = kind
Taken(b) == cfg[b].succ[1]
Fallthrough(b) == cfg[b].succ[2]
NextOf(b) == cfg[b].succ[1]

\* dominates(): a is found by walking up from b.
Dominates(a, b) ==
    LET up[x \in CfgBlocks] == IF dom[x] = x THEN {x} ELSE {x} \cup up[dom[x]]
    IN  a \in up[b]

\* back_edges: the edges into a block that dominates their source.
BackSources(h) == {b \in CfgBlocks : h \in Range1(Succs(b)) /\ Dominates(h, b)}
IsHeader(b) == BackSources(b) # {}
BackSource(h) == CHOOSE b \in BackSources(h) : \A c \in BackSources(h) : b <= c

\* can_reach: a depth-first search from one block for the other that gives up
\* after as many steps as there are blocks, repeated visits counted.
CanReach(from, to) ==
    LET RECURSIVE Look(_, _, _)
        Look(stack, seen, steps) ==
            IF stack = <<>> \/ steps > Len(cfg) THEN FALSE
            ELSE LET b == stack[Len(stack)]
                     rest == SubSeq(stack, 1, Len(stack) - 1)
                 IN  IF b \in seen THEN Look(rest, seen, steps + 1)
                     ELSE \/ to \in Range1(Succs(b))
                          \/ Look(rest \o Succs(b), seen \cup {b}, steps + 1)
    IN  from = to \/ Look(<<from>>, {}, 0)

\* A list that ends in a return on every path makes the condition of a
\* do-while around it dead.
RECURSIVE AlwaysReturns(_)
AlwaysReturns(stmts) ==
    /\ stmts # <<>>
    /\ LET last == stmts[Len(stmts)] IN
       \/ last.op = "return"
       \/ last.op = "if" /\ AlwaysReturns(last.then) /\ AlwaysReturns(last.else)

\* The loop emitted for a body, which bounds what the body may run into.
PostTested(test, negate, body) ==
    IF AlwaysReturns(body) THEN body ELSE <<DoWhile(test, negate, body)>>

\* shared_tail: the blocks of the straight path from an emitted start to merge
\* or a return, at most four and none of them a loop header.
SharedTail(start, merge, emitted) ==
    LET Ends(b) == cfg[b].kind = "return" \/ NextOf(b) = merge
        tail[k \in 1..4] ==
            IF k = 1 THEN start
            ELSE IF tail[k - 1] = Undef THEN Undef
            ELSE LET b == tail[k - 1]
                 IN  IF cfg[b].kind \in {"jump", "call"} /\ ~Ends(b) THEN NextOf(b) ELSE Undef
        Upto(k) == {tail[i] : i \in 1..k}
        Good(k) == /\ Undef \notin Upto(k)
                   /\ \A i, j \in 1..k : i # j => tail[i] # tail[j]
                   /\ \A b \in Upto(k) : ~IsHeader(b) /\ cfg[b].kind \in {"return", "jump", "call"}
                   /\ Ends(tail[k])
    IN  IF start \in emitted /\ \E k \in 1..4 : Good(k)
          THEN Upto(CHOOSE k \in 1..4 : Good(k)) ELSE {}

---------------------------------------------------------------------------
(* emit_region: what a region emits, and the blocks emitted after it. *)

Region(out, emitted) == [out |-> out, emitted |-> emitted]
Then(out, region) == [region EXCEPT !.out = out \o @]

\* The mark set on a block while something inside is emitted is taken back.
Unmark(b, before, after) == IF b \in before THEN after \cup {b} ELSE after \ {b}

\* The latch of a loop whose header falls through: the first back edge's
\* source, or the block after it, if it branches.
LatchAfter(h) ==
    LET back == BackSource(h) IN
    IF Is(back, "cbranch") THEN back
    ELSE IF Is(back, "jump") /\ Is(NextOf(back), "cbranch") THEN NextOf(back) ELSE Undef

\* The latch of a loop whose header branches, and the block it continues at:
\* a back edge that always jumps is a link behind the branch that leads to it.
LatchBefore(h) ==
    LET back == BackSource(h)
        up == {b \in CfgBlocks : Is(b, "cbranch") /\ back \in Range1(Succs(b))}
    IN  IF Is(back, "cbranch") \/ up = {}
          THEN [test |-> back, to |-> h]
          ELSE [test |-> CHOOSE b \in up : \A c \in up : b <= c, to |-> back]

\* The branch of the latch that leaves the loop, and whether the condition is
\* negated; Undef if neither branch continues the loop.
LeavesBy(latch, continues) ==
    IF ~Is(latch, "cbranch") THEN [exit |-> Undef, negate |-> FALSE]
    ELSE IF Taken(latch) \in continues THEN [exit |-> Fallthrough(latch), negate |-> FALSE]
    ELSE IF Fallthrough(latch) \in continues THEN [exit |-> Taken(latch), negate |-> TRUE]
    ELSE [exit |-> Undef, negate |-> FALSE]

\* A while loop tested by block b: the branch that comes back is the body.
WhileShape(b, targets) ==
    IF \E t \in targets : CanReach(Taken(b), t)
    THEN [body |-> Taken(b), exit |-> Fallthrough(b), negate |-> FALSE]
    ELSE [body |-> Fallthrough(b), exit |-> Taken(b), negate |-> TRUE]

RECURSIVE Emit(_, _, _)

\* do { body } while (test): start is where the body's region begins, first
\* what precedes it in the body.
EmitDoWhile(start, first, back, leave, test, emitted, depth) ==
    LET inner == Emit(start, emitted \cup {leave.exit}, depth + 1)
        missed == back \notin emitted /\ back \notin inner.emitted
        body == first \o inner.out \o (IF missed THEN Stmts(back) ELSE <<>>)
        after == IF missed THEN inner.emitted \cup {back} ELSE inner.emitted
    IN  Then(PostTested(test, leave.negate, body),
             Emit(leave.exit, Unmark(leave.exit, emitted, after), depth))

\* while (test) { body }, after what is emitted in front of it.
EmitWhile(front, test, shape, emitted, depth) ==
    LET inner == Emit(shape.body, emitted \cup {shape.exit}, depth + 1)
    IN  Then(front \o <<While(test, shape.negate, inner.out)>>,
             Emit(shape.exit, Unmark(shape.exit, emitted, inner.emitted), depth))

\* A header that ends in a jump or a call: a do-while, a while tested by the
\* next block, or no loop after all.
EmitPlainHeader(b, call, emitted, depth) ==
    LET next == NextOf(b)
        latch == IF call = <<>> THEN LatchAfter(b) ELSE BackSource(b)
        leave == LeavesBy(latch, {b})
    IN  IF leave.exit # Undef
          THEN EmitDoWhile(next, call, BackSource(b), leave, latch, emitted, depth)
        ELSE IF Is(next, "cbranch") /\ next \notin emitted
          THEN EmitWhile(call \o Stmts(next), next,
                         WhileShape(next, {b}), emitted \cup {next}, depth)
        ELSE Then(call, Emit(next, emitted, depth))

\* A header that branches, tested at the end by another block: its own branch
\* is an if inside the body.
EmitBranchingDoWhile(b, latch, leave, emitted, depth) ==
    LET marked == emitted \cup {leave.exit, latch}
        left == IF Taken(b) = latch THEN Region(<<>>, marked)
                ELSE Emit(Taken(b), marked, depth + 1)
        right == IF Fallthrough(b) = latch THEN Region(<<>>, left.emitted)
                 ELSE Emit(Fallthrough(b), left.emitted, depth + 1)
        body == Stmts(b) \o <<IfElse(b, left.out, right.out)>>
                  \o (IF latch \in emitted \cup {leave.exit} THEN <<>> ELSE Stmts(latch))
        after == Unmark(leave.exit, emitted, right.emitted) \cup {latch, b}
    IN  Then(PostTested(latch, leave.negate, body), Emit(leave.exit, after, depth))

\* A header that branches: a do-while, a block that loops on itself, a while.
EmitBranchHeader(b, emitted, depth) ==
    LET latch == LatchBefore(b)
        leave == LeavesBy(latch.test, {b, latch.to})
        shape == WhileShape(b, {b, latch.test})
        inner == Emit(shape.body, emitted \cup {shape.exit}, depth + 1)
    IN  IF latch.test # b /\ leave.exit # Undef
          THEN EmitBranchingDoWhile(b, latch.test, leave, emitted, depth)
        ELSE IF b \in Range1(Succs(b))
          THEN Then(<<DoWhile(b, shape.negate, Stmts(b) \o inner.out)>>,
                    Emit(shape.exit, Unmark(shape.exit, emitted, inner.emitted), depth))
        ELSE EmitWhile(<<>>, b, shape, emitted, depth)

\* One arm of an if, bounded by the merge point.
EmitArm(start, merge, emitted, depth) ==
    LET shared == SharedTail(start, merge, emitted)
        inner == Emit(start, emitted \ shared, depth + 1)
    IN  IF start = merge THEN Region(<<>>, emitted)
        ELSE Region(inner.out, inner.emitted \cup shared)

\* Variant: nothing keeps the arms from running past the merge point.
EmitIfUnbounded(b, emitted, depth) ==
    LET merge == pdom[b]
        left == EmitArm(Taken(b), merge, emitted, depth)
        right == EmitArm(Fallthrough(b), merge, left.emitted, depth)
    IN  Then(<<IfElse(b, left.out, right.out)>>, Emit(merge, right.emitted, depth))

\* if/else: the arms end at the post-dominator, where emission goes on.
EmitIf(b, emitted, depth) ==
    LET merge == pdom[b]
        left == EmitArm(Taken(b), merge, emitted \cup ({merge} \cap CfgBlocks), depth)
        right == EmitArm(Fallthrough(b), merge, left.emitted, depth)
        after == IF merge \in CfgBlocks THEN Unmark(merge, emitted, right.emitted)
                 ELSE right.emitted
    IN  Then(<<IfElse(b, left.out, right.out)>>, Emit(merge, after, depth))

SelfLoop(b) == IsHeader(b) /\ Is(b, "cbranch") /\ b \in Range1(Succs(b))

EmitBlock(b, emitted, depth) ==
    LET call == IF Is(b, "call") THEN <<CallStmt(b)>> ELSE <<>> IN
    CASE Is(b, "return") -> Region(<<ReturnStmt(b)>>, emitted)
      [] Is(b, "indirect") -> Region(<<Goto>>, emitted)
      [] Is(b, "jump") \/ Is(b, "call") ->
           IF IsHeader(b) THEN EmitPlainHeader(b, call, emitted, depth)
           ELSE Then(call, Emit(NextOf(b), emitted, depth))
      [] Is(b, "cbranch") ->
           IF IsHeader(b) THEN EmitBranchHeader(b, emitted, depth)
           ELSE EmitIf(b, emitted, depth)

Emit(b, emitted, depth) ==
    IF depth >= MaxStructureDepth THEN Region(<<Goto>>, emitted)
    ELSE IF b \notin CfgBlocks \ emitted THEN Region(<<>>, emitted)
    ELSE Then(IF SelfLoop(b) THEN <<>> ELSE Stmts(b), EmitBlock(b, emitted \cup {b}, depth))

---------------------------------------------------------------------------
(* recover_structure *)

Exits(stmts) == stmts # <<>> /\ stmts[Len(stmts)].op \in {"return", "goto"}

\* flatten_if_return: what follows an arm that leaves moves out of the else.
RECURSIVE Flatten(_)
Flatten(stmts) ==
    IF stmts = <<>> THEN <<>>
    ELSE LET s == Head(stmts) IN
      (CASE s.op = "if" ->
              LET then == Flatten(s.then)
                  else == Flatten(s.else)
              IN  IF Exits(then) THEN <<IfElse(s.block, then, <<>>)>> \o else
                  ELSE <<IfElse(s.block, then, else)>>
         [] s.op \in {"while", "dowhile"} -> <<[s EXCEPT !.body = Flatten(@)]>>
         [] OTHER -> <<s>>) \o Flatten(Tail(stmts))

RecoverStructure ==
    /\ side = "done" /\ side' = "structured"
    /\ structured' = Flatten(Emit(1, {}, 0).out)
    /\ UNCHANGED <<cfg, idom, path, order, at, changed, dom, pdom>>

SInit == DInit /\ structured = <<>>
SNext == (DNext /\ UNCHANGED structured) \/ RecoverStructure

---------------------------------------------------------------------------
(* What a program does: the statements, calls and tests it runs for a given *)
(* sequence of outcomes of its tests, until it returns or they run out.     *)

Log(s, b, what) == [s EXCEPT !.log = Append(@, <<what, b>>)]
Starting(outcomes) == [log |-> <<>>, left |-> outcomes, end |-> "running"]
Tested(s, b) ==
    IF s.left = <<>> THEN [s EXCEPT !.end = "cut"]
    ELSE [Log(s, b, "test") EXCEPT !.left = Tail(@)]

RECURSIVE RunBlocks(_, _)
RunBlocks(b, s) ==
    LET done == IF cfg[b].stmts THEN Log(s, b, "stmts") ELSE s
        tested == Tested(done, b)
    IN  CASE cfg[b].kind = "return" -> [Log(done, b, "return") EXCEPT !.end = "returned"]
          [] cfg[b].kind = "indirect" -> [done EXCEPT !.end = "goto"]
          [] cfg[b].kind = "jump" -> RunBlocks(NextOf(b), done)
          [] cfg[b].kind = "call" -> RunBlocks(NextOf(b), Log(done, b, "call"))
          [] cfg[b].kind = "cbranch" ->
               IF tested.end = "cut" THEN tested
               ELSE RunBlocks(IF Head(s.left) THEN Taken(b) ELSE Fallthrough(b), tested)

RECURSIVE RunStmts(_, _)
RunStmts(stmts, s) ==
    IF stmts = <<>> \/ s.end # "running" THEN s
    ELSE LET t == Head(stmts)
             Rest(r) == RunStmts(Tail(stmts), r)
             Loop(r) == LET tested == Tested(r, t.block) IN
                        IF r.end # "running" THEN r
                        ELSE IF tested.end = "cut" THEN tested
                        ELSE IF Head(r.left) = t.negate THEN Rest(tested)
                        ELSE IF t.op = "while"
                          THEN RunStmts(stmts, RunStmts(t.body, tested)) ELSE RunStmts(stmts, tested)
         IN  CASE t.op \in {"stmts", "call"} -> Rest(Log(s, t.block, t.op))
               [] t.op = "return" -> [Log(s, t.block, "return") EXCEPT !.end = "returned"]
               [] t.op = "goto" -> [s EXCEPT !.end = "goto"]
               [] t.op = "if" ->
                    LET tested == Tested(s, t.block) IN
                    IF t.then = <<>> /\ t.else = <<>> THEN Rest(s)
                    ELSE IF tested.end = "cut" THEN tested
                    ELSE Rest(RunStmts(IF Head(s.left) THEN t.then ELSE t.else, tested))
               [] t.op = "while" -> Loop(s)
               [] t.op = "dowhile" -> Loop(RunStmts(t.body, s))

SameBehaviour(outcomes) ==
    RunStmts(structured, Starting(outcomes)) = RunBlocks(1, Starting(outcomes))

---------------------------------------------------------------------------
(* The shapes the recovery is written for. *)

\* The loop of a header: the blocks that lead back to it.
LoopOf(h) == {h} \cup UNION {Reached(Backward, b, h) : b \in BackSources(h)}
AheadOf(b) == {c \in Forward(b) : ~Dominates(c, b)}

\* A loop with one branch, its header's or its latch's, that comes back from
\* one place only.  A header that is not the whole loop has no statements of
\* its own: they would be printed before the loop.
SimpleLoop(h) ==
    /\ \E b \in CfgBlocks : BackSources(h) = {b}
    /\ \E test \in {h} \cup BackSources(h) :
         \A b \in LoopOf(h) : Is(b, "cbranch") <=> b = test
    /\ cfg[h].stmts => SelfLoop(h)

\* Paths that part at the dominator of b and join at b join where all paths
\* from there do, or lead straight on to that place.
JoinsAtMerge(b) ==
    LET merge == pdom[dom[b]]
    IN  \/ \A p, q \in CfgBlocks : b \in AheadOf(p) \cap AheadOf(q) => p = q
        \/ merge = b
        \/ \A c \in Reached(Forward, b, merge) : ~Is(c, "cbranch")

\* Every block is reachable and can leave, every cycle is a simple loop, and
\* the arms of every if meet again.
Structurable ==
    \A b \in CfgBlocks :
        /\ b \in Reached(Forward, 1, Undef) /\ b \in Reached(Backward, ExitNode, Undef)
        /\ \A c \in AheadOf(b) : b \notin Reached(AheadOf, c, Undef)
        /\ IsHeader(b) => SimpleLoop(b)
        /\ JoinsAtMerge(b)
        /\ Is(b, "cbranch") => IsHeader(b) \/ pdom[b] \in CfgBlocks

\* recover_structure: of such a function the printed ifs and loops run the
\* same statements, calls and returns as the graph, whatever its tests yield.
BehaviourKept ==
    side = "structured" /\ Structurable =>
        \A outcomes \in [1..MaxTests -> BOOLEAN] : SameBehaviour(outcomes)

\* "a DIFFERENT CBranch block that tests loop exit": the branch of the block
\* taken for the latch that does not continue the loop leaves it.
LatchTestsExit ==
    side = "structured" => \A h \in CfgBlocks :
        Is(h, "cbranch") /\ IsHeader(h) =>
            LET latch == LatchBefore(h)
                leave == LeavesBy(latch.test, {h, latch.to})
            IN  latch.test # h /\ leave.exit # Undef => leave.exit \notin LoopOf(h)
=============================================================================
