----------------------------- MODULE MCStructure -----------------------------
(***************************************************************************)
(* The algorithms on graphs, one of two active: on the blocks of a         *)
(* function (every graph of three blocks whose branches have two targets,  *)
(* every connected one of four that branches to the lower block when the   *)
(* test holds, and compiled programs with ifs and loops in ifs) and on the *)
(* functions of a program.                                                 *)
(***************************************************************************)
EXTENDS Structure, Summaries

Block(kind, stmts, succ) == [kind |-> kind, stmts |-> stmts, succ |-> succ]
Ret == Block("return", TRUE, <<>>)
Jump(b) == Block("jump", TRUE, <<b>>)
Branch(t, f) == Block("cbranch", TRUE, <<t, f>>)

Straight(n) == {Ret} \cup {Jump(b) : b \in 1..n}
Branches(n) == {Branch(t, f) : <<t, f>> \in {p \in (1..n) \X (1..n) : p[1] # p[2]}}
Triples == [1..3 -> Straight(3) \cup Branches(3)
                      \cup {Block("indirect", TRUE, <<>>), Block("call", TRUE, <<2>>)}]
Quads == [1..4 -> Straight(4) \cup {b \in Branches(4) : b.succ[1] < b.succ[2]}]

\* The blocks of a graph that are reached without going through avoid.
ReachedIn(c, avoid) ==
    LET within[k \in 0..Len(c)] ==
            IF k = 0 THEN {1} \ {avoid}
            ELSE LET r == within[k - 1]
                 IN  r \cup UNION {Range1(c[b].succ) \ {avoid} : b \in r}
    IN  within[Len(c)]

\* A header of a larger loop only tests.
TestsOnly(c) ==
    [b \in DOMAIN c |->
        IF \E d \in DOMAIN c \ {b} : b \in Range1(c[d].succ) /\ d \notin ReachedIn(c, b)
          THEN [c[b] EXCEPT !.stmts = FALSE] ELSE c[b]]

---------------------------------------------------------------------------
(* Programs and the graphs a compiler makes of them. *)

Skip == [src |-> "skip"]
Plain == [src |-> "plain"]
CallS == [src |-> "call"]
Repeat == [src |-> "repeat"]
Then2(a, b) == [src |-> "then", a |-> a, b |-> b]
If(a, b) == [src |-> "if", a |-> a, b |-> b]
Loop(a) == [src |-> "loop", a |-> a]
Do(a) == [src |-> "do", a |-> a]

RECURSIVE Size(_)
Size(s) == CASE s.src = "skip" -> 0
             [] s.src \in {"plain", "call", "repeat"} -> 1
             [] s.src = "then" -> Size(s.a) + Size(s.b)
             [] s.src = "if" -> 1 + Size(s.a) + Size(s.b)
             [] s.src \in {"loop", "do"} -> 1 + Size(s.a)

\* The blocks of s, the first of them numbered b, going on at next.
RECURSIVE Code(_, _, _)
Code(s, b, next) ==
    LET Arm(x, first) == IF x = Skip THEN next ELSE first IN
    CASE s.src = "skip" -> <<>>
      [] s.src = "plain" -> <<Jump(next)>>
      [] s.src = "call" -> <<Block("call", TRUE, <<next>>)>>
      [] s.src = "repeat" -> <<Branch(b, next)>>
      [] s.src = "then" -> Code(s.a, b, b + Size(s.a)) \o Code(s.b, b + Size(s.a), next)
      [] s.src = "if" -> <<Branch(Arm(s.a, b + 1), Arm(s.b, b + 1 + Size(s.a)))>>
                           \o Code(s.a, b + 1, next) \o Code(s.b, b + 1 + Size(s.a), next)
      [] s.src = "loop" -> <<Branch(b + 1, next)>> \o Code(s.a, b + 1, b)
      [] s.src = "do" -> Code(s.a, b, b + Size(s.a)) \o <<Branch(b, next)>>

Compiled(s) == TestsOnly(Code(s, 1, Size(s) + 1) \o <<Ret>>)

Simple == {Plain, CallS, Repeat, Loop(Plain), Loop(Then2(CallS, Plain)), Do(Plain), Do(CallS)}
Ifs == {If(a, b) : a \in Simple, b \in {Skip, Plain, Loop(Plain)}}
Programs == {If(a, b) : a \in Ifs, b \in {Skip, Plain}} \cup {Then2(a, b) : a \in Ifs, b \in Simple}

SmallCfgs ==
    {TestsOnly(c) : c \in Triples} \cup {TestsOnly(c) : c \in {d \in Quads : ReachedIn(d, 0) = 1..4}}
      \cup {Compiled(s) : s \in Programs}

---------------------------------------------------------------------------
(* Programs of three functions with two parameters. *)

CallTo(a, args) == [op |-> "direct", to |-> <<a>>, args |-> args]
TailTo(a) == [op |-> "tail", to |-> <<a>>, args |-> <<{1}, {2}>>]
Through(targets) == [op |-> "indirect", to |-> targets, args |-> <<{1}, {2}>>]
Copy == [op |-> "store", slots |-> {2, GlobalSlot}]
Same == <<{1}, {2}>>
Swapped == <<{2}, {1}>>

First == {<<CallTo(a, Same), CallTo(b, Swapped)>> : a \in 1..3, b \in 2..3}
           \cup {<<CallTo(a, <<{}, {1, 2}>>)>> : a \in {2, 3, Sink}}
           \cup {<<Through(<<3, 2>>), CallTo(Source, <<{1, GlobalSlot}, {}>>)>>, <<Through(<<>>)>>,
                    <<CallTo(2, Same), TailTo(3)>>}
Second == {<<>>, <<Copy>>, <<CallTo(Source, Same)>>, <<CallTo(Sink, Same), CallTo(3, Swapped)>>,
           <<CallTo(1, Same), Copy>>, <<CallTo(2, Same)>>, <<CallTo(3, <<{2}>>)>>,
           <<CallTo(3, Same), CallTo(2, Same)>>, <<Through(<<1, 3>>), CallTo(3, Same)>>}
Third == Second \cup {<<CallTo(2, Swapped), Copy>>, <<CallTo(1, Same), CallTo(2, Same)>>,
                      <<CallTo(0, Same), TailTo(Sink)>>}
\* One pass is too few for many of the programs, four are enough for all.
SmallImages == {[body |-> <<f, g, h>>, scope |-> s, passes |-> n] :
                   f \in First, g \in Second, h \in Third, s \in {{}, {1}, {3}}, n \in {1, 4}}

NoImages == {}

\* while (c) { if (d) s1; s2 }
OneLoop == {Compiled(Loop(Then2(If(Plain, Skip), Plain)))}

SIdle ==
    /\ cfg = <<>> /\ side = "idle" /\ idom = <<>> /\ path = <<>> /\ order = <<>> /\ at = 0
    /\ changed = FALSE /\ dom = <<>> /\ pdom = <<>> /\ structured = <<>>
UIdle ==
    /\ image = [body |-> <<>>, scope |-> {}, passes |-> 1] /\ step = "idle" /\ reach = {} /\ frontier = {}
    /\ symbol = 1 /\ grow = FALSE /\ pass = 1 /\ frames = <<>> /\ indices = <<>>
    /\ lowlinks = <<>> /\ stack = <<>> /\ components = <<>> /\ summary = <<>>

Init == (SInit /\ UIdle) \/ (UInit /\ SIdle)
Next ==
    \/ SNext /\ UNCHANGED uvars
    \/ UNext /\ UNCHANGED <<dvars, structured>>
Spec == Init /\ [][Next]_<<dvars, structured, uvars>> /\ WF_dvars(DNext) /\ WF_uvars(UNext)

\* The sweeps reach their fixed point, and the exploration and the summaries end.
GraphPassesReturn ==
    /\ (side = "dom") ~> (side \in {"done", "structured"})
    /\ (step \in {"whole", "scoped", "sccs"}) ~> (step = "built")
=============================================================================
