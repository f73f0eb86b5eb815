----------------------------- MODULE MCDataflow -----------------------------
(* The evidence analyses of SSA construction and the slices read from their *)
(* result, one of the three active: propagate() runs after forward() has    *)
(* returned, and a slice is taken of finished SSA.                          *)
EXTENDS Provenance, ReachingStores, Interprocedural

Own(o) == [own |-> {o}, refs |-> {}]
SmallFunctions ==
    {<<Own(1), Own(2), Own(3), Own(4)>>,
     <<Own(3), [own |-> {2}, refs |-> {0}], Own(1), [own |-> {}, refs |-> {1, 2}]>>}

Global(at, size) == [base |-> "global", at |-> at, size |-> size]
Slot == [base |-> "sp", at |-> 0, size |-> 1]
Local == [base |-> "fp", at |-> 0, size |-> 1]
Placements == {[global |-> 0, sp |-> 0, fp |-> 2], [global |-> 0, sp |-> 2, fp |-> 2]}
A == Global(0, 1)
St(loc) == <<[op |-> "store", loc |-> loc]>>
Ld(loc) == <<[op |-> "load", loc |-> loc]>>
Other(op) == <<[op |-> op, loc |-> None]>>

\* Block 0 stores, block 1 may disturb, block 2 loads; the edges give straight
\* lines, diamonds, self loops and loops through the entry.
Body0 == {St(A), St(A) \o St(Global(1, 1)), St(Slot)}
Body1 == {<<>>, St(A), St(Slot), St(Local), St(None), Other("call"), St(Global(0, 2)), Ld(A),
          St(Global(2, 1)) \o Ld(A)}
Body2 == {Ld(A), Ld(A) \o St(A), Ld(Slot), St(A) \o Ld(A), Other("fstore") \o Ld(Global(1, 1)),
          Other("fload") \o Ld(None), St(A) \o St(Global(1, 1)) \o Ld(A)}
Succ0 == {{1}, {1, 2}}
Succ1 == {{2}, {0, 2}, {1, 2}}
Succ2 == {{}, {0}, {1}, {1, 2}}
Of(x, y, z) == [b \in Blocks |-> CASE b = 0 -> x [] b = 1 -> y [] OTHER -> z]
SmallPrograms ==
    {[body |-> Of(x, y, z), succ |-> Of(s, t, u), calls |-> Of(y = <<>> /\ u = {}, FALSE, FALSE)] :
        x \in Body0, y \in Body1, z \in Body2, s \in Succ0, t \in Succ1, u \in Succ2}

\* Small call graphs: f calls g or itself, g calls back, calls h or nothing.
Op(deps) == [deps |-> deps, boundary |-> "none", slot |-> 0, call |-> "no", args |-> <<>>]
Param(slot) == [deps |-> <<>>, boundary |-> "external_input", slot |-> slot, call |-> "no",
                args |-> <<>>]
Memory(addr) == [deps |-> <<addr>>, boundary |-> "unmodeled_memory", slot |-> 0, call |-> "no",
                 args |-> <<>>]
Call(target, args) == [deps |-> <<>>, boundary |-> "unmodeled_call", slot |-> 0,
                       call |-> target, args |-> args]

FVars == {<<Op(<<2, 3>>), Call(target, args), third, Op(<<>>)>> :
             target \in {"f", "g"}, args \in {<<>>, <<3>>},
             third \in {Op(<<>>), Memory(1), Call("g", <<1>>), Op(<<1, 1, 1, 1, 1, 1, 4>>)}}
         \cup {<<Op(<<2, 3>>), Call(target, <<3>>), Param(1), Op(<<>>)>> :
                  target \in {"g", "import", "err"}}
         \cup {<<Op(<<2, 3>>), Op(<<>>), Op(<<1, 1, 1, 1, 1, 1, 4>>), Op(<<>>)>>}
GVars == {<<Op(<<2, 3>>), Param(1), third>> :
             third \in {Op(<<>>), Op(<<9>>), Call("g", <<>>), Call("f", <<>>), Call("h", <<2>>)}}
H == [vars |-> <<Op(<<2>>), Param(1)>>, returns |-> <<2, 1>>, effects |-> FALSE]

SmallBinaries ==
    {[f |-> [vars |-> fv, returns |-> <<1>>, effects |-> FALSE],
      g |-> [vars |-> gv, returns |-> ret.to, effects |-> ret.effects],
      h |-> H] :
        fv \in FVars, gv \in GVars,
        ret \in {[to |-> <<1>>, effects |-> TRUE], [to |-> <<>>, effects |-> FALSE],
                 [to |-> <<1>>, effects |-> FALSE], [to |-> <<3, 1>>, effects |-> FALSE]}}

Limited(n, d, c, f, w) == [nodes |-> n, depth |-> d, callDepth |-> c, functions |-> f, work |-> w]
SmallLimits == {Limited(9, 9, 3, 3, 60), Limited(9, 9, 1, 2, 60), Limited(4, 9, 3, 3, 60),
                Limited(9, 2, 3, 3, 60), Limited(9, 9, 3, 3, 14), Limited(9, 9, 3, 1, 60)}

PIdle ==
    /\ function = <<>> /\ pcount = 0 /\ inputs = <<>> /\ owed = <<>> /\ operations = <<>>
    /\ truncated = <<>> /\ pphase = "edit" /\ queue = <<>> /\ pwork = 0 /\ marked = {}
    /\ rewrites = 0
MIdle ==
    /\ prog = [body |-> Of(<<>>, <<>>, <<>>), succ |-> Of({}, {}, {}),
               calls |-> Of(FALSE, FALSE, FALSE)]
    /\ entries = <<>> /\ exits = <<>> /\ mqueue = <<>> /\ mwork = 0 /\ mphase = "idle"
    /\ claims = <<>> /\ pc = <<0, 1>> /\ frame = <<>> /\ bytes = <<>>

IIdle ==
    /\ code = <<>> /\ limits = Limited(0, 0, 0, 1, 0) /\ phase = "idle" /\ jobs = <<>>
    /\ visited = {} /\ pending = <<>> /\ here = [ctx |-> 1, depth |-> 0] /\ contexts = <<>>
    /\ nodes = <<>> /\ functions = {} /\ work = 0 /\ inputsUsed = 0 /\ cutShort = FALSE
    /\ stops = {} /\ complete = FALSE /\ LocalIdle

Init == (PInit /\ MIdle /\ IIdle) \/ (MInit /\ PIdle /\ IIdle) \/ (IInit /\ PIdle /\ MIdle)
Next ==
    \/ PNext /\ UNCHANGED <<mvars, ivars>>
    \/ MNext /\ UNCHANGED <<pvars, ivars>>
    \/ INext /\ UNCHANGED <<pvars, mvars>>
Spec ==
    /\ Init /\ [][Next]_<<pvars, mvars, ivars>>
    /\ WF_pvars(PStep) /\ WF_mvars(MAnalysis) /\ WF_ivars(INext)

\* propagate(), forward() and backward() return: on cyclic SSA, on irreducible
\* graphs whose states never settle and on recursive programs too.
AnalysesReturn == PropagateReturns /\ ForwardReturns /\ SliceReturns
=============================================================================
