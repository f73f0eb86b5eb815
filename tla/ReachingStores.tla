--------------------------- MODULE ReachingStores ---------------------------
(***************************************************************************)
(* The reaching-store analysis over completed register SSA                 *)
(* (src/rsleigh-decompile/src/memory.rs, with ExactLocation of region.rs): *)
(* forward() iterates block entry and exit states to a fixpoint or to a    *)
(* work ceiling, then walks every block once more and tells each load      *)
(* which stores it reads, or why it cannot say.                            *)
(*                                                                         *)
(* The program is an input.  After the analysis the module executes it on  *)
(* a byte memory with every placement of the frames, along every path, so  *)
(* that what the analysis told a load can be compared with the bytes the   *)
(* load meets.                                                             *)
(***************************************************************************)
EXTENDS Naturals, FiniteSets, Sequences, SequencesExt, Orders

CONSTANTS
    NumBlocks,    \* blocks 0 .. NumBlocks - 1; block 0 is the entry
    Programs,     \* the functions to analyse, [body, succ, calls] by block
    VisitFactor,  \* visits per block: 64 in the code
    MaxStores,    \* MAX_STORES
    MaxLocations, \* MAX_LOCATIONS
    Bases,        \* "global" and the values a frame register came in as
    Bytes,        \* the addresses of the executed memory
    Frames        \* the addresses the bases may have, together

VARIABLES
    prog,     \* the SSA function: statements, successors, a call at the end
    entries,  \* entries
    exits,    \* exits
    mqueue,   \* queue
    mwork,    \* work
    mphase,   \* "iterate", "apply", "execute"
    claims,   \* vars[load].memory: what forward() told every load
    pc,       \* the execution: block and index of the next statement
    frame,    \* the execution: the address of each base
    bytes     \* the execution: who wrote each byte last

mvars == <<prog, entries, exits, mqueue, mwork, mphase, claims, pc, frame, bytes>>

Blocks == 0 .. NumBlocks - 1
None == [base |-> "none", at |-> 0, size |-> 0]   \* exact_location gave None
Nobody == <<NumBlocks, 0>>                        \* no store of the function

(***************************************************************************)
(* Statements are [op, loc] with op one of                                 *)
(*   "store", "load"    through RAM, loc an exact location or None;        *)
(*   "fstore", "fload"  in another address space;                          *)
(*   "call"             Stmt::Call or a user operation;                    *)
(* a location is [base, at, size]; "global" is the base of addresses.       *)
(***************************************************************************)
Locations ==
    {loc \in [base : Bases, at : Nat, size : Nat \ {0}] :
        \A f \in Frames :
            f[loc.base] + loc.at .. f[loc.base] + loc.at + loc.size - 1 \subseteq Bytes}

Statements == [op : {"store", "load", "fstore", "fload", "call"}, loc : Locations \cup {None}]

\* The executed memory holds every location a statement names, wherever the
\* frames lie.
ASSUME ReachingStoresAssumption ==
    /\ NumBlocks \in Nat \ {0}
    /\ VisitFactor \in Nat /\ MaxStores \in Nat /\ MaxLocations \in Nat
    /\ Frames \subseteq {f \in [Bases \cup {"global"} -> Nat] : f["global"] = 0}
    /\ \A p \in Programs : /\ p.body \in [Blocks -> Seq(Statements)]
                          /\ p.succ \in [Blocks -> SUBSET Blocks]
                          /\ p.calls \in [Blocks -> BOOLEAN]

Overlaps(a, b) == a.at < b.at + b.size /\ b.at < a.at + a.size

\* Variant of MayOverlap: different frame bases are assumed disjoint.
FramesApart(a, b) ==
    IF a.base = b.base THEN Overlaps(a, b) ELSE "global" \in {a.base, b.base}

\* ExactLocation::may_overlap: different bases are not assumed disjoint.
MayOverlap(a, b) == a.base = b.base => Overlaps(a, b)

\* State: the known locations as a function to sets of stores, and the reason
\* to give for the others.
Empty(why) == [values |-> <<>>, boundary |-> why]

Retain(values, keep) == [key \in keep |-> values[key]]

\* State::store.  `id' is the stored value, one per store statement.
StoreInto(state, loc, id) ==
    IF loc = None THEN Empty("ambiguous_alias") ELSE
    LET kept == {key \in DOMAIN state.values : ~MayOverlap(key, loc)}
        hit == \E key \in DOMAIN state.values : MayOverlap(key, loc) /\ key # loc
        full == Cardinality(kept) >= MaxLocations
        old == IF full THEN <<>> ELSE Retain(state.values, kept)
    IN  [values |-> [key \in DOMAIN old \cup {loc} |->
                        IF key = loc THEN {id} ELSE old[key]],
         boundary |-> IF full THEN "memory_state_limit"
                      ELSE IF hit THEN "overlapping_store" ELSE state.boundary]

\* State::step.
StepState(state, stmt, id) ==
    CASE stmt.op = "store" -> StoreInto(state, stmt.loc, id)
      [] stmt.op = "fstore" -> Empty("unsupported_address_space")
      [] stmt.op = "call" -> Empty("unsupported_side_effects")
      [] OTHER -> state

\* The states of a walk through block b: before its first statement, before its
\* second, and so on to its end.
Walk(b, entry) ==
    LET state[k \in 1 .. Len(prog.body[b]) + 1] ==
            IF k = 1 THEN entry
            ELSE StepState(state[k - 1], prog.body[b][k - 1], <<b, k - 1>>)
    IN  state

Exit(b, entry) ==
    IF prog.calls[b] THEN Empty("unsupported_side_effects")
    ELSE Walk(b, entry)[Len(prog.body[b]) + 1]

\* cfg.successors(): in the order of the terminator's targets, which may be any.
Listings(S) == {order \in [1 .. Cardinality(S) -> S] : Range(order) = S}

\* cfg.predecessors(): those of a block are listed in block order.
Preds(b) == {p \in Blocks : b \in prog.succ[p]}

\* One turn of merge(): only what both sides know stays, and only while its
\* stores fit.  The keys are visited in order; the reason is that of the last
\* one dropped.
Join(a, b) ==
    LET both == DOMAIN a.values \cap DOMAIN b.values
        kept == {key \in both : Cardinality(a.values[key] \cup b.values[key]) <= MaxStores}
        Rank(key) == <<IF key.base = "global" THEN 0 ELSE 1, key.at, key.size>>
        Less(k, l) == LET r == Rank(k) s == Rank(l) IN
            \/ r[1] < s[1]
            \/ r[1] = s[1] /\ r[2] < s[2]
            \/ r[1] = s[1] /\ r[2] = s[2] /\ r[3] < s[3]
        dropped == DOMAIN a.values \ kept
        last == CHOOSE key \in dropped : \A other \in dropped \ {key} : Less(other, key)
    IN  [values |-> [key \in kept |-> a.values[key] \cup b.values[key]],
         boundary |-> IF dropped = {} THEN a.boundary
                      ELSE IF last \in both THEN "memory_state_limit" ELSE b.boundary]

\* merge().
Merge(preds) ==
    LET result[i \in 1 .. Len(preds)] ==
            IF i = 1 THEN exits[preds[1]] ELSE Join(result[i - 1], exits[preds[i]])
    IN  IF preds = <<>> THEN Empty("unmodeled_memory") ELSE result[Len(preds)]

\* The function may be entered at block 0 with any memory.
EntryState(b, preds) == IF b = 0 THEN Empty("unmodeled_memory") ELSE Merge(preds)

MInit ==
    /\ prog \in Programs
    /\ entries = [b \in Blocks |-> Empty("unmodeled_memory")]
    /\ exits = entries
    /\ mqueue = [k \in 1 .. NumBlocks |-> k - 1]
    /\ mwork = 0
    /\ mphase = "iterate"
    /\ claims = [b \in Blocks |-> <<>>]
    /\ pc = <<0, 1>>
    /\ frame \in Frames
    /\ bytes = [a \in Bytes |-> Nobody]

MLimit == NumBlocks * VisitFactor

\* Variant of VisitBlock: every visit queues the successors, and none is counted.
VisitUncounted ==
    /\ mphase = "iterate" /\ mqueue # <<>> /\ mwork < MLimit
    /\ LET b == Head(mqueue) IN
       \E preds \in Ascending(Preds(b)), more \in Listings(prog.succ[b] \ ToSet(Tail(mqueue))) :
       /\ entries' = [entries EXCEPT ![b] = EntryState(b, preds)]
       /\ exits' = [exits EXCEPT ![b] = Exit(b, EntryState(b, preds))]
       /\ mqueue' = Tail(mqueue) \o more
    /\ UNCHANGED <<prog, mwork, mphase, claims, pc, frame, bytes>>

\* One turn of the worklist of forward().
VisitBlock ==
    /\ mphase = "iterate" /\ mqueue # <<>> /\ mwork < MLimit
    /\ LET b == Head(mqueue)
           rest == Tail(mqueue)
       IN  \E preds \in Ascending(Preds(b)), more \in Listings(prog.succ[b] \ ToSet(rest)) :
           \E entry \in {EntryState(b, preds)} : \E exit \in {Exit(b, entry)} :
           /\ entries' = [entries EXCEPT ![b] = entry]
           /\ exits' = [exits EXCEPT ![b] = exit]
           /\ mqueue' = IF exit = exits[b] THEN rest ELSE rest \o more
    /\ mwork' = mwork + 1
    /\ UNCHANGED <<prog, mphase, claims, pc, frame, bytes>>

Stabilised ==
    /\ mphase = "iterate" /\ mqueue = <<>>
    /\ mphase' = "apply"
    /\ UNCHANGED <<prog, entries, exits, mqueue, mwork, claims, pc, frame, bytes>>

\* The ceiling: no block entry is trusted any more.
LimitReached ==
    /\ mphase = "iterate" /\ mqueue # <<>> /\ mwork >= MLimit
    /\ entries' = [b \in Blocks |-> Empty("memory_traversal_limit")]
    /\ mphase' = "apply"
    /\ UNCHANGED <<prog, exits, mqueue, mwork, claims, pc, frame, bytes>>

\* What forward() tells a load of the state before it.
Claim(state, stmt) ==
    IF stmt.op = "fload" THEN [stores |-> {}, boundary |-> "unsupported_address_space"]
    ELSE IF stmt.loc = None
         THEN [stores |-> {}, boundary |-> IF state.values = <<>> THEN state.boundary
                                           ELSE "ambiguous_alias"]
    ELSE IF stmt.loc \in DOMAIN state.values
         THEN [stores |-> state.values[stmt.loc], boundary |-> "none"]
    ELSE [stores |-> {}, boundary |-> state.boundary]

IsLoad(stmt) == stmt.op \in {"load", "fload"}

\* The last loop of forward(): every block is replayed from its entry state.
Apply ==
    /\ mphase = "apply"
    /\ claims' = [b \in Blocks |->
                    [k \in DOMAIN prog.body[b] |->
                        IF IsLoad(prog.body[b][k])
                        THEN Claim(Walk(b, entries[b])[k], prog.body[b][k])
                        ELSE [stores |-> {}, boundary |-> "none"]]]
    /\ mphase' = "execute"
    /\ UNCHANGED <<prog, entries, exits, mqueue, mwork, pc, frame, bytes>>

MAnalysis == VisitBlock \/ Stabilised \/ LimitReached \/ Apply

-----------------------------------------------------------------------------
(* The analysed function runs: what its statements really do to memory.    *)

Touched(loc) ==
    LET start == frame[loc.base] + loc.at
    IN  start .. start + loc.size - 1

\* A statement writes what its location names; a store through an unknown
\* pointer, a call and a user operation may write any byte, or none.
Writes(stmt) ==
    IF stmt.op = "store" /\ stmt.loc # None THEN {Touched(stmt.loc)}
    ELSE IF stmt.op \in {"store", "call"} THEN {{}} \cup {{a} : a \in Bytes}
    ELSE {{}}

Write(written, id) == [a \in Bytes |-> IF a \in written THEN id ELSE bytes[a]]

Execute ==
    /\ mphase = "execute"
    /\ pc[2] \in DOMAIN prog.body[pc[1]]
    /\ LET stmt == prog.body[pc[1]][pc[2]] IN
       \E written \in Writes(stmt) :
          bytes' = Write(written, IF stmt.op = "store" THEN pc ELSE Nobody)
    /\ pc' = <<pc[1], pc[2] + 1>>
    /\ UNCHANGED <<prog, entries, exits, mqueue, mwork, mphase, claims, frame>>

Jump ==
    /\ mphase = "execute"
    /\ pc[2] \notin DOMAIN prog.body[pc[1]]
    /\ \E b \in prog.succ[pc[1]] : pc' = <<b, 1>>
    /\ \E written \in {{}} \cup {{a} : a \in IF prog.calls[pc[1]] THEN Bytes ELSE {}} :
          bytes' = Write(written, Nobody)
    /\ UNCHANGED <<prog, entries, exits, mqueue, mwork, mphase, claims, frame>>

MNext == MAnalysis \/ Execute \/ Jump

MSpec == MInit /\ [][MNext]_mvars /\ WF_mvars(MAnalysis)

-----------------------------------------------------------------------------
\* A store a load of the same block follows is found, the ceiling
\* notwithstanding ("only same-block stores are followed"): it is when no store
\* lies between, and when those up to the load fit with what the block began with.
\* MAX_LOCATIONS alone is no such bound: a state that is full at the block's
\* entry loses the store to the next one.
StoresBefore(b, k) == Cardinality({i \in 1 .. k - 1 : prog.body[b][i].op = "store"})

SameBlockFollowed ==
    mphase = "execute" => \A b \in Blocks : \A k, j \in DOMAIN prog.body[b] :
        LET load == prog.body[b][k]
            store == prog.body[b][j]
        IN  /\ j < k /\ load.op = "load" /\ store.op = "store"
            /\ load.loc = store.loc /\ load.loc # None
            /\ \A i \in j + 1 .. k - 1 :
                  /\ prog.body[b][i].op \notin {"fstore", "call"}
                  /\ prog.body[b][i].op = "store" =>
                        /\ prog.body[b][i].loc # None
                        /\ ~MayOverlap(prog.body[b][i].loc, load.loc)
            /\ \/ \A i \in j + 1 .. k - 1 : prog.body[b][i].op # "store"
               \/ Cardinality(DOMAIN entries[b].values) + StoresBefore(b, k) <= MaxLocations
            => claims[b][k].stores = {<<b, j>>}

\* Whatever path the function took to a load and wherever its frames lie: when
\* forward() named the stores the load reads and no boundary, every byte it
\* reads was last written, as a whole, by one of them.  Loops, joins, partial
\* overlaps, aliasing frames, calls, the location and store bounds and the
\* ceiling of the iteration must all keep this; and
\* no load of a known store of its own block is left without an answer.
LoadSound ==
    /\ SameBlockFollowed
    /\ mphase = "execute" /\ pc[2] \in DOMAIN prog.body[pc[1]] =>
         LET stmt == prog.body[pc[1]][pc[2]]
             claim == claims[pc[1]][pc[2]]
         IN  IsLoad(stmt) /\ claim.stores # {} =>
                 \E id \in claim.stores : \A a \in Touched(stmt.loc) : bytes[a] = id

\* The iteration ends: on an irreducible graph whose states never settle, at the
\* ceiling.
ForwardReturns == (mphase = "iterate") ~> (mphase = "execute")
=============================================================================
