------------------------------- MODULE Budget -------------------------------
(***************************************************************************)
(* Execution accounting of rsleigh-decompile/src/budget.rs on one analysis *)
(* thread: the thread-locals STATE and TRAVERSAL, the guards that save and *)
(* restore them (Scope, traversal), and the unwinding that work() starts   *)
(* when a limit is hit.  The Rust stack is the sequence of the frames that *)
(* matter: a Scope and a traversal guard hold the value their Drop puts    *)
(* back, a catch_unwind frame ends an unwinding.  The limits and the start *)
(* in a Scope's frame are history: they say which scope it opened.         *)
(***************************************************************************)
EXTENDS Integers, Sequences

CONSTANTS Limits,       \* the limits callers set; None is "unlimited"
          Amounts,      \* units passed to work()
          MaxU,         \* u64::MAX
          MaxNow,       \* bound: clock readings
          MaxDepth,     \* bound: frames on the stack
          None

ASSUME WidthAssumption == MaxU \in Nat /\ Amounts \subseteq 0..MaxU
ASSUME LimitsAssumption ==
  LET Limit == (0..MaxU) \cup {None}
  IN Limits \subseteq [decode : Limit, ssa : Limit, deadline : Limit]
ASSUME NoneAssumption == None \notin (0..MaxU) /\ None \notin {"deadline", "decode_limit", "ssa_work_limit"}
ASSUME BoundAssumption == MaxNow \in Nat /\ MaxDepth \in Nat

VARIABLES state,        \* STATE: the current scope's record, or None
          traversal,    \* TRAVERSAL
          stack,        \* the frames of the running computation
          now           \* the clock

vars == <<state, traversal, stack, now>>

Stops == {"deadline", "decode_limit", "ssa_work_limit"}
State == [limits : Limits, decode : 0..MaxU, ssa : 0..MaxU,
          stop : Stops \cup {None}, started : 0..MaxNow]
Frame == [kind : {"scope"}, saved : State \cup {None}, limits : Limits, started : 0..MaxNow]
           \cup [kind : {"traversal"}, saved : BOOLEAN]
           \cup [kind : {"catch"}]

\* The thread-local is an Option: its None is no record.
ASSUME OptionAssumption == None \notin State

Init ==
  /\ state = None
  /\ traversal = FALSE
  /\ stack = <<>>
  /\ now = 0

Push(f) ==
  /\ Len(stack) < MaxDepth
  /\ stack' = Append(stack, f)

SaturatingSub(a, b) == IF a > b THEN a - b ELSE 0

SaturatingAdd(a, b) == IF a + b > MaxU THEN MaxU ELSE a + b

---------------------------------------------------------------------------
(* Frames *)

Guard(l, s) == [kind |-> "scope", saved |-> s, limits |-> l, started |-> now]

\* Variant: the new limits are written into the record that is set aside.
NewScopeOverwrites(l) ==
  /\ Push(Guard(l, IF state = None THEN None ELSE [state EXCEPT !.limits = l]))
  /\ state' = [limits |-> l, decode |-> 0, ssa |-> 0, stop |-> None, started |-> now]
  /\ UNCHANGED <<traversal, now>>

\* Scope::new: a fresh record replaces the enclosing one, kept in the guard.
NewScope(l) ==
  /\ Push(Guard(l, state))
  /\ state' = [limits |-> l, decode |-> 0, ssa |-> 0, stop |-> None, started |-> now]
  /\ UNCHANGED <<traversal, now>>

\* traversal(f): until f returns or unwinds, work() charges nothing.
Traversal ==
  /\ Push([kind |-> "traversal", saved |-> traversal])
  /\ traversal' = TRUE
  /\ UNCHANGED <<state, now>>

CatchUnwind ==
  /\ Push([kind |-> "catch"])
  /\ UNCHANGED <<state, traversal, now>>

Bottom(S) == CHOOSE i \in S : \A j \in S : i <= j
Top(S) == CHOOSE i \in S : \A j \in S : j <= i
Above(k, kind) == {i \in (k + 1)..Len(stack) : stack[i].kind = kind}

\* Every frame above k is dropped, innermost first, with s in STATE: what
\* remains is what the outermost of the dropped guards had saved.
DropTo(k, s) ==
  /\ stack' = SubSeq(stack, 1, k)
  /\ state' = IF Above(k, "scope") = {} THEN s ELSE stack[Bottom(Above(k, "scope"))].saved
  /\ traversal' = IF Above(k, "traversal") = {} THEN traversal
                  ELSE stack[Bottom(Above(k, "traversal"))].saved

\* The innermost frame returns.
Leave ==
  /\ stack # <<>>
  /\ DropTo(Len(stack) - 1, state)
  /\ UNCHANGED now

\* The frame a panic unwinds to: just outside the innermost catch_unwind,
\* or out of the thread.
Catcher == IF Above(0, "catch") = {} THEN 0 ELSE Top(Above(0, "catch")) - 1

\* A decompiler panic anywhere.
Panic ==
  /\ stack # <<>>
  /\ DropTo(Catcher, state)
  /\ UNCHANGED now

---------------------------------------------------------------------------
(* charge() *)

Expired(s) == s.limits.deadline # None /\ now - s.started >= s.limits.deadline

\* Variant: the request that crosses the limit is still granted.
ExceedsAfter(limit, consumed, amount) == limit # None /\ consumed > limit
Exceeds(limit, consumed, amount) == limit # None /\ amount > SaturatingSub(limit, consumed)

\* Variant: a recorded stop does not answer later requests.
StoppedNever(s) == FALSE
Stopped(s) == s.stop # None

\* The record after charging amount: a recorded stop answers first, then the
\* deadline, then the counter's own limit.
Charged(s, decode, amount) ==
  CASE Stopped(s) -> s
    [] ~Stopped(s) /\ Expired(s) -> [s EXCEPT !.stop = "deadline"]
    [] ~Stopped(s) /\ ~Expired(s) /\ decode ->
         IF Exceeds(s.limits.decode, s.decode, amount)
           THEN [s EXCEPT !.stop = "decode_limit"]
           ELSE [s EXCEPT !.decode = SaturatingAdd(s.decode, amount)]
    [] ~Stopped(s) /\ ~Expired(s) /\ ~decode ->
         IF Exceeds(s.limits.ssa, s.ssa, amount)
           THEN [s EXCEPT !.stop = "ssa_work_limit"]
           ELSE [s EXCEPT !.ssa = SaturatingAdd(s.ssa, amount)]

\* charge() outside any Scope grants everything and records nothing.
Charge(decode, amount) ==
  state' = IF state = None THEN None ELSE Charged(state, decode, amount)

\* decode_step(): the caller gets the Stop as an Err and goes on.
DecodeStep ==
  /\ Charge(TRUE, 1)
  /\ UNCHANGED <<traversal, stack, now>>

\* poll(): a checkpoint that charges nothing.
Poll ==
  /\ Charge(FALSE, 0)
  /\ UNCHANGED <<traversal, stack, now>>

Units(u) == IF traversal THEN 0 ELSE u
Refused(s) == s # None /\ s.stop # None

\* work(): granted, or the Stop is recorded and unwinds.
Work(u) ==
  LET charged == IF state = None THEN None ELSE Charged(state, FALSE, Units(u))
  IN /\ \/ /\ ~Refused(charged)
           /\ state' = charged
           /\ UNCHANGED <<traversal, stack>>
        \/ /\ Refused(charged)
           /\ DropTo(Catcher, charged)
     /\ UNCHANGED now

Tick ==
  /\ now < MaxNow
  /\ now' = now + 1
  /\ UNCHANGED <<state, traversal, stack>>

Next ==
  \/ \E l \in Limits : NewScope(l)
  \/ Traversal \/ CatchUnwind \/ Leave \/ Panic
  \/ DecodeStep \/ Poll \/ \E u \in Amounts : Work(u)
  \/ Tick

Spec == Init /\ [][Next]_vars

---------------------------------------------------------------------------
TypeOK ==
  /\ state \in State \cup {None}
  /\ traversal \in BOOLEAN
  /\ stack \in Seq(Frame)
  /\ now \in 0..MaxNow

Bounded(s) ==
  /\ s.limits.decode # None => s.decode <= s.limits.decode
  /\ s.limits.ssa # None => s.ssa <= s.limits.ssa

ScopeFrames == Above(0, "scope")
Saved == {stack[i].saved : i \in ScopeFrames}

\* charge(): no scope, current or set aside by an inner one, ever accounts
\* for more work than its limits allow, and no counter leaves its width; the
\* excess is refused before it is done.
WithinLimits == TypeOK /\ \A s \in Saved \cup {state} : s # None => Bounded(s)

\* The record of the scope that guard i opened: STATE if it is the innermost
\* one, and else what the next guard above it set aside.
RecordOf(i) ==
  IF Above(i, "scope") = {} THEN state ELSE stack[Bottom(Above(i, "scope"))].saved

\* Whether r is the record Scope::new made for the guard f.
Owns(f, r) == r # None /\ r.limits = f.limits /\ r.started = f.started

\* Scope, traversal(): after any mixture of returns, panics and cancellations
\* each guard on the stack finds its own scope's record, in STATE if it is the
\* innermost one and in the guard above it otherwise; the outermost guard
\* saved nothing and without a guard there is no scope; and work is free
\* exactly inside a traversal guard.
GuardsRestored ==
  /\ ScopeFrames = {} => state = None
  /\ \A i \in ScopeFrames :
       /\ Owns(stack[i], RecordOf(i))
       /\ (\A j \in ScopeFrames : i <= j) => stack[i].saved = None
  /\ traversal = (Above(0, "traversal") # {})

\* While one scope stays current its counters never go down, they stand still
\* once its deadline has passed, and after a stop the record never changes:
\* code that swallows the cancellation cannot go on working.
Accounting ==
  [][ScopeFrames' = ScopeFrames /\ state # None =>
       /\ state'.decode >= state.decode /\ state'.ssa >= state.ssa
       /\ Expired(state) => state'.decode = state.decode /\ state'.ssa = state.ssa
       /\ state.stop # None => state' = state]_vars
=============================================================================
