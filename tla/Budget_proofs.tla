---------------------------- MODULE Budget_proofs ----------------------------
(***************************************************************************)
(* Proofs about the execution accounting: for every set of limits, every   *)
(* width of the counters and every nesting of scopes, traversals and       *)
(* catch_unwind frames, the limits hold, the guards put back what they     *)
(* saved, and a stopped or expired scope stands still.                     *)
(***************************************************************************)
EXTENDS Budget, SequenceTheorems, WellFoundedInduction, TLAPS

Option == State \cup {None}
Scope(f) == f.kind = "scope"
Walk(f) == f.kind = "traversal"

\* STATE and the guards over the stack stk: a scope is current exactly while
\* a guard is on the stack, and a guard holds no record exactly when no other
\* guard lies below it.
NoScope(stk, n) == \A j \in 1..n : ~Scope(stk[j])
ScopesOK(stk, st) ==
  /\ st = None <=> NoScope(stk, Len(stk))
  /\ \A i \in 1..Len(stk) : Scope(stk[i]) =>
       (stk[i].saved = None <=> NoScope(stk, i - 1))

\* Which record it is: the innermost guard owns the record in STATE, and of two
\* neighbouring guards the lower one owns what the upper one set aside.
NoneIn(stk, a, b) == \A j \in a..b : ~Scope(stk[j])
OwnersOK(stk, st) ==
  /\ \A i \in 1..Len(stk) :
       Scope(stk[i]) /\ NoneIn(stk, i + 1, Len(stk)) => Owns(stk[i], st)
  /\ \A i, j \in 1..Len(stk) :
       i < j /\ Scope(stk[i]) /\ Scope(stk[j]) /\ NoneIn(stk, i + 1, j - 1)
         => Owns(stk[i], stk[j].saved)

\* TRAVERSAL likewise: a guard holds whether another one lies below it.
NoWalk(stk, n) == \A j \in 1..n : ~Walk(stk[j])
WalksOK(stk, tr) ==
  /\ tr <=> ~NoWalk(stk, Len(stk))
  /\ \A i \in 1..Len(stk) : Walk(stk[i]) =>
       (stk[i].saved <=> ~NoWalk(stk, i - 1))

\* No record, current or set aside, is past its limits.
BoundsOK(stk, st) ==
  /\ st # None => Bounded(st)
  /\ \A i \in 1..Len(stk) : Scope(stk[i]) /\ stk[i].saved # None => Bounded(stk[i].saved)

IInv ==
  /\ TypeOK
  /\ ScopesOK(stack, state)
  /\ OwnersOK(stack, state)
  /\ WalksOK(stack, traversal)
  /\ BoundsOK(stack, state)

---------------------------------------------------------------------------
(* Frames and bounds of a set of positions *)

Less == {p \in Nat \X Nat : p[1] < p[2]}

\* A nonempty set of naturals has a least element.
LEMMA Least ==
  ASSUME NEW S \in SUBSET Nat, S # {}
  PROVE  \E i \in S : \A j \in S : i <= j
<1>1. IsWellFoundedOn(Less, Nat)
  BY NatLessThanWellFounded DEF OpToRel, Less
<1>2. PICK x \in S : \A y \in S : <<y, x>> \notin Less
  BY <1>1, WFMin
<1>3. ASSUME NEW y \in S PROVE x <= y
  <2>1. <<y, x>> \notin Less
    BY <1>2
  <2>2. <<y, x>> \in Nat \X Nat
    OBVIOUS
  <2>3. ~(y < x)
    BY <2>1, <2>2 DEF Less
  <2> QED
    BY <2>3
<1> QED
  BY <1>3

\* So a nonempty set of positions has a bottom,
LEMMA BottomIs ==
  ASSUME NEW S \in SUBSET Nat, S # {}
  PROVE  Bottom(S) \in S /\ \A j \in S : Bottom(S) <= j
BY Least DEF Bottom

\* and, seen from its other end, a top.
LEMMA TopIs ==
  ASSUME NEW n \in Nat, NEW S \in SUBSET 1..n, S # {}
  PROVE  Top(S) \in S
<1> DEFINE R == {n - i : i \in S}
<1>1. R \in SUBSET Nat /\ R # {}
  <2>1. ASSUME NEW i \in S PROVE n - i \in Nat
    <3>1. i \in 1..n
      OBVIOUS
    <3> QED
      BY <3>1
  <2> QED
    BY <2>1
<1>2. PICK r \in R : \A q \in R : r <= q
  BY <1>1, Least
<1>3. PICK i \in S : r = n - i
  OBVIOUS
<1>4. ASSUME NEW j \in S PROVE j <= i
  <2>1. n - j \in R
    OBVIOUS
  <2>2. r <= n - j
    BY <1>2, <2>1
  <2> QED
    BY <1>3, <2>2
<1> QED
  BY <1>4 DEF Top

\* What a frame of each kind holds.
LEMMA FrameHolds ==
  ASSUME NEW f \in Frame
  PROVE  /\ Scope(f) => f.saved \in Option
         /\ Walk(f) => f.saved \in BOOLEAN
BY DEF Frame, Scope, Walk, Option

\* charge(): a record stays a record within its limits, its counters never
\* go down, they stand still once it has expired, and a stopped record is
\* returned as it was.
LEMMA ChargedIs ==
  ASSUME NEW s \in State, NEW d \in BOOLEAN, NEW a \in Nat, now \in Nat
  PROVE  LET c == Charged(s, d, a)
         IN /\ c \in State
            /\ c.decode >= s.decode /\ c.ssa >= s.ssa
            /\ Expired(s) => c.decode = s.decode /\ c.ssa = s.ssa
            /\ s.stop # None => c = s
            /\ c.limits = s.limits /\ c.started = s.started
            /\ Bounded(s) => Bounded(c)
<1> DEFINE c == Charged(s, d, a)
<1> USE WidthAssumption
<1>1. /\ s.limits \in Limits /\ s.decode \in 0..MaxU /\ s.ssa \in 0..MaxU
      /\ s.stop \in Stops \cup {None} /\ s.started \in 0..MaxNow
  BY DEF State
<1>2. /\ s.limits.decode \in (0..MaxU) \cup {None}
      /\ s.limits.ssa \in (0..MaxU) \cup {None}
  BY <1>1, LimitsAssumption
<1>3. ASSUME NEW n \in 0..MaxU
      PROVE  /\ SaturatingAdd(n, a) \in 0..MaxU
             /\ SaturatingAdd(n, a) >= n
             /\ \A l \in (0..MaxU) \cup {None} :
                  ~Exceeds(l, n, a) /\ (l # None => n <= l)
                    => (l # None => SaturatingAdd(n, a) <= l)
  BY NoneAssumption DEF SaturatingAdd, Exceeds, SaturatingSub
<1>4. CASE Stopped(s)
  BY <1>4, <1>1, NoneAssumption DEF Charged, Stopped
<1>5. CASE ~Stopped(s) /\ Expired(s)
  <2>1. c = [s EXCEPT !.stop = "deadline"]
    BY <1>5 DEF Charged
  <2> QED
    BY <2>1, <1>1, <1>5 DEF State, Stops, Bounded, Stopped
<1>6. CASE ~Stopped(s) /\ ~Expired(s) /\ d
  <2>1. CASE Exceeds(s.limits.decode, s.decode, a)
    <3>1. c = [s EXCEPT !.stop = "decode_limit"]
      BY <1>6, <2>1 DEF Charged
    <3> QED
      BY <3>1, <1>1, <1>6 DEF State, Stops, Bounded, Stopped
  <2>2. CASE ~Exceeds(s.limits.decode, s.decode, a)
    <3>1. c = [s EXCEPT !.decode = SaturatingAdd(s.decode, a)]
      BY <1>6, <2>2 DEF Charged
    <3>2. /\ SaturatingAdd(s.decode, a) \in 0..MaxU
          /\ SaturatingAdd(s.decode, a) >= s.decode
          /\ Bounded(s) => (s.limits.decode # None => SaturatingAdd(s.decode, a) <= s.limits.decode)
      BY <1>1, <1>2, <1>3, <2>2 DEF Bounded
    <3> QED
      BY <3>1, <3>2, <1>1, <1>6 DEF State, Bounded, Stopped
  <2> QED
    BY <2>1, <2>2
<1>7. CASE ~Stopped(s) /\ ~Expired(s) /\ ~d
  <2>1. CASE Exceeds(s.limits.ssa, s.ssa, a)
    <3>1. c = [s EXCEPT !.stop = "ssa_work_limit"]
      BY <1>7, <2>1 DEF Charged
    <3> QED
      BY <3>1, <1>1, <1>7 DEF State, Stops, Bounded, Stopped
  <2>2. CASE ~Exceeds(s.limits.ssa, s.ssa, a)
    <3>1. c = [s EXCEPT !.ssa = SaturatingAdd(s.ssa, a)]
      BY <1>7, <2>2 DEF Charged
    <3>2. /\ SaturatingAdd(s.ssa, a) \in 0..MaxU
          /\ SaturatingAdd(s.ssa, a) >= s.ssa
          /\ Bounded(s) => (s.limits.ssa # None => SaturatingAdd(s.ssa, a) <= s.limits.ssa)
      BY <1>1, <1>2, <1>3, <2>2 DEF Bounded
    <3> QED
      BY <3>1, <3>2, <1>1, <1>7 DEF State, Bounded, Stopped
  <2> QED
    BY <2>1, <2>2
<1> QED
  BY <1>4, <1>5, <1>6, <1>7

---------------------------------------------------------------------------
(* Dropping frames *)

\* Whatever is unwound, the guards leave STATE and TRAVERSAL as the frames
\* that remain require.
LEMMA Dropped ==
  ASSUME IInv, NEW k \in 0..Len(stack), NEW s \in Option, (s = None) = (state = None),
         s # None => s.limits = state.limits /\ s.started = state.started,
         s # None => Bounded(s), DropTo(k, s)
  PROVE  /\ stack' \in Seq(Frame) /\ state' \in Option /\ traversal' \in BOOLEAN
         /\ ScopesOK(stack', state') /\ OwnersOK(stack', state')
         /\ WalksOK(stack', traversal') /\ BoundsOK(stack', state')
         /\ \/ state' = s
            \/ ScopeFrames' # ScopeFrames
<1>1. stack \in Seq(Frame) /\ Len(stack) \in Nat
  BY DEF IInv, TypeOK
<1>2. /\ stack' \in Seq(Frame) /\ Len(stack') = k
      /\ \A i \in 1..k : stack'[i] = stack[i]
  BY <1>1, SubSeqProperties DEF DropTo
<1>3. \A i \in 1..Len(stack) : stack[i] \in Frame
  BY <1>1
<1>7. ASSUME NEW n \in 0..k
      PROVE  (NoScope(stack', n) <=> NoScope(stack, n)) /\ (NoWalk(stack', n) <=> NoWalk(stack, n))
  BY <1>2 DEF NoScope, NoWalk
<1>8. ASSUME NEW i \in 1..k
      PROVE  /\ i \in 1..Len(stack) /\ i - 1 \in 0..k /\ stack'[i] = stack[i]
             /\ (NoScope(stack', i - 1) <=> NoScope(stack, i - 1))
             /\ (NoWalk(stack', i - 1) <=> NoWalk(stack, i - 1))
  BY <1>1, <1>2, <1>7
<1>9. (\A i \in 1..k : Scope(stack[i]) /\ NoneIn(stack, i + 1, k) => Owns(stack[i], state'))
        => OwnersOK(stack', state')
  <2> SUFFICES ASSUME \A i \in 1..k : Scope(stack[i]) /\ NoneIn(stack, i + 1, k) => Owns(stack[i], state')
               PROVE  OwnersOK(stack', state')
    OBVIOUS
  <2>1. ASSUME NEW i \in 1..k, NEW m \in 0..k
        PROVE  NoneIn(stack', i + 1, m) <=> NoneIn(stack, i + 1, m)
    BY <1>2 DEF NoneIn
  <2>2. ASSUME NEW i \in 1..k, Scope(stack'[i]), NoneIn(stack', i + 1, k)
        PROVE  Owns(stack'[i], state')
    <3>1. k \in 0..k
      BY <1>1
    <3> QED
      BY <2>1, <2>2, <3>1, <1>2
  <2>3. ASSUME NEW i \in 1..k, NEW j \in 1..k, i < j, Scope(stack'[i]), Scope(stack'[j]),
               NoneIn(stack', i + 1, j - 1)
        PROVE  Owns(stack'[i], stack'[j].saved)
    <3>1. j - 1 \in 0..k /\ i \in 1..Len(stack) /\ j \in 1..Len(stack)
      BY <1>1
    <3>2. NoneIn(stack, i + 1, j - 1) /\ stack'[i] = stack[i] /\ stack'[j] = stack[j]
      BY <2>1, <2>3, <3>1, <1>2
    <3> QED
      BY <2>3, <3>1, <3>2 DEF IInv, OwnersOK
  <2> QED
    BY <1>2, <2>2, <2>3 DEF OwnersOK
<1>4. state' \in Option /\ ScopesOK(stack', state') /\ OwnersOK(stack', state')
      /\ (state' # None => Bounded(state'))
      /\ (state' = s \/ ScopeFrames' # ScopeFrames)
  <2> DEFINE A == Above(k, "scope")
  <2>1. A \in SUBSET Nat /\ A = {i \in (k + 1)..Len(stack) : Scope(stack[i])}
    BY <1>1 DEF Above, Scope
  <2>2. CASE A = {}
    <3>1. state' = s
      BY <2>2 DEF DropTo
    <3>2. NoScope(stack, Len(stack)) <=> NoScope(stack, k)
      BY <2>1, <2>2, <1>1 DEF NoScope
    <3>3. ScopesOK(stack', state')
      BY <1>2, <1>7, <1>8, <3>1, <3>2 DEF IInv, ScopesOK
    <3>4. ASSUME NEW i \in 1..k, Scope(stack[i]), NoneIn(stack, i + 1, k) PROVE Owns(stack[i], state')
      <4>1. NoneIn(stack, i + 1, Len(stack)) /\ i \in 1..Len(stack)
        BY <2>1, <2>2, <3>4, <1>1 DEF NoneIn
      <4>2. Owns(stack[i], state)
        BY <3>4, <4>1 DEF IInv, OwnersOK
      <4> QED
        BY <3>1, <4>2 DEF Owns
    <3> QED
      BY <3>1, <3>3, <3>4, <1>9
  <2>3. CASE A # {}
    <3> DEFINE b == Bottom(A)
    <3>1. b \in A /\ \A j \in A : b <= j
      BY <2>1, <2>3, BottomIs
    <3>2. b \in (k + 1)..Len(stack) /\ Scope(stack[b])
      BY <2>1, <3>1
    <3>3. state' = stack[b].saved
      BY <2>3 DEF DropTo
    <3>4. state' \in Option /\ (state' # None => Bounded(state'))
      BY <1>1, <1>3, <3>2, <3>3, FrameHolds DEF IInv, BoundsOK
    <3>5. \A j \in 1..(b - 1) : j > k => ~Scope(stack[j])
      BY <1>1, <2>1, <3>1, <3>2
    <3> HIDE DEF A, b
    <3>6. NoScope(stack, b - 1) <=> NoScope(stack, k)
      BY <1>1, <3>2, <3>5 DEF NoScope
    <3>7. ScopesOK(stack', state')
      <4>1. b \in 1..Len(stack)
        BY <1>1, <3>2
      <4>2. state' = None <=> NoScope(stack, k)
        BY <3>2, <3>3, <3>6, <4>1 DEF IInv, ScopesOK
      <4> QED
        BY <1>2, <1>7, <1>8, <4>2 DEF IInv, ScopesOK
    <3>8. b \in ScopeFrames /\ b \notin ScopeFrames'
      BY <1>1, <1>2, <3>2 DEF ScopeFrames, Above, Scope
    <3>9. ASSUME NEW i \in 1..k, Scope(stack[i]), NoneIn(stack, i + 1, k) PROVE Owns(stack[i], state')
      <4>1. /\ i \in 1..Len(stack) /\ b \in 1..Len(stack) /\ i < b
            /\ NoneIn(stack, i + 1, b - 1)
        BY <1>1, <3>2, <3>5, <3>9 DEF NoneIn
      <4> QED
        BY <3>2, <3>3, <3>9, <4>1 DEF IInv, OwnersOK
    <3> QED
      BY <3>4, <3>7, <3>8, <3>9, <1>9
  <2> QED
    BY <2>2, <2>3
<1>5. traversal' \in BOOLEAN /\ WalksOK(stack', traversal')
  <2> DEFINE A == Above(k, "traversal")
  <2>1. A \in SUBSET Nat /\ A = {i \in (k + 1)..Len(stack) : Walk(stack[i])}
    BY <1>1 DEF Above, Walk
  <2>2. CASE A = {}
    <3>1. traversal' = traversal
      BY <2>2 DEF DropTo
    <3>2. NoWalk(stack, Len(stack)) <=> NoWalk(stack, k)
      BY <2>1, <2>2, <1>1 DEF NoWalk
    <3>3. WalksOK(stack', traversal')
      BY <1>2, <1>7, <1>8, <3>1, <3>2 DEF IInv, WalksOK
    <3> QED
      BY <3>1, <3>3 DEF IInv, TypeOK
  <2>3. CASE A # {}
    <3> DEFINE b == Bottom(A)
    <3>1. b \in A /\ \A j \in A : b <= j
      BY <2>1, <2>3, BottomIs
    <3>2. b \in (k + 1)..Len(stack) /\ Walk(stack[b])
      BY <2>1, <3>1
    <3>3. traversal' = stack[b].saved
      BY <2>3 DEF DropTo
    <3>4. traversal' \in BOOLEAN
      BY <1>1, <1>3, <3>2, <3>3, FrameHolds
    <3>5. \A j \in 1..(b - 1) : j > k => ~Walk(stack[j])
      BY <1>1, <2>1, <3>1, <3>2
    <3> HIDE DEF A, b
    <3>6. NoWalk(stack, b - 1) <=> NoWalk(stack, k)
      BY <1>1, <3>2, <3>5 DEF NoWalk
    <3>7. WalksOK(stack', traversal')
      <4>1. b \in 1..Len(stack)
        BY <1>1, <3>2
      <4>2. traversal' <=> ~NoWalk(stack, k)
        BY <3>2, <3>3, <3>6, <4>1 DEF IInv, WalksOK
      <4> QED
        BY <1>2, <1>7, <1>8, <4>2 DEF IInv, WalksOK
    <3> QED
      BY <3>4, <3>7
  <2> QED
    BY <2>2, <2>3
<1>6. BoundsOK(stack', state')
  BY <1>1, <1>2, <1>4 DEF IInv, BoundsOK, Scope
<1> QED
  BY <1>2, <1>4, <1>5, <1>6

\* A panic unwinds to a frame of the stack.
LEMMA CatcherIs ==
  ASSUME stack \in Seq(Frame)
  PROVE  Catcher \in 0..Len(stack)
<1>1. Above(0, "catch") \in SUBSET 1..Len(stack)
  BY DEF Above
<1>2. Above(0, "catch") # {} => Top(Above(0, "catch")) \in 1..Len(stack)
  BY <1>1, TopIs
<1> QED
  BY <1>2 DEF Catcher

---------------------------------------------------------------------------
(* The inductive invariant *)

\* A guard is pushed: it saves what it replaces.
LEMMA Pushed ==
  ASSUME IInv, NEW f \in Frame, NEW s \in Option, NEW t \in BOOLEAN, Push(f),
         s # None => Bounded(s),
         IF Scope(f) THEN f.saved = state /\ Owns(f, s) ELSE s = state,
         IF Walk(f) THEN f.saved = traversal /\ t ELSE t = traversal
  PROVE  /\ stack' \in Seq(Frame)
         /\ ScopesOK(stack', s) /\ OwnersOK(stack', s) /\ WalksOK(stack', t) /\ BoundsOK(stack', s)
<1> DEFINE n == Len(stack)
<1>1. stack \in Seq(Frame) /\ n \in Nat
  BY DEF IInv, TypeOK
<1>2. /\ stack' \in Seq(Frame) /\ Len(stack') = n + 1 /\ stack'[n + 1] = f
      /\ \A i \in 1..n : stack'[i] = stack[i]
  BY <1>1, AppendProperties DEF Push
<1>3. ASSUME NEW m \in 0..n
      PROVE  (NoScope(stack', m) <=> NoScope(stack, m)) /\ (NoWalk(stack', m) <=> NoWalk(stack, m))
  BY <1>2 DEF NoScope, NoWalk
<1>4. /\ NoScope(stack', n + 1) <=> NoScope(stack, n) /\ ~Scope(f)
      /\ NoWalk(stack', n + 1) <=> NoWalk(stack, n) /\ ~Walk(f)
  <2>1. \A j \in 1..(n + 1) : j = n + 1 \/ j \in 1..n
    BY <1>1
  <2>2. \A j \in 1..n : j \in 1..(n + 1)
    BY <1>1
  <2>3. n + 1 \in 1..(n + 1)
    BY <1>1
  <2> HIDE DEF n
  <2> QED
    BY <1>2, <2>1, <2>2, <2>3 DEF NoScope, NoWalk
<1>5. ASSUME NEW i \in 1..(n + 1)
      PROVE  \/ i = n + 1 /\ i - 1 = n
             \/ /\ i \in 1..n /\ i - 1 \in 0..n /\ stack'[i] = stack[i]
                /\ NoScope(stack', i - 1) <=> NoScope(stack, i - 1)
                /\ NoWalk(stack', i - 1) <=> NoWalk(stack, i - 1)
  BY <1>1, <1>2, <1>3
<1>6. n \in 0..n
  BY <1>1
<1> HIDE DEF n
<1>7. /\ state = None <=> NoScope(stack, n)
      /\ \A i \in 1..n : Scope(stack[i]) => (stack[i].saved = None <=> NoScope(stack, i - 1))
  BY DEF IInv, ScopesOK, n
<1>8. ScopesOK(stack', s)
  <2>1. s = None <=> NoScope(stack', n + 1)
    BY <1>4, <1>7 DEF Owns
  <2>2. ASSUME NEW i \in 1..(n + 1), Scope(stack'[i])
        PROVE  stack'[i].saved = None <=> NoScope(stack', i - 1)
    BY <1>2, <1>3, <1>5, <1>6, <1>7, <2>2
  <2> QED
    BY <1>2, <2>1, <2>2 DEF ScopesOK
<1>9. /\ traversal <=> ~NoWalk(stack, n)
      /\ \A i \in 1..n : Walk(stack[i]) => (stack[i].saved <=> ~NoWalk(stack, i - 1))
  BY DEF IInv, WalksOK, n
<1>10. WalksOK(stack', t)
  <2>1. t <=> ~NoWalk(stack', n + 1)
    BY <1>4, <1>9
  <2>2. ASSUME NEW i \in 1..(n + 1), Walk(stack'[i])
        PROVE  stack'[i].saved <=> ~NoWalk(stack', i - 1)
    BY <1>2, <1>3, <1>5, <1>6, <1>9, <2>2
  <2> QED
    BY <1>2, <2>1, <2>2 DEF WalksOK
<1>11. BoundsOK(stack', s)
  <2>1. ASSUME NEW i \in 1..(n + 1), Scope(stack'[i]), stack'[i].saved # None
        PROVE  Bounded(stack'[i].saved)
    BY <1>2, <1>5, <2>1 DEF IInv, BoundsOK, n
  <2> QED
    BY <1>2, <2>1 DEF BoundsOK
<1>12. OwnersOK(stack', s)
  <2>0. n \in Nat /\ Len(stack) = n
    BY <1>1 DEF n
  <2>1. ASSUME NEW i \in 1..n, NEW m \in 0..n
        PROVE  NoneIn(stack', i + 1, m) <=> NoneIn(stack, i + 1, m)
    BY <1>2, <2>0 DEF NoneIn
  <2>2. ASSUME NEW i \in 1..(n + 1), Scope(stack'[i]), NoneIn(stack', i + 1, n + 1)
        PROVE  Owns(stack'[i], s)
    <3>1. CASE i = n + 1
      BY <2>2, <3>1, <1>2
    <3>2. CASE i # n + 1
      <4>1. i \in 1..n /\ n + 1 \in (i + 1)..(n + 1)
        BY <2>0, <3>2
      <4>2. ~Scope(f) /\ NoneIn(stack', i + 1, n)
        BY <2>0, <2>2, <4>1, <1>2 DEF NoneIn
      <4>3. NoneIn(stack, i + 1, n) /\ stack'[i] = stack[i]
        BY <2>1, <4>1, <4>2, <1>2, <1>6
      <4> QED
        BY <2>0, <2>2, <4>1, <4>2, <4>3 DEF IInv, OwnersOK
    <3> QED
      BY <3>1, <3>2
  <2>3. ASSUME NEW i \in 1..(n + 1), NEW j \in 1..(n + 1), i < j, Scope(stack'[i]), Scope(stack'[j]),
               NoneIn(stack', i + 1, j - 1)
        PROVE  Owns(stack'[i], stack'[j].saved)
    <3>1. i \in 1..n /\ j - 1 \in 0..n
      BY <2>0, <2>3
    <3>2. NoneIn(stack, i + 1, j - 1) /\ stack'[i] = stack[i]
      BY <2>1, <2>3, <3>1, <1>2
    <3>3. CASE j = n + 1
      <4>1. f.saved = state /\ j - 1 = n /\ stack'[j] = f
        BY <2>0, <2>3, <3>3, <1>2
      <4> QED
        BY <2>0, <2>3, <3>1, <3>2, <4>1 DEF IInv, OwnersOK
    <3>4. CASE j # n + 1
      <4>1. j \in 1..n /\ stack'[j] = stack[j]
        BY <2>0, <3>4, <1>2
      <4> QED
        BY <2>0, <2>3, <3>1, <3>2, <4>1 DEF IInv, OwnersOK
    <3> QED
      BY <3>3, <3>4
  <2> QED
    BY <1>2, <2>2, <2>3 DEF OwnersOK
<1> QED
  BY <1>2, <1>8, <1>10, <1>11, <1>12

\* The record work(), decode_step() and poll() leave in STATE.
LEMMA Recharged ==
  ASSUME IInv, NEW d \in BOOLEAN, NEW a \in Nat
  PROVE  LET c == IF state = None THEN None ELSE Charged(state, d, a)
         IN /\ c \in Option /\ (c = None) = (state = None) /\ (c # None => Bounded(c))
            /\ c # None => c.limits = state.limits /\ c.started = state.started
<1>1. now \in Nat /\ state \in Option
  BY BoundAssumption DEF IInv, TypeOK, Option
<1>2. CASE state = None
  BY <1>2 DEF Option
<1>3. CASE state # None
  <2>1. state \in State /\ Bounded(state)
    BY <1>1, <1>3 DEF Option, IInv, BoundsOK
  <2>2. /\ Charged(state, d, a) \in State /\ Bounded(Charged(state, d, a))
        /\ Charged(state, d, a).limits = state.limits /\ Charged(state, d, a).started = state.started
    BY <1>1, <2>1, ChargedIs
  <2> QED
    BY <1>3, <2>2, OptionAssumption DEF Option
<1> QED
  BY <1>2, <1>3

\* The invariant of the accounting holds initially and every step keeps it.
THEOREM Invariance == Spec => []IInv
<1>1. Init => IInv
  <2>1. SUFFICES ASSUME Init PROVE IInv
    OBVIOUS
  <2>2. Len(stack) = 0 /\ stack \in Seq(Frame)
    BY <2>1, EmptySeq DEF Init
  <2>3. TypeOK
    <3>1. now \in 0..MaxNow
      BY <2>1, BoundAssumption DEF Init
    <3>2. state \in State \cup {None} /\ traversal \in BOOLEAN
      BY <2>1 DEF Init
    <3> QED
      BY <2>2, <3>1, <3>2 DEF TypeOK
  <2>4. \A i \in 1..Len(stack) : FALSE
    BY <2>2
  <2>5. ScopesOK(stack, state) /\ OwnersOK(stack, state) /\ BoundsOK(stack, state)
    BY <2>1, <2>4 DEF Init, ScopesOK, OwnersOK, BoundsOK, NoScope
  <2>6. WalksOK(stack, traversal)
    BY <2>1, <2>4 DEF Init, WalksOK, NoWalk
  <2> QED
    BY <2>3, <2>5, <2>6 DEF IInv
<1>2. IInv /\ [Next]_vars => IInv'
  <2> SUFFICES ASSUME IInv, [Next]_vars PROVE IInv'
    OBVIOUS
  <2>0. /\ state \in Option /\ traversal \in BOOLEAN /\ stack \in Seq(Frame)
        /\ now \in 0..MaxNow /\ Len(stack) \in Nat
        /\ (state # None => Bounded(state))
    BY DEF IInv, TypeOK, Option, BoundsOK
  <2>1. ASSUME NEW l \in Limits, NewScope(l) PROVE IInv'
    <3> DEFINE f == Guard(l, state)
    <3>1. /\ f \in Frame /\ Scope(f) /\ ~Walk(f) /\ f.saved = state
          /\ f.limits = l /\ f.started = now
      BY <2>0 DEF Frame, Scope, Walk, Option, Guard
    <3>2. state' \in State
      BY <2>1, <2>0, WidthAssumption DEF NewScope, State
    <3>3. Bounded(state')
      <4>1. /\ state'.limits = l /\ state'.decode = 0 /\ state'.ssa = 0
        BY <2>1 DEF NewScope
      <4>2. /\ l.decode \in (0..MaxU) \cup {None} /\ l.ssa \in (0..MaxU) \cup {None}
        BY LimitsAssumption
      <4> QED
        BY <4>1, <4>2, WidthAssumption DEF Bounded
    <3>4. state' \in Option /\ Owns(f, state') /\ traversal' = traversal /\ now' = now /\ Push(f)
      <4>1. state' # None /\ state' \in Option
        BY <3>2, OptionAssumption DEF Option
      <4>2. state'.limits = l /\ state'.started = now
        BY <2>1 DEF NewScope
      <4> QED
        BY <2>1, <3>1, <4>1, <4>2 DEF NewScope, Owns
    <3> HIDE DEF f
    <3>5. /\ stack' \in Seq(Frame) /\ ScopesOK(stack', state') /\ OwnersOK(stack', state')
          /\ WalksOK(stack', traversal') /\ BoundsOK(stack', state')
      BY <2>0, <3>1, <3>3, <3>4, Pushed
    <3> QED
      BY <2>0, <3>4, <3>5 DEF IInv, TypeOK, Option
  <2>2. CASE Traversal
    <3> DEFINE f == [kind |-> "traversal", saved |-> traversal]
    <3>1. f \in Frame /\ ~Scope(f) /\ Walk(f) /\ f.saved = traversal
      BY <2>0 DEF Frame, Scope, Walk
    <3>2. state' = state /\ traversal' = TRUE /\ now' = now /\ Push(f)
      BY <2>2 DEF Traversal
    <3> HIDE DEF f
    <3>3. /\ stack' \in Seq(Frame) /\ ScopesOK(stack', state') /\ OwnersOK(stack', state')
          /\ WalksOK(stack', traversal') /\ BoundsOK(stack', state')
      BY <2>0, <3>1, <3>2, Pushed
    <3> QED
      BY <2>0, <3>2, <3>3 DEF IInv, TypeOK, Option
  <2>3. CASE CatchUnwind
    <3> DEFINE f == [kind |-> "catch"]
    <3>1. f \in Frame /\ ~Scope(f) /\ ~Walk(f)
      BY DEF Frame, Scope, Walk
    <3>2. state' = state /\ traversal' = traversal /\ now' = now /\ Push(f)
      BY <2>3 DEF CatchUnwind
    <3> HIDE DEF f
    <3>3. /\ stack' \in Seq(Frame) /\ ScopesOK(stack', state') /\ OwnersOK(stack', state')
          /\ WalksOK(stack', traversal') /\ BoundsOK(stack', state')
      BY <2>0, <3>1, <3>2, Pushed
    <3> QED
      BY <2>0, <3>2, <3>3 DEF IInv, TypeOK, Option
  <2>4. CASE Leave
    <3>1. Len(stack) - 1 \in 0..Len(stack)
      BY <2>0, <2>4, EmptySeq DEF Leave
    <3>2. DropTo(Len(stack) - 1, state) /\ now' = now
      BY <2>4 DEF Leave
    <3> QED
      BY <2>0, <3>1, <3>2, Dropped DEF IInv, TypeOK, Option
  <2>5. CASE Panic
    <3>1. DropTo(Catcher, state) /\ now' = now
      BY <2>5 DEF Panic
    <3> QED
      BY <2>0, <3>1, CatcherIs, Dropped DEF IInv, TypeOK, Option
  <2>6. ASSUME NEW d \in BOOLEAN, NEW a \in Nat, Charge(d, a),
               UNCHANGED <<traversal, stack, now>>
        PROVE  IInv'
    <3>1. /\ state' \in Option /\ (state' = None) = (state = None) /\ (state' # None => Bounded(state'))
          /\ state' # None => state'.limits = state.limits /\ state'.started = state.started
      BY <2>6, Recharged DEF Charge
    <3>2. OwnersOK(stack', state')
      <4>1. \A i \in 1..Len(stack) : Owns(stack[i], state) => Owns(stack[i], state')
        BY <3>1 DEF Owns
      <4> QED
        BY <2>6, <4>1 DEF IInv, OwnersOK
    <3> QED
      BY <2>6, <3>1, <3>2 DEF IInv, TypeOK, Option, ScopesOK, WalksOK, BoundsOK, NoScope, NoWalk
  <2>7. CASE DecodeStep
    BY <2>6, <2>7 DEF DecodeStep
  <2>8. CASE Poll
    BY <2>6, <2>8 DEF Poll
  <2>9. ASSUME NEW u \in Amounts, Work(u) PROVE IInv'
    <3> DEFINE c == IF state = None THEN None ELSE Charged(state, FALSE, Units(u))
    <3>1. Units(u) \in Nat
      BY WidthAssumption DEF Units
    <3>2. /\ c \in Option /\ (c = None) = (state = None) /\ (c # None => Bounded(c))
          /\ c # None => c.limits = state.limits /\ c.started = state.started
      BY <3>1, Recharged
    <3>3. CASE state' = c /\ UNCHANGED <<traversal, stack, now>>
      BY <2>6, <3>1, <3>3 DEF Charge
    <3>4. CASE DropTo(Catcher, c) /\ now' = now
      <4> HIDE DEF c
      <4> QED
        BY <2>0, <3>2, <3>4, CatcherIs, Dropped DEF IInv, TypeOK, Option
    <3> QED
      BY <2>9, <3>3, <3>4 DEF Work
  <2>10. CASE Tick
    BY <2>10, BoundAssumption
       DEF Tick, IInv, TypeOK, ScopesOK, OwnersOK, NoneIn, WalksOK, BoundsOK, NoScope, NoWalk
  <2>11. CASE UNCHANGED vars
    BY <2>11 DEF vars, IInv, TypeOK, ScopesOK, OwnersOK, NoneIn, WalksOK, BoundsOK, NoScope, NoWalk
  <2> QED
    BY <2>1, <2>2, <2>3, <2>4, <2>5, <2>7, <2>8, <2>9, <2>10, <2>11 DEF Next
<1> QED
  BY <1>1, <1>2, PTL DEF Spec

\* charge(): no scope, current or set aside, is ever charged past its limits,
\* and no counter leaves its width.
THEOREM BudgetWithinLimits == Spec => []WithinLimits
<1>1. IInv => WithinLimits
  <2> SUFFICES ASSUME IInv, NEW s \in Saved \cup {state}, s # None PROVE Bounded(s)
    BY DEF WithinLimits, IInv
  <2>1. stack \in Seq(Frame) /\ Len(stack) \in Nat
    BY DEF IInv, TypeOK
  <2>2. s = state \/ \E i \in 1..Len(stack) : Scope(stack[i]) /\ s = stack[i].saved
    BY <2>1 DEF Saved, ScopeFrames, Above, Scope
  <2> QED
    BY <2>2 DEF IInv, BoundsOK
<1> QED
  BY <1>1, Invariance, PTL

\* Scope, traversal(): whatever mixture of returns, panics and cancellations
\* ran, every guard on the stack finds the record of the scope it opened, and
\* STATE and TRAVERSAL are empty when no guard is left.
THEOREM BudgetGuardsRestored == Spec => []GuardsRestored
<1>1. IInv => GuardsRestored
  <2> SUFFICES ASSUME IInv PROVE GuardsRestored
    OBVIOUS
  <2>1. stack \in Seq(Frame) /\ Len(stack) \in Nat
    BY DEF IInv, TypeOK
  <2>2. ScopeFrames = {i \in 1..Len(stack) : Scope(stack[i])}
    BY <2>1 DEF ScopeFrames, Above, Scope
  <2>3. Above(0, "traversal") = {i \in 1..Len(stack) : Walk(stack[i])}
    BY <2>1 DEF Above, Walk
  <2>4. ScopeFrames = {} => state = None
    BY <2>2 DEF IInv, ScopesOK, NoScope
  <2>5. ASSUME NEW i \in ScopeFrames
        PROVE  /\ Owns(stack[i], RecordOf(i))
               /\ (\A j \in ScopeFrames : i <= j) => stack[i].saved = None
    <3> DEFINE A == Above(i, "scope")
    <3>1. i \in 1..Len(stack) /\ Scope(stack[i])
      BY <2>2
    <3>2. A \in SUBSET Nat /\ A = {j \in (i + 1)..Len(stack) : Scope(stack[j])}
      BY <2>1, <3>1 DEF Above, Scope
    <3>3. (\A j \in ScopeFrames : i <= j) => stack[i].saved = None
      <4>1. (\A j \in ScopeFrames : i <= j) => NoScope(stack, i - 1)
        BY <2>1, <2>2, <3>1 DEF NoScope
      <4> QED
        BY <3>1, <4>1 DEF IInv, ScopesOK
    <3>4. CASE A = {}
      <4>1. NoneIn(stack, i + 1, Len(stack))
        BY <3>2, <3>4 DEF NoneIn
      <4> QED
        BY <3>1, <3>4, <4>1, <3>3 DEF IInv, OwnersOK, RecordOf
    <3>5. CASE A # {}
      <4> DEFINE b == Bottom(A)
      <4>1. b \in A /\ \A j \in A : b <= j
        BY <3>2, <3>5, BottomIs
      <4>2. RecordOf(i) = stack[b].saved
        BY <3>5 DEF RecordOf
      <4>3. b \in (i + 1)..Len(stack) /\ Scope(stack[b])
        BY <3>2, <4>1
      <4>4. \A j \in (i + 1)..(b - 1) : ~Scope(stack[j])
        BY <2>1, <3>1, <3>2, <4>1, <4>3
      <4> HIDE DEF A, b
      <4>5. i < b /\ b \in 1..Len(stack) /\ NoneIn(stack, i + 1, b - 1)
        BY <2>1, <3>1, <4>3, <4>4 DEF NoneIn
      <4> QED
        BY <3>1, <4>2, <4>3, <4>5, <3>3 DEF IInv, OwnersOK
    <3> QED
      BY <3>4, <3>5
  <2>6. traversal = (Above(0, "traversal") # {})
    BY <2>3 DEF IInv, TypeOK, WalksOK, NoWalk
  <2> QED
    BY <2>4, <2>5, <2>6 DEF GuardsRestored
<1> QED
  BY <1>1, Invariance, PTL

\* While one scope stays current its counters never go down, an expired scope
\* is charged nothing and a stopped one never changes.
THEOREM BudgetAccounting == Spec => Accounting
<1> DEFINE A == ScopeFrames' = ScopeFrames /\ state # None =>
       /\ state'.decode >= state.decode /\ state'.ssa >= state.ssa
       /\ Expired(state) => state'.decode = state.decode /\ state'.ssa = state.ssa
       /\ state.stop # None => state' = state
<1>1. IInv /\ [Next]_vars => [A]_vars
  <2> SUFFICES ASSUME IInv, Next, ScopeFrames' = ScopeFrames, state # None PROVE A
    BY DEF vars
  <2>0. /\ state \in State /\ Bounded(state) /\ stack \in Seq(Frame)
        /\ now \in Nat /\ Len(stack) \in Nat
        /\ state.decode \in Nat /\ state.ssa \in Nat
    BY BoundAssumption, WidthAssumption DEF IInv, TypeOK, BoundsOK, State
  <2>1. ASSUME state' = state PROVE A
    BY <2>0, <2>1
  <2>2. ASSUME NEW d \in BOOLEAN, NEW a \in Nat, state' = Charged(state, d, a) PROVE A
    BY <2>0, <2>2, ChargedIs
  <2>3. ASSUME NEW l \in Limits, NewScope(l) PROVE A
    <3>1. /\ Len(stack') = Len(stack) + 1
          /\ stack'[Len(stack) + 1].kind = "scope"
      BY <2>0, <2>3, AppendProperties DEF NewScope, Push, Guard
    <3>2. Len(stack) + 1 \in ScopeFrames' /\ Len(stack) + 1 \notin ScopeFrames
      BY <2>0, <3>1 DEF ScopeFrames, Above
    <3> QED
      BY <3>2
  <2>4. CASE Traversal \/ CatchUnwind \/ Tick
    BY <2>1, <2>4 DEF Traversal, CatchUnwind, Tick
  <2>5. CASE Leave
    <3>1. Len(stack) - 1 \in 0..Len(stack)
      BY <2>0, <2>5, EmptySeq DEF Leave
    <3>2. DropTo(Len(stack) - 1, state)
      BY <2>5 DEF Leave
    <3> QED
      BY <2>0, <2>1, <3>1, <3>2, Dropped DEF Option
  <2>6. CASE Panic
    BY <2>0, <2>1, <2>6, CatcherIs, Dropped DEF Panic, Option
  <2>7. CASE DecodeStep
    BY <2>2, <2>7 DEF DecodeStep, Charge
  <2>8. CASE Poll
    BY <2>2, <2>8 DEF Poll, Charge
  <2>9. ASSUME NEW u \in Amounts, Work(u) PROVE A
    <3>1. Units(u) \in Nat
      BY WidthAssumption DEF Units
    <3> DEFINE c == Charged(state, FALSE, Units(u))
    <3>2. /\ c \in Option /\ (c = None) = (state = None) /\ (c # None => Bounded(c))
          /\ c # None => c.limits = state.limits /\ c.started = state.started
      BY <3>1, Recharged
    <3>3. state' = c \/ DropTo(Catcher, c)
      BY <2>9 DEF Work
    <3> HIDE DEF c
    <3>4. state' = c
      BY <2>0, <3>2, <3>3, CatcherIs, Dropped
    <3> QED
      BY <2>2, <3>1, <3>4 DEF c
  <2> QED
    BY <2>3, <2>4, <2>5, <2>6, <2>7, <2>8, <2>9 DEF Next
<1> QED
  BY <1>1, Invariance, PTL DEF Spec, Accounting
=============================================================================
