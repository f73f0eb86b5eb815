--------------------------- MODULE Dataflow_proofs ---------------------------
(***************************************************************************)
(* Proofs about instruction evidence, for every function that is lowered,  *)
(* every sequence of rewrites, every MAX_ORIGINS and every work ceiling;   *)
(* about the reaching-store analysis, for every function, MAX_STORES,      *)
(* MAX_LOCATIONS, work ceiling and placement of the frames; and about the  *)
(* slice across calls, for every program, every Limits and MAX_INPUTS.     *)
(***************************************************************************)
EXTENDS Provenance, ReachingStores, Interprocedural, FiniteSetTheorems, SequenceTheorems,
        WellFoundedInduction, TLAPS

---------------------------------------------------------------------------
(* Finite sets of origins *)

Less == {p \in Nat \X Nat : p[1] < p[2]}

\* A nonempty set of naturals has a least element.
LEMMA Least ==
  ASSUME NEW S \in SUBSET Nat, S # {}
  PROVE  \E i \in S : \A j \in S : i <= j
<1>1. IsWellFoundedOn(Less, Nat)
  BY NatLessThanWellFounded DEF OpToRel, Less
<1>2. PICK x \in S : \A y \in S : <<y, x>> \notin Less
  BY <1>1, WFMin
<1>3. ASSUME NEW y \in S PROVE x <= y
  <2>1. <<y, x>> \notin Less
    BY <1>2
  <2>2. <<y, x>> \in Nat \X Nat
    OBVIOUS
  <2>3. ~(y < x)
    BY <2>1, <2>2 DEF Less
  <2> QED
    BY <2>3
<1> QED
  BY <1>3

\* A finite one also has a greatest: a smallest set without one could lose a
\* member and still have none.
LEMMA Greatest ==
  ASSUME NEW S \in SUBSET Nat, IsFiniteSet(S), S # {}
  PROVE  \E m \in S : \A j \in S : j <= m
<1> DEFINE Topped(X) == \E m \in X : \A j \in X : j <= m
<1> DEFINE Bad == {X \in SUBSET S : X # {} /\ ~Topped(X)}
<1> DEFINE Sizes == {Cardinality(X) : X \in Bad}
<1> SUFFICES ASSUME ~Topped(S) PROVE FALSE
  OBVIOUS
<1>1. \A X \in SUBSET S : IsFiniteSet(X) /\ Cardinality(X) \in Nat
  BY FS_Subset, FS_CardinalityType
<1>2. Sizes \in SUBSET Nat /\ Sizes # {}
  BY <1>1
<1>3. PICK c \in Sizes : \A d \in Sizes : c <= d
  BY <1>2, Least
<1>4. PICK X \in Bad : c = Cardinality(X)
  OBVIOUS
<1>5. PICK x \in X : TRUE
  OBVIOUS
<1> DEFINE Y == X \ {x}
<1>6. Y \in SUBSET S /\ Cardinality(Y) = c - 1 /\ c \in Nat
  BY <1>1, <1>4, FS_RemoveElement
<1>7. Y \notin Bad
  <2> SUFFICES ASSUME Y \in Bad PROVE FALSE
    OBVIOUS
  <2>1. Cardinality(Y) \in Sizes
    OBVIOUS
  <2>2. c <= c - 1
    BY <1>3, <1>6, <2>1
  <2> QED
    BY <1>6, <2>2
<1>8. Topped(X)
  <2>1. CASE Y = {}
    <3>1. \A j \in X : j = x
      BY <2>1
    <3>2. x \in Nat
      BY <1>4
    <3> QED
      BY <3>1, <3>2
  <2>2. CASE Topped(Y)
    <3>1. PICK m \in Y : \A j \in Y : j <= m
      BY <2>2
    <3>2. m \in Nat /\ x \in Nat /\ X \subseteq Nat
      BY <1>4, <3>1
    <3>3. CASE x <= m
      BY <3>1, <3>2, <3>3
    <3>4. CASE m < x
      <4>1. ASSUME NEW j \in X PROVE j <= x
        BY <3>1, <3>2, <3>4
      <4> QED
        BY <4>1
    <3> QED
      BY <3>2, <3>3, <3>4
  <2> QED
    BY <1>6, <1>7, <2>1, <2>2
<1> QED
  BY <1>4, <1>8

\* insert(): a list that fits keeps everything,
LEMMA SmallestAll ==
  ASSUME NEW S \in SUBSET Nat, IsFiniteSet(S), Cardinality(S) <= MaxOrigins
  PROVE  Smallest(S) = S
<1>1. ASSUME NEW o \in S PROVE Cardinality({p \in S : p < o}) < MaxOrigins
  <2> DEFINE T == {p \in S : p < o}
  <2>1. T \in SUBSET S /\ o \notin T /\ o \in Nat
    OBVIOUS
  <2>2. /\ Cardinality(T) <= Cardinality(S) /\ (Cardinality(S) = Cardinality(T) => S = T)
        /\ IsFiniteSet(T)
    BY <2>1, FS_Subset
  <2>3. Cardinality(T) # Cardinality(S)
    BY <2>1, <2>2
  <2>4. Cardinality(T) \in Nat /\ Cardinality(S) \in Nat
    BY <2>2, FS_CardinalityType
  <2> HIDE DEF T
  <2>5. Cardinality(T) < MaxOrigins
    BY <2>2, <2>3, <2>4, ProvenanceAssumption
  <2> QED
    BY <2>5 DEF T
<1> QED
  BY <1>1 DEF Smallest

\* and no list exceeds MAX_ORIGINS.
LEMMA SmallestFits ==
  ASSUME NEW S \in SUBSET Nat, IsFiniteSet(S)
  PROVE  /\ Smallest(S) \in SUBSET Nat /\ IsFiniteSet(Smallest(S))
         /\ Cardinality(Smallest(S)) <= MaxOrigins
<1> DEFINE T == Smallest(S)
<1>1. T \in SUBSET S /\ T \in SUBSET Nat
  BY DEF Smallest
<1>2. IsFiniteSet(T) /\ Cardinality(T) \in Nat
  BY <1>1, FS_Subset, FS_CardinalityType
<1>3. CASE T = {}
  <2>1. Cardinality(T) = 0
    BY <1>3, FS_EmptySet
  <2> QED
    BY <1>1, <1>2, <2>1, ProvenanceAssumption
<1>4. CASE T # {}
  <2>1. PICK m \in T : \A j \in T : j <= m
    BY <1>1, <1>2, <1>4, Greatest
  <2> DEFINE B == {p \in S : p < m}
  <2>2. Cardinality(B) < MaxOrigins
    BY <2>1 DEF Smallest
  <2> HIDE DEF T
  <2>3. T \ {m} \in SUBSET B
    <3>1. ASSUME NEW j \in T \ {m} PROVE j \in B
      <4>1. j \in Nat /\ m \in Nat /\ j <= m /\ j # m /\ j \in S
        BY <1>1, <2>1
      <4> QED
        BY <4>1
    <3> QED
      BY <3>1
  <2>4. IsFiniteSet(B) /\ Cardinality(B) \in Nat
    BY FS_Subset, FS_CardinalityType
  <2> HIDE DEF B
  <2>5. Cardinality(T \ {m}) <= Cardinality(B)
    BY <2>3, <2>4, FS_Subset
  <2>6. Cardinality(T \ {m}) = Cardinality(T) - 1
    BY <1>2, FS_RemoveElement
  <2>7. Cardinality(T) <= MaxOrigins
    BY <1>2, <2>2, <2>4, <2>5, <2>6, ProvenanceAssumption
  <2> QED
    BY <1>1, <1>2, <2>7 DEF T
<1> QED
  BY <1>3, <1>4

---------------------------------------------------------------------------
(* The inductive invariant *)

\* Every list of origins fits.
OpsOK ==
  \A i \in Vars : IsFiniteSet(operations[i]) /\ Cardinality(operations[i]) <= MaxOrigins

\* An expression reads variables that exist, and nothing is owed to one that
\* does not.
InputsOK ==
  /\ \A i \in Vars : inputs[i] \subseteq Defined
  /\ \A i \in Vars \ Defined : owed[i] = {}

\* A variable that is not flagged holds its own origin and what its former
\* inputs held.
OwnKept == \A i \in Defined : truncated[i] \/ Source(i) \cup owed[i] \subseteq operations[i]

\* The closure walk flags what it marks; the queue is empty between two calls.
WalkOK ==
  /\ pphase = "work" => marked = {}
  /\ pphase = "mark" => \A i \in marked : truncated[i]
  /\ pphase = "edit" => queue = <<>>
  /\ ToSet(queue) \subseteq Defined

Settled(i) ==
  \A j \in inputs[i] :
    /\ truncated[j] => truncated[i]
    /\ ~truncated[i] => operations[j] \subseteq operations[i]

\* SettledOrQueued, kept up by the closure walk too.
WaitingOK == pphase # "edit" => \A i \in Defined : i \in ToSet(queue) \/ Settled(i)

PInv == PTypeOK /\ OpsOK /\ InputsOK /\ OwnKept /\ WalkOK /\ WaitingOK

\* What merge() computes: a list that fits and, unless the flag is up, one that
\* lacks nothing of what was merged; a flag is never lost.
MergedOK(new, ops, cut, S) ==
  /\ new.ops \in SUBSET Nat /\ IsFiniteSet(new.ops) /\ Cardinality(new.ops) <= MaxOrigins
  /\ new.cut \in BOOLEAN
  /\ cut => new.cut
  /\ \A j \in S : truncated[j] => new.cut
  /\ ~new.cut => ops \subseteq new.ops /\ \A j \in S : operations[j] \subseteq new.ops

LEMMA Merged ==
  ASSUME PTypeOK, OpsOK,
         NEW ops \in SUBSET Nat, IsFiniteSet(ops), NEW cut \in BOOLEAN,
         NEW S \in SUBSET Vars, NEW new, new = MergeInputs(ops, cut, S)
  PROVE  MergedOK(new, ops, cut, S)
<1> DEFINE All == ops \cup UNION {operations[i] : i \in S}
<1> DEFINE Flag == cut \/ Cardinality(All) > MaxOrigins \/ \E i \in S : truncated[i]
<1>1. new.ops = Smallest(All) /\ new.cut = Flag
  BY DEF MergeInputs
<1>2. All \in SUBSET Nat /\ Len(function) \in Nat
  <2>1. operations \in [Vars -> SUBSET Nat] /\ function \in Lowerings
    BY DEF PTypeOK
  <2>2. \A i \in S : operations[i] \in SUBSET Nat
    BY <2>1
  <2>3. Len(function) \in Nat
    BY <2>1, ProvenanceAssumption
  <2> QED
    BY <2>2, <2>3
<1>3. IsFiniteSet(All)
  <2>1. IsFiniteSet(Vars)
    BY <1>2, FS_Interval DEF Vars
  <2>2. IsFiniteSet(S)
    BY <2>1, FS_Subset
  <2> DEFINE f == [i \in S |-> operations[i]]
             T == {operations[i] : i \in S}
  <2>3. f \in Surjection(S, T)
    BY DEF Surjection
  <2>4. IsFiniteSet(T)
    BY <2>2, <2>3, FS_Surjection
  <2>5. \A t \in T : IsFiniteSet(t)
    BY DEF OpsOK
  <2>6. IsFiniteSet(UNION T)
    BY <2>4, <2>5, FS_UNION
  <2> QED
    BY <2>6, FS_Union
<1>4. Cardinality(All) \in Nat
  BY <1>3, FS_CardinalityType
<1>5. ops \subseteq All /\ \A j \in S : operations[j] \subseteq All
  OBVIOUS
<1> HIDE DEF All
<1>6. /\ new.ops \in SUBSET Nat /\ IsFiniteSet(new.ops) /\ Cardinality(new.ops) <= MaxOrigins
  BY <1>1, <1>2, <1>3, SmallestFits
<1>7. ASSUME ~new.cut PROVE new.ops = All
  <2>1. ~(Cardinality(All) > MaxOrigins)
    BY <1>1, <1>7, Zenon
  <2>2. Cardinality(All) <= MaxOrigins
    BY <1>4, <2>1, ProvenanceAssumption
  <2> QED
    BY <1>1, <1>2, <1>3, <2>2, SmallestAll
<1>8. Flag \in BOOLEAN /\ (cut => Flag) /\ \A j \in S : truncated[j] => Flag
  BY Zenon
<1> HIDE DEF Flag
<1> QED
  BY <1>1, <1>5, <1>6, <1>7, <1>8 DEF MergedOK

---------------------------------------------------------------------------
(* The queue *)

LEMMA HeadTail ==
  ASSUME NEW D, NEW q \in Seq(D), q # <<>>
  PROVE  /\ Head(q) \in D /\ Tail(q) \in Seq(D)
         /\ ToSet(q) = {Head(q)} \cup ToSet(Tail(q))
<1>1. Head(q) \in D /\ Tail(q) \in Seq(D) /\ Len(q) \in Nat /\ Len(q) > 0
  OBVIOUS
<1>2. /\ DOMAIN q = 1 .. Len(q) /\ DOMAIN Tail(q) = 1 .. Len(q) - 1
      /\ Head(q) = q[1] /\ \A k \in 1 .. Len(q) - 1 : Tail(q)[k] = q[k + 1]
  OBVIOUS
<1>3. ASSUME NEW x \in ToSet(q) PROVE x \in {Head(q)} \cup ToSet(Tail(q))
  <2>1. PICK k \in 1 .. Len(q) : x = q[k]
    BY <1>2 DEF ToSet
  <2>2. CASE k = 1
    BY <1>2, <2>1, <2>2
  <2>3. CASE k # 1
    <3>1. k - 1 \in 1 .. Len(q) - 1 /\ (k - 1) + 1 = k
      BY <1>1, <2>1, <2>3
    <3>2. Tail(q)[k - 1] = q[(k - 1) + 1]
      BY <1>2, <3>1
    <3> QED
      BY <1>2, <2>1, <3>1, <3>2 DEF ToSet
  <2> QED
    BY <2>2, <2>3
<1>4. ASSUME NEW x \in {Head(q)} \cup ToSet(Tail(q)) PROVE x \in ToSet(q)
  <2>1. CASE x = Head(q)
    <3>1. 1 \in 1 .. Len(q)
      BY <1>1
    <3> QED
      BY <1>2, <2>1, <3>1 DEF ToSet
  <2>2. CASE x \in ToSet(Tail(q))
    <3>1. PICK k \in 1 .. Len(q) - 1 : x = Tail(q)[k]
      BY <1>2, <2>2 DEF ToSet
    <3>2. k + 1 \in 1 .. Len(q)
      BY <1>1, <3>1
    <3> QED
      BY <1>2, <3>1, <3>2 DEF ToSet
  <2> QED
    BY <2>1, <2>2
<1> QED
  BY <1>1, <1>3, <1>4

\* What is appended to the queue in index order is waiting.
LEMMA Listed ==
  ASSUME NEW D, NEW S \in SUBSET D, IsFiniteSet(S), NEW order \in Ascending(S)
  PROVE  order \in Seq(D) /\ ToSet(order) = S
<1>1. Cardinality(S) \in Nat
  BY FS_CardinalityType
<1>2. order \in [1 .. Cardinality(S) -> S] /\ {order[k] : k \in DOMAIN order} = S
  BY DEF Ascending, Range
<1>3. order \in Seq(D)
  BY <1>1, <1>2
<1>4. ToSet(order) = S
  BY <1>2 DEF ToSet
<1> QED
  BY <1>3, <1>4

LEMMA Appended ==
  ASSUME NEW D, NEW q \in Seq(D), NEW order \in Seq(D)
  PROVE  q \o order \in Seq(D) /\ ToSet(q \o order) = ToSet(q) \cup ToSet(order)
<1> DEFINE r == q \o order
<1>3. DOMAIN order = 1 .. Len(order)
  OBVIOUS
<1>5. /\ r \in Seq(D) /\ DOMAIN q = 1 .. Len(q) /\ DOMAIN r = 1 .. Len(r)
      /\ Len(r) = Len(q) + Len(order) /\ Len(q) \in Nat /\ Len(order) \in Nat
  BY <1>3
<1>6. /\ \A k \in 1 .. Len(q) : r[k] = q[k]
      /\ \A k \in 1 .. Len(order) : r[Len(q) + k] = order[k]
  BY <1>3
<1>7. ASSUME NEW x \in ToSet(r) PROVE x \in ToSet(q) \cup ToSet(order)
  <2>1. PICK k \in 1 .. Len(r) : x = r[k]
    BY <1>5, <1>7 DEF ToSet
  <2>2. CASE k <= Len(q)
    BY <1>5, <1>6, <2>1, <2>2 DEF ToSet
  <2>3. CASE k > Len(q)
    <3>1. k - Len(q) \in 1 .. Len(order) /\ Len(q) + (k - Len(q)) = k
      BY <1>5, <2>1, <2>3
    <3>2. order[k - Len(q)] = x
      BY <1>6, <2>1, <3>1
    <3> QED
      BY <1>3, <3>1, <3>2 DEF ToSet
  <2> QED
    BY <1>5, <2>1, <2>2, <2>3
<1>8. ASSUME NEW x \in ToSet(q) \cup ToSet(order) PROVE x \in ToSet(r)
  <2>1. CASE x \in ToSet(q)
    <3>1. PICK k \in 1 .. Len(q) : x = q[k]
      BY <1>5, <2>1 DEF ToSet
    <3>2. k \in 1 .. Len(r)
      BY <1>5, <3>1
    <3> QED
      BY <1>5, <1>6, <3>1, <3>2 DEF ToSet
  <2>2. CASE x \in ToSet(order)
    <3>1. PICK k \in 1 .. Len(order) : x = order[k]
      BY <1>3, <2>2 DEF ToSet
    <3>2. Len(q) + k \in 1 .. Len(r)
      BY <1>5, <3>1
    <3> QED
      BY <1>5, <1>6, <3>1, <3>2 DEF ToSet
  <2> QED
    BY <2>1, <2>2
<1> QED
  BY <1>5, <1>7, <1>8
---------------------------------------------------------------------------
(* Every step keeps the invariant *)

LEMMA Shapes ==
  ASSUME PTypeOK
  PROVE  /\ Len(function) \in Nat /\ pcount \in Nat /\ Limit \in Nat
         /\ Defined \subseteq Vars /\ IsFiniteSet(Vars)
         /\ \A i \in Vars : /\ Source(i) \in SUBSET Nat /\ IsFiniteSet(Source(i))
                            /\ Cardinality(Source(i)) <= 1
                            /\ function[i + 1].refs \subseteq 0 .. i - 1
<1>1. function \in Seq([own : SUBSET Nat, refs : SUBSET Nat]) /\ pcount \in 0 .. Len(function)
  BY ProvenanceAssumption DEF PTypeOK
<1>2. Len(function) \in Nat /\ pcount \in Nat
  BY <1>1
<1>3. Limit \in Nat
  BY <1>2, ProvenanceAssumption DEF Limit
<1>4. Defined \subseteq Vars /\ IsFiniteSet(Vars)
  <2>1. Defined \subseteq Vars
    BY <1>1, <1>2 DEF Defined, Vars
  <2>2. IsFiniteSet(Vars)
    BY <1>2, FS_Interval DEF Vars
  <2> QED
    BY <2>1, <2>2
<1>5. ASSUME NEW i \in Vars
      PROVE  /\ Source(i) \in SUBSET Nat /\ IsFiniteSet(Source(i))
             /\ Cardinality(Source(i)) <= 1
             /\ function[i + 1].refs \subseteq 0 .. i - 1
  <2>1. i + 1 \in 1 .. Len(function) /\ (i + 1) - 2 = i - 1
    BY <1>2 DEF Vars
  <2>2. function \in Lowerings
    BY DEF PTypeOK
  <2>3. /\ IsFiniteSet(function[i + 1].own) /\ Cardinality(function[i + 1].own) <= 1
        /\ function[i + 1].refs \subseteq 0 .. (i + 1) - 2
    BY <2>1, <2>2, ProvenanceAssumption
  <2>4. function[i + 1].own \in SUBSET Nat
    <3> DEFINE R == [own : SUBSET Nat, refs : SUBSET Nat]
    <3>1. function \in Seq(R)
      BY <1>1
    <3> HIDE DEF R
    <3>2. function[i + 1] \in R
      BY <2>1, <3>1
    <3> QED
      BY <3>2 DEF R
  <2> QED
    BY <2>1, <2>3, <2>4 DEF Source
<1> QED
  BY <1>2, <1>3, <1>4, <1>5

\* Origins::definition keeps the operation being lowered, or flags it.
LEMMA OwnOrigin ==
  ASSUME NEW S \in SUBSET Nat, IsFiniteSet(S), Cardinality(S) <= 1,
         ~(MaxOrigins = 0 /\ S # {})
  PROVE  Smallest(S) = S
<1>1. CASE S = {}
  BY <1>1 DEF Smallest
<1>2. CASE MaxOrigins # 0
  <2>1. Cardinality(S) \in Nat
    BY FS_CardinalityType
  <2>2. Cardinality(S) <= MaxOrigins
    BY <1>2, <2>1, ProvenanceAssumption
  <2> QED
    BY <2>2, SmallestAll
<1> QED
  BY <1>1, <1>2

LEMMA DefineStep ==
  ASSUME PInv, Define
  PROVE  PInv'
<1> USE DEF PInv
<1> DEFINE n == pcount
           ops == Smallest(Source(n))
           cut == MaxOrigins = 0 /\ Source(n) # {}
           S == function[n + 1].refs
           new == MergeInputs(ops, cut, S)
<1>1. /\ pphase = "edit" /\ pcount < Len(function)
      /\ operations' = [operations EXCEPT ![n] = new.ops]
      /\ truncated' = [truncated EXCEPT ![n] = new.cut]
      /\ inputs' = [inputs EXCEPT ![n] = S]
      /\ pcount' = pcount + 1
      /\ UNCHANGED <<function, owed, pphase, queue, pwork, marked, rewrites>>
  BY DEF Define
<1>2. /\ Len(function) \in Nat /\ n \in Nat /\ Limit \in Nat /\ Defined \subseteq Vars
      /\ n \in Vars /\ n \notin Defined
  BY <1>1, Shapes DEF Vars, Defined
<1>3. Source(n) \in SUBSET Nat /\ IsFiniteSet(Source(n)) /\ Cardinality(Source(n)) <= 1
  BY <1>2, Shapes
<1>4. S \subseteq Defined
  BY <1>2, Shapes DEF Defined
<1>5. /\ Vars' = Vars /\ Defined' = Defined \cup {n}
      /\ \A i \in Vars : Source(i)' = Source(i)
  BY <1>1, <1>2 DEF Vars, Defined, Source
<1>6. ops \in SUBSET Nat /\ IsFiniteSet(ops)
  BY <1>3, SmallestFits
<1>7. cut \in BOOLEAN
  BY Zenon
<1>8. MergedOK(new, ops, cut, S)
  <2>1. S \in SUBSET Vars
    BY <1>2, <1>4
  <2> HIDE DEF ops, cut, S
  <2> QED
    BY <1>6, <1>7, <2>1, Merged DEF new
<1>9. ~cut => ops = Source(n)
  BY <1>3, OwnOrigin
<1> HIDE DEF new, ops, cut, S, n
<1>10. /\ \A i \in Vars \ {n} : /\ operations'[i] = operations[i]
                                /\ truncated'[i] = truncated[i]
                                /\ inputs'[i] = inputs[i]
       /\ operations'[n] = new.ops /\ truncated'[n] = new.cut /\ inputs'[n] = S
  BY <1>1, <1>2 DEF PTypeOK
<1>11. PTypeOK'
  <2>1. /\ operations' \in [Vars -> SUBSET Nat] /\ truncated' \in [Vars -> BOOLEAN]
        /\ inputs' \in [Vars -> SUBSET Vars]
    BY <1>1, <1>2, <1>4, <1>8 DEF PTypeOK, MergedOK
  <2>2. pcount' \in 0 .. Len(function)
    BY <1>1, <1>2 DEF n
  <2>3. pwork' \in 0 .. Limit'
    <3>1. Limit' = Limit + WorkFactor
      BY <1>1, <1>2, ProvenanceAssumption DEF Limit, n
    <3> QED
      BY <1>1, <1>2, <3>1, ProvenanceAssumption DEF PTypeOK
  <2> QED
    BY <1>1, <1>5, <2>1, <2>2, <2>3 DEF PTypeOK
<1>12. OpsOK'
  BY <1>5, <1>8, <1>10 DEF OpsOK, MergedOK
<1>13. InputsOK'
  BY <1>1, <1>4, <1>5, <1>10 DEF InputsOK
<1>14. OwnKept'
  <2>1. ASSUME NEW i \in Defined \cup {n}
        PROVE  truncated'[i] \/ Source(i)' \cup owed'[i] \subseteq operations'[i]
    <3>1. CASE i \in Defined
      BY <1>1, <1>2, <1>5, <1>10, <3>1 DEF OwnKept
    <3>2. CASE i = n
      <4>1. owed'[i] = {} /\ Source(i)' = Source(i)
        BY <1>1, <1>2, <1>5, <3>2 DEF InputsOK
      <4>2. truncated'[i] = new.cut /\ operations'[i] = new.ops
        BY <1>10, <3>2
      <4>3. ~new.cut => Source(i) \subseteq new.ops
        BY <1>8, <1>9, <3>2 DEF MergedOK
      <4> QED
        BY <4>1, <4>2, <4>3
    <3> QED
      BY <3>1, <3>2
  <2> QED
    BY <1>5, <2>1 DEF OwnKept
<1>15. WalkOK' /\ WaitingOK'
  BY <1>1, <1>5 DEF WalkOK, WaitingOK
<1> QED
  BY <1>11, <1>12, <1>13, <1>14, <1>15

LEMMA RewriteStep ==
  ASSUME PInv, NEW i \in Defined, NEW refs \in SUBSET Defined, Rewrite(i, refs)
  PROVE  PInv'
<1> USE DEF PInv
<1> DEFINE S == inputs[i] \cup refs
           new == MergeInputs(operations[i], truncated[i], S)
           gone == UNION {operations[j] : j \in inputs[i]}
<1>1. /\ pphase = "edit" /\ rewrites < MaxRewrites
      /\ operations' = [operations EXCEPT ![i] = new.ops]
      /\ truncated' = [truncated EXCEPT ![i] = new.cut]
      /\ inputs' = [inputs EXCEPT ![i] = refs]
      /\ owed' = [owed EXCEPT ![i] = @ \cup gone]
      /\ rewrites' = rewrites + 1
      /\ UNCHANGED <<function, pcount, pphase, queue, pwork, marked>>
  BY DEF Rewrite, RewriteMerges
<1>2. Defined \subseteq Vars /\ i \in Vars
  BY Shapes
<1>3. inputs[i] \subseteq Defined
  BY <1>2 DEF InputsOK
<1>4. /\ operations[i] \in SUBSET Nat /\ IsFiniteSet(operations[i]) /\ truncated[i] \in BOOLEAN
      /\ S \in SUBSET Vars /\ gone \in SUBSET Nat
  BY <1>2, <1>3 DEF PTypeOK, OpsOK
<1>5. MergedOK(new, operations[i], truncated[i], S)
  <2> HIDE DEF S
  <2> QED
    BY <1>4, Merged DEF new
<1>6. ~new.cut => gone \subseteq new.ops /\ operations[i] \subseteq new.ops /\ ~truncated[i]
  BY <1>4, <1>5 DEF MergedOK
<1> HIDE DEF new, gone, S
<1>7. /\ \A j \in Vars \ {i} : /\ operations'[j] = operations[j]
                               /\ truncated'[j] = truncated[j]
                               /\ inputs'[j] = inputs[j]
                               /\ owed'[j] = owed[j]
      /\ operations'[i] = new.ops /\ truncated'[i] = new.cut /\ inputs'[i] = refs
      /\ owed'[i] = owed[i] \cup gone
  BY <1>1, <1>2 DEF PTypeOK
<1>8. /\ Vars' = Vars /\ Defined' = Defined /\ Limit' = Limit
      /\ \A j \in Vars : Source(j)' = Source(j)
  BY <1>1 DEF Vars, Defined, Limit, Source
<1>9. PTypeOK'
  <2>1. /\ operations' \in [Vars -> SUBSET Nat] /\ truncated' \in [Vars -> BOOLEAN]
        /\ inputs' \in [Vars -> SUBSET Vars]
    BY <1>1, <1>2, <1>5 DEF PTypeOK, MergedOK
  <2>2. owed' \in [Vars -> SUBSET Nat]
    BY <1>1, <1>2, <1>4 DEF PTypeOK
  <2>3. rewrites' \in 0 .. MaxRewrites
    BY <1>1, ProvenanceAssumption DEF PTypeOK
  <2> QED
    BY <1>1, <1>8, <2>1, <2>2, <2>3 DEF PTypeOK
<1>10. OpsOK'
  BY <1>5, <1>7, <1>8 DEF OpsOK, MergedOK
<1>11. InputsOK'
  BY <1>7, <1>8 DEF InputsOK
<1>12. OwnKept'
  <2>1. ASSUME NEW j \in Defined
        PROVE  truncated'[j] \/ Source(j)' \cup owed'[j] \subseteq operations'[j]
    <3>1. truncated[j] \/ Source(j) \cup owed[j] \subseteq operations[j]
      BY DEF OwnKept
    <3>2. CASE j # i
      BY <1>2, <1>7, <1>8, <3>1, <3>2
    <3>3. CASE j = i
      BY <1>2, <1>6, <1>7, <1>8, <3>1, <3>3
    <3> QED
      BY <3>2, <3>3
  <2> QED
    BY <1>8, <2>1 DEF OwnKept
<1>13. WalkOK' /\ WaitingOK'
  BY <1>1, <1>8 DEF WalkOK, WaitingOK
<1> QED
  BY <1>9, <1>10, <1>11, <1>12, <1>13

LEMMA PropagateStep ==
  ASSUME PInv, Propagate
  PROVE  PInv'
<1> USE DEF PInv
<1>1. /\ pphase = "edit" /\ pcount > 0 /\ pphase' = "work"
      /\ queue' = [k \in 1 .. pcount |-> k - 1]
      /\ pwork' = 0 /\ marked' = {}
      /\ UNCHANGED <<function, pcount, inputs, owed, operations, truncated, rewrites>>
  BY DEF Propagate
<1>2. Defined \subseteq Vars /\ pcount \in Nat /\ Limit \in Nat
  BY Shapes
<1>3. Vars' = Vars /\ Defined' = Defined /\ Limit' = Limit /\ \A i \in Vars : Source(i)' = Source(i)
  BY <1>1 DEF Vars, Defined, Limit, Source
<1>4. queue' \in Seq(Defined) /\ ToSet(queue') = Defined
  <2>1. queue' \in [1 .. pcount -> Defined] /\ DOMAIN queue' = 1 .. pcount
    BY <1>1, <1>2 DEF Defined
  <2>2. ASSUME NEW i \in Defined PROVE i \in ToSet(queue')
    <3>1. i + 1 \in 1 .. pcount /\ queue'[i + 1] = i
      BY <1>1, <1>2 DEF Defined
    <3> QED
      BY <2>1, <3>1 DEF ToSet
  <2>3. ToSet(queue') \subseteq Defined
    BY <2>1 DEF ToSet
  <2> QED
    BY <1>2, <2>1, <2>2, <2>3
<1>5. PTypeOK'
  <2>1. queue' \in Seq(Vars)
    BY <1>2, <1>4
  <2>2. pwork' \in 0 .. Limit'
    BY <1>1, <1>2, <1>3
  <2> QED
    BY <1>1, <1>3, <2>1, <2>2 DEF PTypeOK
<1>6. OpsOK' /\ InputsOK' /\ OwnKept'
  BY <1>1, <1>2, <1>3 DEF OpsOK, InputsOK, OwnKept
<1>7. WalkOK' /\ WaitingOK'
  BY <1>1, <1>3, <1>4 DEF WalkOK, WaitingOK
<1> QED
  BY <1>5, <1>6, <1>7
\* Both walks take the head of the queue and append readers of it.
LEMMA Turned ==
  ASSUME PInv, queue # <<>>, NEW S \in SUBSET Defined,
         NEW order \in Ascending(S), queue' = Tail(queue) \o order
  PROVE  /\ Head(queue) \in Defined
         /\ queue' \in Seq(Vars)
         /\ ToSet(queue) = {Head(queue)} \cup ToSet(Tail(queue))
         /\ ToSet(queue') = ToSet(Tail(queue)) \cup S
         /\ ToSet(queue') \subseteq Defined
<1>1. queue \in Seq(Vars) /\ ToSet(queue) \subseteq Defined
  BY DEF PInv, PTypeOK, WalkOK
<1>2. Defined \subseteq Vars /\ IsFiniteSet(Vars)
  BY Shapes DEF PInv
<1>3. Tail(queue) \in Seq(Vars) /\ ToSet(queue) = {Head(queue)} \cup ToSet(Tail(queue))
  BY <1>1, HeadTail
<1>4. S \in SUBSET Vars /\ IsFiniteSet(S)
  BY <1>2, FS_Subset
<1>5. order \in Seq(Vars) /\ ToSet(order) = S
  BY <1>4, Listed
<1>6. queue' \in Seq(Vars) /\ ToSet(queue') = ToSet(Tail(queue)) \cup S
  <2> DEFINE q == Tail(queue)
  <2>1. q \in Seq(Vars) /\ queue' = q \o order
    BY <1>3
  <2> HIDE DEF q
  <2>2. \A D : \A x, y \in Seq(D) :
           x \o y \in Seq(D) /\ ToSet(x \o y) = ToSet(x) \cup ToSet(y)
    BY Appended
  <2>3. q \o order \in Seq(Vars) /\ ToSet(q \o order) = ToSet(q) \cup ToSet(order)
    BY <1>5, <2>1, <2>2, Zenon
  <2>4. queue' \in Seq(Vars) /\ ToSet(queue') = ToSet(q) \cup S
    BY <1>5, <2>1, <2>3, Zenon
  <2> QED
    BY <2>4 DEF q
<1> QED
  BY <1>1, <1>3, <1>6

LEMMA VisitStep ==
  ASSUME PInv, Visit
  PROVE  PInv'
<1> USE DEF PInv
<1> DEFINE i == Head(queue)
           rest == Tail(queue)
           new == MergeInputs(operations[i], truncated[i], inputs[i])
           R == Requeue(i, rest, new)
<1>1. /\ pphase = "work" /\ queue # <<>> /\ pwork < Limit
      /\ operations' = [operations EXCEPT ![i] = new.ops]
      /\ truncated' = [truncated EXCEPT ![i] = new.cut]
      /\ pwork' = pwork + 1
      /\ UNCHANGED <<function, pcount, inputs, owed, pphase, marked, rewrites>>
  BY DEF Visit
<1>2. PICK order \in Ascending(R) : queue' = rest \o order
  BY DEF Visit
<1>3. R \in SUBSET Defined
  BY DEF Requeue, Consumers
<1>4. /\ i \in Defined /\ queue' \in Seq(Vars)
      /\ ToSet(queue) = {i} \cup ToSet(rest)
      /\ ToSet(queue') = ToSet(rest) \cup R /\ ToSet(queue') \subseteq Defined
  <2> HIDE DEF R
  <2> QED
    BY <1>1, <1>2, <1>3, Turned
<1>5. Defined \subseteq Vars /\ i \in Vars /\ Limit \in Nat
  BY <1>4, Shapes
<1>6. /\ operations[i] \in SUBSET Nat /\ IsFiniteSet(operations[i]) /\ truncated[i] \in BOOLEAN
      /\ inputs[i] \in SUBSET Vars
  BY <1>5 DEF PTypeOK, OpsOK
<1>7. MergedOK(new, operations[i], truncated[i], inputs[i])
  <2> HIDE DEF i
  <2> QED
    BY <1>6, Merged DEF new
<1>8. ASSUME NEW k \in Consumers(i), k \notin ToSet(queue')
      PROVE  new.ops = operations[i] /\ new.cut = truncated[i]
  <2> HIDE DEF new, i, rest
  <2>1. k \notin ToSet(rest) /\ k \notin R
    BY <1>4, <1>8
  <2>2. new = [ops |-> operations[i], cut |-> truncated[i]]
    BY <1>8, <2>1 DEF Requeue
  <2> QED
    BY <2>2
<1> HIDE DEF new, R, i, rest
<1>9. /\ \A j \in Vars \ {i} : operations'[j] = operations[j] /\ truncated'[j] = truncated[j]
      /\ operations'[i] = new.ops /\ truncated'[i] = new.cut
  BY <1>1, <1>5 DEF PTypeOK
<1>10. /\ Vars' = Vars /\ Defined' = Defined /\ Limit' = Limit
       /\ \A j \in Vars : Source(j)' = Source(j)
  BY <1>1 DEF Vars, Defined, Limit, Source
<1>11. PTypeOK'
  <2>1. operations' \in [Vars -> SUBSET Nat] /\ truncated' \in [Vars -> BOOLEAN]
    BY <1>1, <1>5, <1>7 DEF PTypeOK, MergedOK
  <2>2. pwork' \in 0 .. Limit
    BY <1>1, <1>5 DEF PTypeOK
  <2> QED
    BY <1>1, <1>4, <1>10, <2>1, <2>2 DEF PTypeOK
<1>12. OpsOK' /\ InputsOK'
  BY <1>1, <1>7, <1>9, <1>10 DEF OpsOK, InputsOK, MergedOK
<1>13. OwnKept'
  <2>1. ASSUME NEW j \in Defined
        PROVE  truncated'[j] \/ Source(j)' \cup owed'[j] \subseteq operations'[j]
    <3>1. truncated[j] \/ Source(j) \cup owed[j] \subseteq operations[j]
      BY DEF OwnKept
    <3>2. CASE j # i
      BY <1>1, <1>5, <1>9, <1>10, <3>1, <3>2
    <3>3. CASE j = i
      BY <1>1, <1>5, <1>7, <1>9, <1>10, <3>1, <3>3 DEF MergedOK
    <3> QED
      BY <3>2, <3>3
  <2> QED
    BY <1>10, <2>1 DEF OwnKept
<1>14. WalkOK'
  BY <1>1, <1>4, <1>10 DEF WalkOK
<1>15. WaitingOK'
  <2>1. ASSUME NEW k \in Defined, k \notin ToSet(queue'), NEW j \in inputs[k]
        PROVE  /\ truncated'[j] => truncated'[k]
               /\ ~truncated'[k] => operations'[j] \subseteq operations'[k]
    <3>1. j \in Vars /\ k \in Vars
      BY <1>5 DEF PTypeOK
    <3>2. CASE j = k
      BY <3>2
    <3>3. CASE k = i /\ j # i
      BY <1>7, <1>9, <3>1, <3>3 DEF MergedOK
    <3>4. CASE k # i
      <4>1. /\ truncated[j] => truncated[k]
            /\ ~truncated[k] => operations[j] \subseteq operations[k]
        BY <1>1, <1>4, <2>1, <3>4 DEF WaitingOK, Settled
      <4>2. CASE j = i
        <5>1. k \in Consumers(i)
          BY <2>1, <4>2 DEF Consumers
        <5>2. operations'[j] = operations[j] /\ truncated'[j] = truncated[j]
          BY <1>8, <1>9, <2>1, <4>2, <5>1
        <5> QED
          BY <1>9, <3>1, <3>4, <4>1, <5>2
      <4>3. CASE j # i
        BY <1>9, <3>1, <3>4, <4>1, <4>3
      <4> QED
        BY <4>2, <4>3
    <3> QED
      BY <3>2, <3>3, <3>4
  <2>2. \A k \in Defined : k \in ToSet(queue') \/ Settled(k)'
    BY <1>1, <2>1 DEF Settled
  <2> QED
    BY <1>10, <2>2 DEF WaitingOK
<1> QED
  BY <1>11, <1>12, <1>13, <1>14, <1>15

LEMMA MarkStep ==
  ASSUME PInv, Mark
  PROVE  PInv'
<1> USE DEF PInv
<1> DEFINE i == Head(queue)
           rest == Tail(queue)
<1>1. /\ pphase = "mark" /\ queue # <<>>
      /\ UNCHANGED <<function, pcount, inputs, owed, operations, pphase, pwork, rewrites>>
  BY DEF Mark
<1>2. /\ Vars' = Vars /\ Defined' = Defined /\ Limit' = Limit
      /\ \A j \in Vars : Source(j)' = Source(j)
  BY <1>1 DEF Vars, Defined, Limit, Source
<1>3. queue \in Seq(Vars) /\ ToSet(queue) \subseteq Defined /\ Defined \subseteq Vars
  BY Shapes DEF PTypeOK, WalkOK
<1>4. /\ rest \in Seq(Vars) /\ ToSet(queue) = {i} \cup ToSet(rest)
      /\ i \in Defined /\ i \in Vars
  BY <1>1, <1>3, HeadTail
<1>5. CASE i \in marked
  <2>1. queue' = rest /\ truncated' = truncated /\ marked' = marked
    BY <1>5 DEF Mark
  <2>2. truncated[i] /\ truncated \in [Vars -> BOOLEAN]
    BY <1>1, <1>5 DEF WalkOK, PTypeOK
  <2> HIDE DEF i, rest
  <2>3. PTypeOK'
    BY <1>1, <1>2, <1>4, <2>1 DEF PTypeOK
  <2>4. OpsOK' /\ InputsOK' /\ OwnKept'
    BY <1>1, <1>2, <1>3, <2>1 DEF OpsOK, InputsOK, OwnKept
  <2>5. WalkOK'
    BY <1>1, <1>2, <1>3, <1>4, <2>1 DEF WalkOK
  <2>6. Settled(i)
    BY <2>2 DEF Settled
  <2>7. \A k \in Defined : k \in ToSet(queue') \/ Settled(k)
    BY <1>1, <1>4, <2>1, <2>6 DEF WaitingOK
  <2>8. \A k \in Defined : Settled(k)' = Settled(k)
    BY <1>1, <2>1 DEF Settled
  <2>9. WaitingOK'
    BY <1>2, <2>7, <2>8 DEF WaitingOK
  <2> QED
    BY <2>3, <2>4, <2>5, <2>9
<1>6. CASE i \notin marked
  <2> DEFINE S == Consumers(i) \ marked'
  <2>1. marked' = marked \cup {i} /\ truncated' = [truncated EXCEPT ![i] = TRUE]
    BY <1>6 DEF Mark
  <2>2. PICK order \in Ascending(S) : queue' = rest \o order
    BY <1>6 DEF Mark
  <2>3. S \in SUBSET Defined
    BY DEF Consumers
  <2>4. /\ queue' \in Seq(Vars)
        /\ ToSet(queue') = ToSet(rest) \cup S /\ ToSet(queue') \subseteq Defined
    <3> HIDE DEF S
    <3> QED
      BY <1>1, <2>2, <2>3, Turned
  <2> HIDE DEF i, rest
  <2>5. /\ truncated \in [Vars -> BOOLEAN] /\ truncated'[i] = TRUE
        /\ \A j \in Vars \ {i} : truncated'[j] = truncated[j]
        /\ \A j \in Vars : truncated[j] => truncated'[j]
    BY <1>4, <2>1 DEF PTypeOK
  <2>6. PTypeOK'
    <3>1. truncated' \in [Vars -> BOOLEAN] /\ marked' \subseteq Vars
      BY <1>4, <2>1 DEF PTypeOK
    <3> QED
      BY <1>1, <1>2, <2>4, <3>1 DEF PTypeOK
  <2>7. OpsOK' /\ InputsOK' /\ OwnKept'
    BY <1>1, <1>2, <1>3, <2>5 DEF OpsOK, InputsOK, OwnKept
  <2>8. \A j \in marked' : truncated'[j]
    BY <1>1, <2>1, <2>5 DEF WalkOK, PTypeOK
  <2>9. WalkOK'
    BY <1>1, <1>2, <2>4, <2>8 DEF WalkOK
  <2>10. ASSUME NEW k \in Defined, k \notin ToSet(queue'), NEW j \in inputs[k]
         PROVE  /\ truncated'[j] => truncated'[k]
                /\ ~truncated'[k] => operations'[j] \subseteq operations'[k]
    <3>1. j \in Vars /\ k \in Vars
      BY <1>3 DEF PTypeOK
    <3>2. CASE truncated'[k]
      BY <3>2
    <3>3. CASE ~truncated'[k]
      <4>1. k # i /\ k \notin marked'
        BY <2>5, <2>8, <3>3
      <4>2. j # i
        BY <2>4, <2>10, <4>1 DEF Consumers
      <4>3. truncated[j] => truncated[k]
        BY <1>1, <1>4, <2>4, <2>10, <4>1 DEF WaitingOK, Settled
      <4>4. ~truncated[k] => operations[j] \subseteq operations[k]
        BY <1>1, <1>4, <2>4, <2>10, <4>1 DEF WaitingOK, Settled
      <4> QED
        BY <1>1, <2>5, <3>1, <3>3, <4>1, <4>2, <4>3, <4>4
    <3> QED
      BY <3>2, <3>3
  <2>11. \A k \in Defined : k \in ToSet(queue') \/ Settled(k)'
    BY <1>1, <2>10 DEF Settled
  <2>12. WaitingOK'
    BY <1>2, <2>11 DEF WaitingOK
  <2> QED
    BY <2>6, <2>7, <2>9, <2>12
<1> QED
  BY <1>5, <1>6

\* The steps that only pass from one phase to the next.
LEMMA PhaseStep ==
  ASSUME PInv, LeaveLoop \/ Propagated
  PROVE  PInv'
<1> USE DEF PInv
<1>1. UNCHANGED <<function, pcount, inputs, owed, operations, truncated, queue, pwork, marked,
                  rewrites>>
  BY DEF LeaveLoop, Propagated
<1>2. Vars' = Vars /\ Defined' = Defined /\ Limit' = Limit /\ \A i \in Vars : Source(i)' = Source(i)
  BY <1>1 DEF Vars, Defined, Limit, Source
<1>3. Defined \subseteq Vars
  BY Shapes
<1>4. \/ pphase = "work" /\ pphase' = "mark"
      \/ pphase = "mark" /\ pphase' = "edit" /\ queue = <<>>
  BY DEF LeaveLoop, Propagated
<1>5. PTypeOK' /\ OpsOK' /\ InputsOK' /\ OwnKept'
  BY <1>1, <1>2, <1>3, <1>4 DEF PTypeOK, OpsOK, InputsOK, OwnKept
<1>6. WalkOK'
  BY <1>1, <1>2, <1>4 DEF WalkOK
<1>7. \A k \in Defined : Settled(k)' = Settled(k)
  BY <1>1 DEF Settled
<1>8. WaitingOK'
  BY <1>1, <1>2, <1>4, <1>7 DEF WaitingOK
<1> QED
  BY <1>5, <1>6, <1>8

LEMMA Stutter ==
  ASSUME PInv, UNCHANGED pvars
  PROVE  PInv'
<1>1. UNCHANGED <<function, pcount, inputs, owed, operations, truncated, pphase, queue, pwork,
                  marked, rewrites>>
  BY DEF pvars
<1>2. Vars' = Vars /\ Defined' = Defined /\ Limit' = Limit /\ \A i \in Vars : Source(i)' = Source(i)
  BY <1>1 DEF Vars, Defined, Limit, Source
<1>3. Defined \subseteq Vars
  BY Shapes DEF PInv
<1>4. PTypeOK' /\ OpsOK' /\ InputsOK' /\ OwnKept' /\ WalkOK'
  BY <1>1, <1>2, <1>3 DEF PInv, PTypeOK, OpsOK, InputsOK, OwnKept, WalkOK
<1>5. WaitingOK'
  BY <1>1, <1>2 DEF PInv, WaitingOK, Settled
<1> QED
  BY <1>4, <1>5 DEF PInv

LEMMA PInitial ==
  ASSUME PInit
  PROVE  PInv
<1>1. /\ function \in Lowerings /\ pcount = 0 /\ pphase = "edit" /\ queue = <<>> /\ pwork = 0
      /\ marked = {} /\ rewrites = 0
      /\ inputs = [i \in Vars |-> {}] /\ owed = [i \in Vars |-> {}]
      /\ operations = [i \in Vars |-> {}] /\ truncated = [i \in Vars |-> FALSE]
  BY DEF PInit
<1>2. Len(function) \in Nat
  BY <1>1, ProvenanceAssumption
<1>3. Defined = {} /\ Limit = 0
  BY <1>1, ProvenanceAssumption DEF Defined, Limit
<1>4. PTypeOK
  BY <1>1, <1>2, <1>3, ProvenanceAssumption DEF PTypeOK
<1>5. OpsOK
  BY <1>1, FS_EmptySet, ProvenanceAssumption DEF OpsOK
<1>6. InputsOK /\ OwnKept
  BY <1>1, <1>3 DEF InputsOK, OwnKept
<1>7. ToSet(queue) = {}
  BY <1>1 DEF ToSet
<1>8. WalkOK /\ WaitingOK
  BY <1>1, <1>3, <1>7 DEF WalkOK, WaitingOK
<1> QED
  BY <1>4, <1>5, <1>6, <1>8 DEF PInv

\* The invariant of rewriting and of both walks of propagate().
THEOREM EvidenceInvariance == PSpec => []PInv
<1>1. PInit => PInv
  BY PInitial
<1>2. PInv /\ [PNext]_pvars => PInv'
  <2> SUFFICES ASSUME PInv, [PNext]_pvars PROVE PInv'
    OBVIOUS
  <2>1. CASE Define
    BY <2>1, DefineStep
  <2>2. CASE \E i \in Defined, refs \in SUBSET Defined : Rewrite(i, refs)
    BY <2>2, RewriteStep
  <2>3. CASE Propagate
    BY <2>3, PropagateStep
  <2>4. CASE Visit
    BY <2>4, VisitStep
  <2>5. CASE Mark
    BY <2>5, MarkStep
  <2>6. CASE LeaveLoop \/ Propagated
    BY <2>6, PhaseStep
  <2>7. CASE UNCHANGED pvars
    BY <2>7, Stutter
  <2> QED
    BY <2>1, <2>2, <2>3, <2>4, <2>5, <2>6, <2>7 DEF PNext, PStep
<1> QED
  BY <1>1, <1>2, PTL DEF PSpec

\* CompleteOrFlagged: when propagate() returns, the variables whose lists are
\* unflagged and contained in that of i are closed under reading, so they
\* include all that i may be computed from.
THEOREM EvidenceComplete == PSpec => []CompleteOrFlagged
<1>1. PInv => CompleteOrFlagged
  <2> SUFFICES ASSUME PInv PROVE CompleteOrFlagged
    OBVIOUS
  <2>1. SettledOrQueued
    BY DEF PInv, WaitingOK, Settled, SettledOrQueued
  <2>2. ASSUME Returned, NEW i \in Defined, ~truncated[i], NEW j \in Reach(i)
        PROVE  Source(j) \cup owed[j] \subseteq operations[i]
    <3> DEFINE S == {k \in Defined : ~truncated[k] /\ operations[k] \subseteq operations[i]}
    <3>1. Defined \subseteq Vars
      BY Shapes DEF PInv
    <3>2. S \in SUBSET Vars /\ i \in S
      BY <2>2, <3>1
    <3>3. ASSUME NEW k \in S PROVE inputs[k] \subseteq S
      <4>1. ToSet(queue) = {} /\ pphase # "edit"
        BY <2>2 DEF Returned, ToSet
      <4>2. Settled(k)
        BY <4>1 DEF PInv, WaitingOK
      <4>3. inputs[k] \subseteq Defined
        BY <3>1 DEF PInv, InputsOK
      <4>4. ~truncated[k] /\ operations[k] \subseteq operations[i]
        OBVIOUS
      <4>5. \A l \in inputs[k] : ~truncated[l] /\ operations[l] \subseteq operations[i]
        BY <4>2, <4>4 DEF Settled
      <4> QED
        BY <4>3, <4>5
    <3>4. \A T \in SUBSET Vars : i \in T /\ (\A k \in T : inputs[k] \subseteq T) => j \in T
      BY <2>2 DEF Reach
    <3>5. j \in S
      <4> HIDE DEF S
      <4> QED
        BY <3>2, <3>3, <3>4
    <3>6. Source(j) \cup owed[j] \subseteq operations[j]
      BY <3>5 DEF PInv, OwnKept
    <3> QED
      BY <3>5, <3>6
  <2> QED
    BY <2>1, <2>2 DEF CompleteOrFlagged
<1> QED
  BY <1>1, EvidenceInvariance, PTL

\* A step keeps the flag of every variable, and its list or the flag.
LEMMA KeptStep ==
  ASSUME PInv, PInv', [PNext]_pvars, NEW i \in Defined
  PROVE  /\ truncated[i] => truncated'[i]
         /\ operations[i] \subseteq operations'[i] \/ truncated'[i]
         /\ Cardinality(operations'[i]) <= MaxOrigins
<1>1. /\ i \in Vars /\ Defined \subseteq Vars
      /\ operations \in [Vars -> SUBSET Nat] /\ truncated \in [Vars -> BOOLEAN]
      /\ inputs \in [Vars -> SUBSET Vars]
  BY Shapes DEF PInv, PTypeOK
<1>2. Cardinality(operations'[i]) <= MaxOrigins
  <2>1. function' = function
    BY DEF PNext, PStep, Define, Rewrite, Propagate, Visit, LeaveLoop, Mark, Propagated, pvars
  <2>2. i \in Vars'
    BY <1>1, <2>1 DEF Vars
  <2> QED
    BY <2>2 DEF PInv, OpsOK
<1>3. ASSUME NEW d \in Vars, NEW S \in SUBSET Vars, NEW new,
             new = MergeInputs(operations[d], truncated[d], S),
             operations' = [operations EXCEPT ![d] = new.ops],
             truncated' = [truncated EXCEPT ![d] = new.cut]
      PROVE  (truncated[i] => truncated'[i]) /\ (operations[i] \subseteq operations'[i] \/ truncated'[i])
  <2>1. /\ operations[d] \in SUBSET Nat /\ IsFiniteSet(operations[d]) /\ truncated[d] \in BOOLEAN
    BY <1>1 DEF PInv, OpsOK
  <2>2. MergedOK(new, operations[d], truncated[d], S)
    BY <1>3, <2>1, Merged DEF PInv
  <2> QED
    BY <1>1, <1>3, <2>2 DEF MergedOK
<1>4. CASE Define
  <2>1. i # pcount
    BY Shapes DEF PInv, Defined
  <2> QED
    BY <1>1, <1>2, <1>4, <2>1 DEF Define
<1>5. CASE \E k \in Defined, refs \in SUBSET Defined : Rewrite(k, refs)
  <2>1. PICK k \in Defined, refs \in SUBSET Defined : Rewrite(k, refs)
    BY <1>5
  <2>2. RewriteMerges(k, refs) \in SUBSET Vars /\ k \in Vars
    BY <1>1 DEF RewriteMerges
  <2> QED
    BY <1>2, <1>3, <2>1, <2>2 DEF Rewrite
<1>6. CASE Visit
  <2>1. Head(queue) \in Vars /\ inputs[Head(queue)] \in SUBSET Vars
    BY <1>1, <1>6, HeadTail DEF Visit, PInv, PTypeOK
  <2> QED
    BY <1>2, <1>3, <1>6, <2>1 DEF Visit
<1>7. CASE Mark
  BY <1>1, <1>2, <1>7 DEF Mark
<1>8. CASE Propagate \/ LeaveLoop \/ Propagated \/ UNCHANGED pvars
  BY <1>1, <1>2, <1>8 DEF Propagate, LeaveLoop, Propagated, pvars
<1> QED
  BY <1>4, <1>5, <1>6, <1>7, <1>8 DEF PNext, PStep

\* EvidenceKept, of every step: merge(), insert() and the closure walk.
THEOREM EvidenceNeverDropped == PSpec => EvidenceKept
<1>1. PInv /\ PInv' /\ [PNext]_pvars =>
        [\A i \in Defined : /\ truncated[i] => truncated'[i]
                            /\ operations[i] \subseteq operations'[i] \/ truncated'[i]
                            /\ Cardinality(operations'[i]) <= MaxOrigins]_pvars
  BY KeptStep
<1> QED
  BY <1>1, EvidenceInvariance, PTL DEF PSpec, EvidenceKept

---------------------------------------------------------------------------
(* The reaching-store analysis *)

\* A state holds of memory: every location it knows was last written, as a whole,
\* by one of the stores it names.
Holds(s, mem) ==
  \A key \in DOMAIN s.values : \E id \in s.values[key] : \A a \in Touched(key) : mem[a] = id

\* s says no more than t: it knows fewer locations, and names more stores.
Weaker(s, t) ==
  /\ DOMAIN s.values \subseteq DOMAIN t.values
  /\ \A key \in DOMAIN s.values : t.values[key] \subseteq s.values[key]

Keyed(s) == DOMAIN s.values \in SUBSET Locations /\ IsFiniteSet(DOMAIN s.values)

LEMMA EmptyKnows ==
  ASSUME NEW why
  PROVE  DOMAIN Empty(why).values = {} /\ Keyed(Empty(why))
<1>1. DOMAIN Empty(why).values = {}
  BY DEF Empty
<1> QED
  BY <1>1, FS_EmptySet DEF Keyed

LEMMA WeakerStill ==
  ASSUME NEW r, NEW s, NEW t, Weaker(r, s), Weaker(s, t)
  PROVE  Weaker(r, t)
BY Zenon DEF Weaker

LEMMA WeakerKeyed ==
  ASSUME NEW s, NEW t, Weaker(s, t), Keyed(t)
  PROVE  Keyed(s)
BY FS_Subset DEF Weaker, Keyed

LEMMA WeakerHolds ==
  ASSUME NEW s, NEW t, NEW mem, Weaker(s, t), Holds(t, mem)
  PROVE  Holds(s, mem)
<1> SUFFICES ASSUME NEW key \in DOMAIN s.values
             PROVE  \E id \in s.values[key] : \A a \in Touched(key) : mem[a] = id
  BY DEF Holds
<1>1. key \in DOMAIN t.values /\ t.values[key] \subseteq s.values[key]
  BY DEF Weaker
<1>2. PICK id \in t.values[key] : \A a \in Touched(key) : mem[a] = id
  BY <1>1 DEF Holds
<1> QED
  BY <1>1, <1>2

\* merge() keeps what both sides say.
LEMMA JoinWeaker ==
  ASSUME NEW s, NEW t
  PROVE  Weaker(Join(s, t), s) /\ Weaker(Join(s, t), t)
<1> DEFINE kept == {key \in DOMAIN s.values \cap DOMAIN t.values :
                      Cardinality(s.values[key] \cup t.values[key]) <= MaxStores}
<1>1. Join(s, t).values = [key \in kept |-> s.values[key] \cup t.values[key]]
  BY DEF Join
<1>2. kept \subseteq DOMAIN s.values /\ kept \subseteq DOMAIN t.values
  OBVIOUS
<1> HIDE DEF kept
<1> QED
  BY <1>1, <1>2 DEF Weaker

---------------------------------------------------------------------------
(* merge() and the walk through a block compute what their equations say:  *)
(* a shortest list without a solution would extend the solution of the     *)
(* list before it.                                                         *)

LEMMA WalkIs ==
  ASSUME NEW b, NEW entry, Len(prog.body[b]) \in Nat
  PROVE  /\ Walk(b, entry)[1] = entry
         /\ \A k \in 1 .. Len(prog.body[b]) :
              Walk(b, entry)[k + 1] = StepState(Walk(b, entry)[k], prog.body[b][k], <<b, k>>)
<1> DEFINE n == Len(prog.body[b])
           G(s, k) == StepState(s, prog.body[b][k], <<b, k>>)
           Solves(f, m) == f = [k \in 1 .. m |-> IF k = 1 THEN entry ELSE G(f[k - 1], k - 1)]
           Bad == {m \in 1 .. n + 1 : ~\E f : Solves(f, m)}
<1> HIDE DEF G
<1>1. Bad = {}
  <2> SUFFICES ASSUME Bad # {} PROVE FALSE
    OBVIOUS
  <2>1. Bad \in SUBSET Nat
    OBVIOUS
  <2>2. PICK m \in Bad : \A j \in Bad : m <= j
    BY <2>1, Least
  <2>3. m \in 1 .. n + 1 /\ ~\E f : Solves(f, m)
    BY <2>2
  <2>4. CASE m = 1
    <3> DEFINE g == [k \in 1 .. 1 |-> entry]
    <3>1. Solves(g, 1)
      OBVIOUS
    <3> QED
      BY <2>3, <2>4, <3>1
  <2>5. CASE m # 1
    <3>1. m - 1 \in 1 .. n + 1 /\ m - 1 \notin Bad
      <4>1. m - 1 \in 1 .. n + 1 /\ ~(m <= m - 1)
        BY <2>3, <2>5
      <4>2. m - 1 \notin Bad
        BY <2>2, <4>1, Zenon
      <4> QED
        BY <4>1, <4>2
    <3>2. PICK f : Solves(f, m - 1)
      BY <3>1
    <3> DEFINE g == [k \in 1 .. m |-> IF k = m THEN G(f[m - 1], m - 1) ELSE f[k]]
    <3>3. ASSUME NEW k \in 1 .. m PROVE g[k] = IF k = 1 THEN entry ELSE G(g[k - 1], k - 1)
      <4>1. CASE k = m
        <5>1. m - 1 \in 1 .. m /\ m - 1 # m
          BY <2>3, <2>5
        <5>2. g[m - 1] = f[m - 1]
          BY <5>1
        <5> QED
          BY <2>5, <4>1, <5>2
      <4>2. CASE k # m
        <5>1. k \in 1 .. m - 1
          BY <2>3, <4>2
        <5>2. g[k] = f[k] /\ f[k] = IF k = 1 THEN entry ELSE G(f[k - 1], k - 1)
          BY <3>2, <4>2, <5>1
        <5>3. CASE k = 1
          BY <5>2, <5>3
        <5>4. CASE k # 1
          <6>1. k - 1 \in 1 .. m /\ k - 1 # m
            BY <5>1, <5>4, <2>3
          <6>2. g[k - 1] = f[k - 1]
            BY <6>1
          <6> QED
            BY <5>2, <5>4, <6>2
        <5> QED
          BY <5>3, <5>4
      <4> QED
        BY <4>1, <4>2
    <3>4. Solves(g, m)
      <4> DEFINE h == [k \in 1 .. m |-> IF k = 1 THEN entry ELSE G(g[k - 1], k - 1)]
      <4> HIDE DEF g
      <4>1. \A k \in 1 .. m : g[k] = h[k]
        BY <3>3
      <4>2. g = [k \in 1 .. m |-> g[k]]
        BY DEF g
      <4>3. g = h
        BY <4>1, <4>2
      <4> QED
        BY <4>3
    <3> QED
      BY <2>3, <3>4
  <2> QED
    BY <2>4, <2>5
<1>2. n + 1 \in 1 .. n + 1
  OBVIOUS
<1>3. \E f : Solves(f, n + 1)
  BY <1>1, <1>2
<1>4. Solves(Walk(b, entry), n + 1)
  <2>1. Walk(b, entry) = CHOOSE f : Solves(f, n + 1)
    BY Zenon DEF Walk, G
  <2> QED
    BY <1>3, <2>1, Zenon
<1>5. Walk(b, entry)[1] = entry
  BY <1>4
<1>6. ASSUME NEW k \in 1 .. n PROVE Walk(b, entry)[k + 1] = G(Walk(b, entry)[k], k)
  <2>1. k + 1 \in 1 .. n + 1 /\ k + 1 # 1 /\ (k + 1) - 1 = k
    OBVIOUS
  <2> QED
    BY <1>4, <2>1
<1> QED
  BY <1>5, <1>6 DEF G

LEMMA MergeIs ==
  ASSUME NEW preds, Len(preds) \in Nat \ {0}, preds # <<>>
  PROVE  \E f : /\ Merge(preds) = f[Len(preds)]
                /\ f[1] = exits[preds[1]]
                /\ \A i \in 2 .. Len(preds) : f[i] = Join(f[i - 1], exits[preds[i]])
<1> DEFINE n == Len(preds)
           G(s, i) == Join(s, exits[preds[i]])
           Solves(f, m) ==
             f = [i \in 1 .. m |-> IF i = 1 THEN exits[preds[1]] ELSE G(f[i - 1], i)]
           Bad == {m \in 1 .. n : ~\E f : Solves(f, m)}
<1> HIDE DEF G
<1>1. Bad = {}
  <2> SUFFICES ASSUME Bad # {} PROVE FALSE
    OBVIOUS
  <2>1. Bad \in SUBSET Nat
    OBVIOUS
  <2>2. PICK m \in Bad : \A j \in Bad : m <= j
    BY <2>1, Least
  <2>3. m \in 1 .. n /\ ~\E f : Solves(f, m)
    BY <2>2
  <2>4. CASE m = 1
    <3> DEFINE g == [i \in 1 .. 1 |-> exits[preds[1]]]
    <3>1. Solves(g, 1)
      OBVIOUS
    <3> QED
      BY <2>3, <2>4, <3>1
  <2>5. CASE m # 1
    <3>1. m - 1 \in 1 .. n /\ m - 1 \notin Bad
      <4>1. m - 1 \in 1 .. n /\ ~(m <= m - 1)
        BY <2>3, <2>5
      <4>2. m - 1 \notin Bad
        BY <2>2, <4>1, Zenon
      <4> QED
        BY <4>1, <4>2
    <3>2. PICK f : Solves(f, m - 1)
      BY <3>1
    <3> DEFINE g == [i \in 1 .. m |-> IF i = m THEN G(f[m - 1], m) ELSE f[i]]
    <3>3. ASSUME NEW i \in 1 .. m
          PROVE  g[i] = IF i = 1 THEN exits[preds[1]] ELSE G(g[i - 1], i)
      <4>1. CASE i = m
        <5>1. m - 1 \in 1 .. m /\ m - 1 # m
          BY <2>3, <2>5
        <5>2. g[m - 1] = f[m - 1]
          BY <5>1
        <5> QED
          BY <2>5, <4>1, <5>2
      <4>2. CASE i # m
        <5>1. i \in 1 .. m - 1
          BY <2>3, <4>2
        <5>2. g[i] = f[i] /\ f[i] = IF i = 1 THEN exits[preds[1]] ELSE G(f[i - 1], i)
          BY <3>2, <4>2, <5>1
        <5>3. CASE i = 1
          BY <5>2, <5>3
        <5>4. CASE i # 1
          <6>1. i - 1 \in 1 .. m /\ i - 1 # m
            BY <5>1, <5>4, <2>3
          <6>2. g[i - 1] = f[i - 1]
            BY <6>1
          <6> QED
            BY <5>2, <5>4, <6>2
        <5> QED
          BY <5>3, <5>4
      <4> QED
        BY <4>1, <4>2
    <3>4. Solves(g, m)
      <4> DEFINE h == [i \in 1 .. m |-> IF i = 1 THEN exits[preds[1]] ELSE G(g[i - 1], i)]
      <4> HIDE DEF g
      <4>1. \A i \in 1 .. m : g[i] = h[i]
        BY <3>3
      <4>2. g = [i \in 1 .. m |-> g[i]]
        BY DEF g
      <4>3. g = h
        BY <4>1, <4>2
      <4> QED
        BY <4>3
    <3> QED
      BY <2>3, <3>4
  <2> QED
    BY <2>4, <2>5
<1>2. \E f : Solves(f, n)
  BY <1>1
<1> DEFINE r == CHOOSE f : Solves(f, n)
<1>3. Solves(r, n)
  BY <1>2, Zenon
<1>4. Merge(preds) = r[n]
  BY Zenon DEF Merge, G
<1> HIDE DEF r
<1>5. r[1] = exits[preds[1]]
  BY <1>3
<1>6. ASSUME NEW i \in 2 .. n PROVE r[i] = G(r[i - 1], i)
  <2>1. i \in 1 .. n /\ i # 1
    OBVIOUS
  <2> QED
    BY <1>3, <2>1
<1> QED
  BY <1>4, <1>5, <1>6 DEF G

\* So the merged state says no more than any predecessor's exit.
LEMMA MergeWeaker ==
  ASSUME NEW preds, Len(preds) \in Nat \ {0}, preds # <<>>
  PROVE  \A i \in 1 .. Len(preds) : Weaker(Merge(preds), exits[preds[i]])
<1> DEFINE n == Len(preds)
<1>1. PICK f : /\ Merge(preds) = f[n]
               /\ f[1] = exits[preds[1]]
               /\ \A i \in 2 .. n : f[i] = Join(f[i - 1], exits[preds[i]])
  BY MergeIs
<1> DEFINE Bad == {m \in 1 .. n : \E i \in 1 .. m : ~Weaker(f[m], exits[preds[i]])}
<1>2. Bad = {}
  <2> SUFFICES ASSUME Bad # {} PROVE FALSE
    OBVIOUS
  <2>1. Bad \in SUBSET Nat
    OBVIOUS
  <2>2. PICK m \in Bad : \A j \in Bad : m <= j
    BY <2>1, Least
  <2>3. PICK i \in 1 .. m : ~Weaker(f[m], exits[preds[i]])
    BY <2>2
  <2>4. CASE m = 1
    <3>1. f[m] = exits[preds[i]]
      BY <1>1, <2>3, <2>4
    <3>2. Weaker(f[m], f[m])
      BY DEF Weaker
    <3> QED
      BY <2>3, <3>1, <3>2
  <2>5. CASE m # 1
    <3>1. m - 1 \in 1 .. n /\ m - 1 \notin Bad /\ m \in 2 .. n
      BY <2>2, <2>5
    <3>2. f[m] = Join(f[m - 1], exits[preds[m]])
      BY <1>1, <3>1
    <3>3. Weaker(f[m], f[m - 1]) /\ Weaker(f[m], exits[preds[m]])
      BY <3>2, JoinWeaker
    <3>4. CASE i = m
      BY <2>3, <3>3, <3>4
    <3>5. CASE i # m
      <4>1. i \in 1 .. m - 1
        BY <2>2, <3>5
      <4>2. Weaker(f[m - 1], exits[preds[i]])
        BY <3>1, <4>1
      <4> QED
        BY <2>3, <3>3, <4>2, WeakerStill
    <3> QED
      BY <3>4, <3>5
  <2> QED
    BY <2>4, <2>5
<1>3. n \in 1 .. n
  OBVIOUS
<1> QED
  BY <1>1, <1>2, <1>3

\* A listing, in the order of the blocks or any other, is complete.
LEMMA InOrder ==
  ASSUME NEW S
  PROVE  Ascending(S) \subseteq Listings(S)
BY DEF Ascending, Listings

LEMMA Listing ==
  ASSUME NEW S, NEW order \in Listings(S), IsFiniteSet(S)
  PROVE  /\ order \in Seq(S) /\ ToSet(order) = S
         /\ \A x \in S : \E i \in 1 .. Len(order) : order[i] = x
<1>1. Cardinality(S) \in Nat
  BY FS_CardinalityType
<1>2. order \in [1 .. Cardinality(S) -> S] /\ Range(order) = S
  BY DEF Listings
<1>3. order \in Seq(S) /\ Len(order) = Cardinality(S)
  BY <1>1, <1>2
<1>4. DOMAIN order = 1 .. Len(order)
  BY <1>2, <1>3
<1>5. Range(order) = {order[i] : i \in DOMAIN order}
  BY DEF Range
<1>6. ToSet(order) = {order[i] : i \in DOMAIN order}
  BY DEF ToSet
<1>7. ASSUME NEW x \in S PROVE \E i \in 1 .. Len(order) : order[i] = x
  BY <1>2, <1>4, <1>5, Zenon
<1> QED
  BY <1>2, <1>3, <1>5, <1>6, <1>7

\* The state a block is entered with says no more than the exit of any
\* predecessor, and knows only locations of the program.
LEMMA EntryWeaker ==
  ASSUME NEW b \in Blocks, NEW preds \in Ascending(Preds(b)), \A p \in Blocks : Keyed(exits[p])
  PROVE  /\ Keyed(EntryState(b, preds))
         /\ b = 0 => DOMAIN EntryState(b, preds).values = {}
         /\ b # 0 => \A p \in Preds(b) : Weaker(EntryState(b, preds), exits[p])
<1>1. CASE b = 0
  BY <1>1, EmptyKnows DEF EntryState
<1>2. CASE b # 0
  <2>1. EntryState(b, preds) = Merge(preds)
    BY <1>2 DEF EntryState
  <2>2. Preds(b) \subseteq Blocks
    BY DEF Preds
  <2>3. IsFiniteSet(Preds(b))
    <3>1. IsFiniteSet(Blocks)
      BY FS_Interval, ReachingStoresAssumption DEF Blocks
    <3> QED
      BY <2>2, <3>1, FS_Subset
  <2>4. /\ preds \in Seq(Preds(b))
        /\ \A p \in Preds(b) : \E i \in 1 .. Len(preds) : preds[i] = p
    BY <2>3, InOrder, Listing
  <2>5. CASE preds = <<>>
    <3>1. Preds(b) = {}
      BY <2>4, <2>5
    <3>2. Merge(preds) = Empty("unmodeled_memory")
      BY <2>5 DEF Merge
    <3> QED
      BY <1>2, <2>1, <3>1, <3>2, EmptyKnows
  <2>6. CASE preds # <<>>
    <3>1. Len(preds) \in Nat \ {0}
      BY <2>4, <2>6
    <3>2. \A i \in 1 .. Len(preds) : Weaker(Merge(preds), exits[preds[i]])
      BY <2>6, <3>1, MergeWeaker
    <3>3. \A p \in Preds(b) : Weaker(Merge(preds), exits[p])
      BY <2>4, <3>2
    <3>4. preds[1] \in Blocks /\ 1 \in 1 .. Len(preds)
      BY <2>2, <2>4, <3>1
    <3>5. Keyed(Merge(preds))
      BY <3>2, <3>4, WeakerKeyed
    <3> QED
      BY <1>2, <2>1, <3>3, <3>5
  <2> QED
    BY <2>5, <2>6
<1> QED
  BY <1>1, <1>2

---------------------------------------------------------------------------
(* One statement                                                           *)

\* State::store keeps the stores of the other locations only when they cannot
\* overlap.
LEMMA StoreKnows ==
  ASSUME NEW s, NEW loc, NEW id, loc # None
  PROVE  LET v == StoreInto(s, loc, id).values IN
         /\ loc \in DOMAIN v /\ v[loc] = {id}
         /\ \A key \in DOMAIN v \ {loc} :
              key \in DOMAIN s.values /\ ~MayOverlap(key, loc) /\ v[key] = s.values[key]
<1> DEFINE kept == {key \in DOMAIN s.values : ~MayOverlap(key, loc)}
           full == Cardinality(kept) >= MaxLocations
           old == IF full THEN <<>> ELSE Retain(s.values, kept)
           v == [key \in DOMAIN old \cup {loc} |-> IF key = loc THEN {id} ELSE old[key]]
<1>1. StoreInto(s, loc, id).values = v
  BY DEF StoreInto
<1>2. ASSUME NEW key \in DOMAIN old
      PROVE  key \in DOMAIN s.values /\ ~MayOverlap(key, loc) /\ old[key] = s.values[key]
  <2>1. CASE full
    <3>1. DOMAIN old = {}
      BY <2>1
    <3> QED
      BY <3>1
  <2>2. CASE ~full
    <3>1. old = [k \in kept |-> s.values[k]]
      BY <2>2 DEF Retain
    <3>2. key \in kept /\ old[key] = s.values[key]
      BY <3>1
    <3> QED
      BY <3>2
  <2> QED
    BY <2>1, <2>2
<1> HIDE DEF old
<1>3. loc \in DOMAIN v /\ v[loc] = {id}
  OBVIOUS
<1>4. ASSUME NEW key \in DOMAIN v \ {loc}
      PROVE  key \in DOMAIN s.values /\ ~MayOverlap(key, loc) /\ v[key] = s.values[key]
  <2>1. key \in DOMAIN old /\ v[key] = old[key]
    OBVIOUS
  <2> QED
    BY <1>2, <2>1
<1> HIDE DEF v
<1> QED
  BY <1>1, <1>3, <1>4

LEMMA StepKeyed ==
  ASSUME NEW s, NEW stmt \in Statements, NEW id, Keyed(s)
  PROVE  Keyed(StepState(s, stmt, id))
<1>1. stmt.loc \in Locations \cup {None}
  BY DEF Statements
<1>2. CASE stmt.op = "store" /\ stmt.loc # None
  <2> DEFINE v == StoreInto(s, stmt.loc, id).values
  <2>1. DOMAIN v \subseteq DOMAIN s.values \cup {stmt.loc}
    BY <1>2, StoreKnows
  <2>2. StepState(s, stmt, id) = StoreInto(s, stmt.loc, id)
    BY <1>2 DEF StepState
  <2> HIDE DEF v
  <2>3. IsFiniteSet(DOMAIN s.values \cup {stmt.loc})
    BY FS_AddElement DEF Keyed
  <2>4. IsFiniteSet(DOMAIN v)
    BY <2>1, <2>3, FS_Subset
  <2>5. DOMAIN v \in SUBSET Locations
    BY <1>1, <1>2, <2>1 DEF Keyed
  <2> QED
    BY <2>2, <2>4, <2>5 DEF Keyed, v
<1>3. CASE stmt.op # "store" /\ stmt.op \notin {"fstore", "call"}
  <2>1. StepState(s, stmt, id) = s
    BY <1>3 DEF StepState
  <2> QED
    BY <2>1
<1>4. CASE stmt.op \in {"fstore", "call"} \/ (stmt.op = "store" /\ stmt.loc = None)
  <2>1. \E why : StepState(s, stmt, id) = Empty(why)
    BY <1>4 DEF StepState, StoreInto
  <2> QED
    BY <2>1, EmptyKnows
<1> QED
  BY <1>2, <1>3, <1>4

\* Locations that MayOverlap keeps apart share no byte, wherever the frames lie.
LEMMA Apart ==
  ASSUME NEW k \in Locations, NEW l \in Locations, ~MayOverlap(k, l), frame \in Frames
  PROVE  /\ Touched(k) \subseteq Bytes /\ Touched(l) \subseteq Bytes
         /\ Touched(k) \cap Touched(l) = {}
<1>1. /\ k \in [base : Bases, at : Nat, size : Nat \ {0}]
      /\ l \in [base : Bases, at : Nat, size : Nat \ {0}]
  BY DEF Locations
<1>2. k.at \in Nat /\ k.size \in Nat /\ l.at \in Nat /\ l.size \in Nat
  BY <1>1
<1>3. frame[k.base] \in Nat
  BY <1>1, ReachingStoresAssumption
<1>4. k.base = l.base /\ ~(k.at < l.at + l.size /\ l.at < k.at + k.size)
  BY DEF MayOverlap, Overlaps
<1> DEFINE shift == frame[k.base]
<1>5. shift \in Nat
  BY <1>3
<1>6. /\ Touched(k) = shift + k.at .. shift + k.at + k.size - 1
      /\ Touched(l) = shift + l.at .. shift + l.at + l.size - 1
  BY <1>4 DEF Touched
<1>7. Touched(k) \subseteq Bytes /\ Touched(l) \subseteq Bytes
  BY DEF Touched, Locations
<1> HIDE DEF shift
<1>8. Touched(k) \cap Touched(l) = {}
  <2> SUFFICES ASSUME NEW a \in Touched(k), a \in Touched(l) PROVE FALSE
    OBVIOUS
  <2>1. /\ a \in Int /\ shift + k.at <= a /\ a <= shift + k.at + k.size - 1
        /\ shift + l.at <= a /\ a <= shift + l.at + l.size - 1
    BY <1>2, <1>5, <1>6
  <2> QED
    BY <1>2, <1>4, <1>5, <2>1
<1> QED
  BY <1>7, <1>8

LEMMA Within ==
  ASSUME NEW k \in Locations, frame \in Frames
  PROVE  Touched(k) \subseteq Bytes
  BY DEF Touched, Locations

\* A statement that runs leaves memory as State::step leaves the state.
LEMMA StepHolds ==
  ASSUME NEW s, NEW stmt \in Statements, NEW id, NEW mem, NEW written \in Writes(stmt),
         Keyed(s), Holds(s, bytes), frame \in Frames,
         mem = Write(written, IF stmt.op = "store" THEN id ELSE Nobody)
  PROVE  Holds(StepState(s, stmt, id), mem)
<1>1. stmt.loc \in Locations \cup {None}
  BY DEF Statements
<1>2. CASE stmt.op = "store" /\ stmt.loc # None
  <2> DEFINE v == StoreInto(s, stmt.loc, id).values
  <2>1. /\ stmt.loc \in DOMAIN v /\ v[stmt.loc] = {id}
        /\ \A key \in DOMAIN v \ {stmt.loc} :
             key \in DOMAIN s.values /\ ~MayOverlap(key, stmt.loc) /\ v[key] = s.values[key]
    BY <1>2, StoreKnows
  <2>2. StepState(s, stmt, id) = StoreInto(s, stmt.loc, id)
    BY <1>2 DEF StepState
  <2>3. StepState(s, stmt, id).values = v
    BY <2>2
  <2> HIDE DEF v
  <2>4. stmt.loc \in Locations
    BY <1>1, <1>2
  <2>5. written = Touched(stmt.loc)
    BY <1>2 DEF Writes
  <2>6. \A a \in Bytes : mem[a] = IF a \in Touched(stmt.loc) THEN id ELSE bytes[a]
    BY <1>2, <2>5 DEF Write
  <2>7. ASSUME NEW key \in DOMAIN v
        PROVE  \E w \in v[key] : \A a \in Touched(key) : mem[a] = w
    <3>1. CASE key = stmt.loc
      <4>1. Touched(key) \subseteq Bytes
        BY <2>4, <3>1, Within
      <4>2. \A a \in Touched(key) : mem[a] = id
        BY <2>6, <3>1, <4>1
      <4> QED
        BY <2>1, <3>1, <4>2
    <3>2. CASE key # stmt.loc
      <4>1. key \in DOMAIN s.values /\ ~MayOverlap(key, stmt.loc) /\ v[key] = s.values[key]
        BY <2>1, <3>2
      <4>2. key \in Locations
        BY <4>1 DEF Keyed
      <4>3. Touched(key) \subseteq Bytes /\ Touched(key) \cap Touched(stmt.loc) = {}
        BY <2>4, <4>1, <4>2, Apart
      <4>4. PICK w \in s.values[key] : \A a \in Touched(key) : bytes[a] = w
        BY <4>1 DEF Holds
      <4>5. \A a \in Touched(key) : mem[a] = w
        BY <2>6, <4>3, <4>4
      <4> QED
        BY <4>1, <4>4, <4>5
    <3> QED
      BY <3>1, <3>2
  <2> QED
    BY <2>3, <2>7 DEF Holds
<1>3. CASE stmt.op # "store" /\ stmt.op \notin {"fstore", "call"}
  <2>1. StepState(s, stmt, id) = s
    BY <1>3 DEF StepState
  <2>2. written = {}
    BY <1>3 DEF Writes
  <2>3. \A a \in Bytes : mem[a] = bytes[a]
    BY <2>2 DEF Write
  <2>4. ASSUME NEW key \in DOMAIN s.values
        PROVE  \E w \in s.values[key] : \A a \in Touched(key) : mem[a] = w
    <3>1. Touched(key) \subseteq Bytes
      BY Within DEF Keyed
    <3>2. PICK w \in s.values[key] : \A a \in Touched(key) : bytes[a] = w
      BY DEF Holds
    <3>3. \A a \in Touched(key) : mem[a] = w
      BY <2>3, <3>1, <3>2
    <3> QED
      BY <3>2, <3>3
  <2> QED
    BY <2>1, <2>4 DEF Holds
<1>4. CASE stmt.op \in {"fstore", "call"} \/ (stmt.op = "store" /\ stmt.loc = None)
  <2>1. \E why : StepState(s, stmt, id) = Empty(why)
    BY <1>4 DEF StepState, StoreInto
  <2>2. DOMAIN StepState(s, stmt, id).values = {}
    BY <2>1, EmptyKnows
  <2> QED
    BY <2>2 DEF Holds
<1> QED
  BY <1>2, <1>3, <1>4

\* What a store leaves of the other locations, and how many it makes.
LEMMA StepKeeps ==
  ASSUME NEW s, NEW stmt \in Statements, NEW id, NEW loc \in DOMAIN s.values, Keyed(s),
         stmt.op \notin {"fstore", "call"},
         stmt.op = "store" => /\ stmt.loc # None /\ ~MayOverlap(stmt.loc, loc)
                              /\ Cardinality(DOMAIN s.values) < MaxLocations
  PROVE  /\ loc \in DOMAIN StepState(s, stmt, id).values
         /\ StepState(s, stmt, id).values[loc] = s.values[loc]
<1>1. CASE stmt.op # "store"
  BY <1>1 DEF StepState
<1>2. CASE stmt.op = "store"
  <2> DEFINE kept == {key \in DOMAIN s.values : ~MayOverlap(key, stmt.loc)}
             v == [key \in DOMAIN Retain(s.values, kept) \cup {stmt.loc} |->
                     IF key = stmt.loc THEN {id} ELSE Retain(s.values, kept)[key]]
  <2>1. stmt.loc \in Locations /\ loc \in Locations
    BY <1>2 DEF Statements, Keyed
  <2>2. loc # stmt.loc
    <3>1. stmt.loc.at \in Nat /\ stmt.loc.size \in Nat \ {0}
      BY <2>1 DEF Locations
    <3>2. MayOverlap(stmt.loc, stmt.loc)
      BY <3>1 DEF MayOverlap, Overlaps
    <3> QED
      BY <1>2, <3>2
  <2>3. loc \in kept
    BY <1>2 DEF MayOverlap, Overlaps
  <2>4. ~(Cardinality(kept) >= MaxLocations)
    <3>1. kept \in SUBSET DOMAIN s.values
      OBVIOUS
    <3> HIDE DEF kept
    <3>2. /\ Cardinality(kept) <= Cardinality(DOMAIN s.values) /\ IsFiniteSet(kept)
          /\ Cardinality(kept) \in Nat /\ Cardinality(DOMAIN s.values) \in Nat
      BY <3>1, FS_Subset, FS_CardinalityType DEF Keyed
    <3> QED
      BY <1>2, <3>2, ReachingStoresAssumption
  <2>5. StepState(s, stmt, id).values = v
    <3>1. StepState(s, stmt, id) = StoreInto(s, stmt.loc, id)
      BY <1>2 DEF StepState
    <3>2. StoreInto(s, stmt.loc, id).values = v
      BY <1>2, <2>4 DEF StoreInto
    <3> QED
      BY <3>1, <3>2
  <2>6. Retain(s.values, kept) = [key \in kept |-> s.values[key]]
    BY DEF Retain
  <2> HIDE DEF kept
  <2>7. loc \in DOMAIN v /\ v[loc] = s.values[loc]
    BY <2>2, <2>3, <2>6
  <2> QED
    BY <2>5, <2>7
<1> QED
  BY <1>1, <1>2

LEMMA StepFits ==
  ASSUME NEW s, NEW stmt \in Statements, NEW id, Keyed(s)
  PROVE  Cardinality(DOMAIN StepState(s, stmt, id).values)
           <= Cardinality(DOMAIN s.values) + IF stmt.op = "store" THEN 1 ELSE 0
<1> DEFINE t == StepState(s, stmt, id)
<1>1. Keyed(t)
  BY StepKeyed
<1>2. /\ IsFiniteSet(DOMAIN s.values) /\ Cardinality(DOMAIN s.values) \in Nat
      /\ IsFiniteSet(DOMAIN t.values) /\ Cardinality(DOMAIN t.values) \in Nat
  BY <1>1, FS_CardinalityType DEF Keyed
<1>3. CASE stmt.op = "store" /\ stmt.loc # None
  <2>1. t = StoreInto(s, stmt.loc, id)
    BY <1>3 DEF StepState
  <2> DEFINE room == DOMAIN s.values \cup {stmt.loc}
  <2>2. DOMAIN t.values \subseteq room
    BY <1>3, <2>1, StoreKnows
  <2>3. IsFiniteSet(room) /\ Cardinality(room) <= Cardinality(DOMAIN s.values) + 1
    <3>1. /\ IsFiniteSet(room)
          /\ \/ Cardinality(room) = Cardinality(DOMAIN s.values)
             \/ Cardinality(room) = Cardinality(DOMAIN s.values) + 1
      BY <1>2, FS_AddElement, Zenon
    <3> QED
      BY <1>2, <3>1
  <2> HIDE DEF t, room
  <2>4. Cardinality(DOMAIN t.values) <= Cardinality(room) /\ Cardinality(room) \in Nat
    BY <2>2, <2>3, FS_Subset, FS_CardinalityType
  <2>5. Cardinality(DOMAIN t.values) <= Cardinality(DOMAIN s.values) + 1
    BY <1>2, <2>3, <2>4
  <2> QED
    BY <1>3, <2>5 DEF t
<1>4. CASE stmt.op # "store" /\ stmt.op \notin {"fstore", "call"}
  <2>1. t = s
    BY <1>4 DEF StepState
  <2> HIDE DEF t
  <2>2. Cardinality(DOMAIN t.values) <= Cardinality(DOMAIN s.values) + 0
    BY <1>2, <2>1
  <2> QED
    BY <1>4, <2>2 DEF t
<1>5. CASE stmt.op \in {"fstore", "call"} \/ (stmt.op = "store" /\ stmt.loc = None)
  <2>1. \E why : t = Empty(why)
    BY <1>5 DEF StepState, StoreInto
  <2>2. DOMAIN t.values = {}
    BY <2>1, EmptyKnows
  <2>3. Cardinality(DOMAIN t.values) = 0
    BY <2>2, FS_EmptySet
  <2> HIDE DEF t
  <2>4. \A d \in {0, 1} : Cardinality(DOMAIN t.values) <= Cardinality(DOMAIN s.values) + d
    BY <1>2, <2>3
  <2> QED
    BY <2>4 DEF t
<1> QED
  BY <1>3, <1>4, <1>5

---------------------------------------------------------------------------
(* A walk through a block                                                  *)

LEMMA Blocked ==
  ASSUME prog \in Programs, NEW b \in Blocks
  PROVE  /\ prog.body[b] \in Seq(Statements) /\ Len(prog.body[b]) \in Nat
         /\ DOMAIN prog.body[b] = 1 .. Len(prog.body[b])
         /\ \A k \in 1 .. Len(prog.body[b]) : prog.body[b][k] \in Statements
         /\ prog.succ[b] \subseteq Blocks /\ prog.calls[b] \in BOOLEAN
<1>1. /\ prog.body \in [Blocks -> Seq(Statements)]
      /\ prog.succ \in [Blocks -> SUBSET Blocks]
      /\ prog.calls \in [Blocks -> BOOLEAN]
  BY ReachingStoresAssumption
<1>2. prog.body[b] \in Seq(Statements)
  BY <1>1
<1>3. prog.succ[b] \subseteq Blocks /\ prog.calls[b] \in BOOLEAN
  BY <1>1
<1> QED
  BY <1>2, <1>3

LEMMA WalkKeyed ==
  ASSUME prog \in Programs, NEW b \in Blocks, NEW entry, Keyed(entry)
  PROVE  /\ \A k \in 1 .. Len(prog.body[b]) + 1 : Keyed(Walk(b, entry)[k])
         /\ Keyed(Exit(b, entry))
<1> DEFINE n == Len(prog.body[b])
           W(k) == Walk(b, entry)[k]
           Bad == {k \in 1 .. n + 1 : ~Keyed(W(k))}
<1>1. n \in Nat /\ \A k \in 1 .. n : prog.body[b][k] \in Statements
  BY Blocked
<1>2. W(1) = entry /\ \A k \in 1 .. n : W(k + 1) = StepState(W(k), prog.body[b][k], <<b, k>>)
  BY <1>1, WalkIs
<1> HIDE DEF n, W
<1>3. Bad = {}
  <2> SUFFICES ASSUME Bad # {} PROVE FALSE
    OBVIOUS
  <2>1. Bad \in SUBSET Nat
    BY <1>1
  <2>2. PICK m \in Bad : \A j \in Bad : m <= j
    BY <2>1, Least
  <2>3. m # 1 /\ m \in 1 .. n + 1
    BY <1>2, <2>2
  <2> DEFINE l == m - 1
  <2>4. l \in 1 .. n /\ l + 1 = m /\ l \in 1 .. n + 1 /\ ~(m <= l)
    BY <1>1, <2>3
  <2>5. l \notin Bad
    BY <2>2, <2>4, Zenon
  <2> HIDE DEF l
  <2>6. Keyed(W(l))
    BY <2>4, <2>5
  <2>7. W(l + 1) = StepState(W(l), prog.body[b][l], <<b, l>>) /\ prog.body[b][l] \in Statements
    BY <1>1, <1>2, <2>4
  <2>8. Keyed(W(l + 1))
    BY <2>6, <2>7, StepKeyed
  <2> QED
    BY <2>2, <2>4, <2>8
<1>4. \A k \in 1 .. n + 1 : Keyed(W(k))
  BY <1>3
<1>5. Keyed(Exit(b, entry))
  <2>1. n + 1 \in 1 .. n + 1
    BY <1>1
  <2>2. Keyed(W(n + 1))
    BY <1>4, <2>1
  <2> QED
    BY <2>2, EmptyKnows DEF Exit, n, W
<1> QED
  BY <1>4, <1>5 DEF n, W

\* Every store adds at most one location.
LEMMA WalkFits ==
  ASSUME prog \in Programs, NEW b \in Blocks, NEW entry, Keyed(entry)
  PROVE  /\ \A k \in 1 .. Len(prog.body[b]) + 1 :
              Cardinality(DOMAIN Walk(b, entry)[k].values)
                <= Cardinality(DOMAIN entry.values) + StoresBefore(b, k)
         /\ \A k \in 1 .. Len(prog.body[b]) + 1 : StoresBefore(b, k) \in Nat
         /\ \A k \in 1 .. Len(prog.body[b]) :
              StoresBefore(b, k + 1)
                = StoresBefore(b, k) + IF prog.body[b][k].op = "store" THEN 1 ELSE 0
<1> DEFINE n == Len(prog.body[b])
           W(k) == Walk(b, entry)[k]
           size(k) == Cardinality(DOMAIN W(k).values)
           T(k) == {i \in 1 .. k - 1 : prog.body[b][i].op = "store"}
           one(k) == IF prog.body[b][k].op = "store" THEN 1 ELSE 0
           Bad == {k \in 1 .. n + 1 : ~(size(k) <= Cardinality(DOMAIN entry.values)
                                                     + StoresBefore(b, k))}
<1>1. n \in Nat /\ \A k \in 1 .. n : prog.body[b][k] \in Statements
  BY Blocked
<1>2. W(1) = entry /\ \A k \in 1 .. n : W(k + 1) = StepState(W(k), prog.body[b][k], <<b, k>>)
  BY <1>1, WalkIs
<1>3. \A k \in 1 .. n + 1 : Keyed(W(k))
  BY WalkKeyed
<1>4. \A k \in 1 .. n + 1 : size(k) \in Nat
  <2>1. \A k \in 1 .. n + 1 : IsFiniteSet(DOMAIN W(k).values)
    BY <1>3 DEF Keyed
  <2> QED
    BY <2>1, FS_CardinalityType
<1>5. \A k \in Nat : IsFiniteSet(T(k)) /\ Cardinality(T(k)) \in Nat
  <2> SUFFICES ASSUME NEW k \in Nat PROVE IsFiniteSet(T(k)) /\ Cardinality(T(k)) \in Nat
    OBVIOUS
  <2>1. IsFiniteSet(1 .. k - 1)
    BY FS_Interval
  <2>2. T(k) \in SUBSET (1 .. k - 1)
    OBVIOUS
  <2> HIDE DEF T
  <2> QED
    BY <2>1, <2>2, FS_Subset, FS_CardinalityType
<1>6. \A k : StoresBefore(b, k) = Cardinality(T(k))
  BY DEF StoresBefore
<1>7. \A k \in 1 .. n : Cardinality(T(k + 1)) = Cardinality(T(k)) + one(k)
  <2> SUFFICES ASSUME NEW k \in 1 .. n
               PROVE  Cardinality(T(k + 1)) = Cardinality(T(k)) + one(k)
    OBVIOUS
  <2>1. k \in Nat /\ k \notin T(k) /\ IsFiniteSet(T(k)) /\ Cardinality(T(k)) \in Nat
    BY <1>5
  <2>2. CASE prog.body[b][k].op = "store"
    <3>1. T(k + 1) = T(k) \cup {k}
      BY <2>2
    <3> HIDE DEF T
    <3>2. Cardinality(T(k + 1)) = Cardinality(T(k)) + 1
      BY <2>1, <3>1, FS_AddElement
    <3> QED
      BY <2>2, <3>2
  <2>3. CASE prog.body[b][k].op # "store"
    <3>1. \A i \in 1 .. k : i = k \/ i \in 1 .. k - 1
      OBVIOUS
    <3>2. T(k + 1) = T(k)
      BY <2>3, <3>1
    <3> HIDE DEF T
    <3>3. Cardinality(T(k + 1)) = Cardinality(T(k)) + 0
      BY <2>1, <3>2
    <3> QED
      BY <2>3, <3>3
  <2> QED
    BY <2>2, <2>3
<1>8. size(1) = Cardinality(DOMAIN entry.values) /\ size(1) \in Nat
  <2>1. 1 \in 1 .. n + 1
    BY <1>1
  <2> QED
    BY <1>2, <1>4, <2>1
<1>9. \A k \in 1 .. n : size(k + 1) <= size(k) + one(k)
  <2> SUFFICES ASSUME NEW k \in 1 .. n PROVE size(k + 1) <= size(k) + one(k)
    OBVIOUS
  <2>1. k \in 1 .. n + 1
    BY <1>1
  <2>2. Keyed(W(k)) /\ prog.body[b][k] \in Statements
    BY <1>1, <1>3, <2>1
  <2>3. W(k + 1) = StepState(W(k), prog.body[b][k], <<b, k>>)
    BY <1>2
  <2> HIDE DEF W, n
  <2> QED
    BY <2>2, <2>3, StepFits
<1> DEFINE before(k) == Cardinality(T(k))
<1>10. \A k \in 1 .. n + 1 : before(k) \in Nat
  <2>1. \A k \in 1 .. n + 1 : k \in Nat
    OBVIOUS
  <2> QED
    BY <1>5, <2>1, Zenon
<1>11. \A k \in 1 .. n : before(k + 1) = before(k) + one(k) /\ one(k) \in Nat
  BY <1>7
<1> HIDE DEF W, T, n, size, one, before
<1>12. Bad = {}
  <2> SUFFICES ASSUME Bad # {} PROVE FALSE
    OBVIOUS
  <2>1. Bad \in SUBSET Nat
    BY <1>1
  <2>2. PICK m \in Bad : \A j \in Bad : m <= j
    BY <2>1, Least
  <2>3. m \in 1 .. n + 1 /\ ~(size(m) <= size(1) + before(m))
    BY <1>6, <1>8, <2>2 DEF before
  <2>4. m # 1
    <3>1. CASE m = 1
      BY <1>8, <1>10, <2>3, <3>1
    <3> QED
      BY <3>1
  <2> DEFINE l == m - 1
  <2>5. l \in 1 .. n /\ l + 1 = m /\ l \in 1 .. n + 1 /\ ~(m <= l)
    BY <1>1, <2>3, <2>4
  <2>6. l \notin Bad
    BY <2>2, <2>5, Zenon
  <2> HIDE DEF l
  <2>7. size(l) <= size(1) + before(l)
    BY <1>6, <1>8, <2>5, <2>6 DEF before
  <2>8. /\ size(l) \in Nat /\ size(m) \in Nat /\ before(l) \in Nat /\ before(m) \in Nat
        /\ size(m) <= size(l) + one(l) /\ before(m) = before(l) + one(l) /\ one(l) \in Nat
    BY <1>4, <1>9, <1>10, <1>11, <2>3, <2>5
  <2> QED
    BY <1>8, <2>3, <2>7, <2>8
<1>13. \A k \in 1 .. n + 1 :
         size(k) <= Cardinality(DOMAIN entry.values) + StoresBefore(b, k)
  BY <1>12
<1> QED
  BY <1>6, <1>10, <1>11, <1>13 DEF n, W, size, one, before

Undisturbed(b, j, k, loc, entry) ==
  /\ j < k /\ loc # None /\ prog.body[b][j].op = "store" /\ prog.body[b][j].loc = loc
  /\ \A i \in j + 1 .. k - 1 :
        /\ prog.body[b][i].op \notin {"fstore", "call"}
        /\ prog.body[b][i].op = "store" => /\ prog.body[b][i].loc # None
                                           /\ ~MayOverlap(prog.body[b][i].loc, loc)
  /\ \/ \A i \in j + 1 .. k - 1 : prog.body[b][i].op # "store"
     \/ Cardinality(DOMAIN entry.values) + StoresBefore(b, k) <= MaxLocations

\* A store is still there when only statements that cannot touch it lie between.
LEMMA Followed ==
  ASSUME prog \in Programs, NEW b \in Blocks, NEW entry, Keyed(entry),
         NEW j \in 1 .. Len(prog.body[b]), NEW k \in 1 .. Len(prog.body[b]),
         NEW loc, Undisturbed(b, j, k, loc, entry)
  PROVE  /\ loc \in DOMAIN Walk(b, entry)[k].values
         /\ Walk(b, entry)[k].values[loc] = {<<b, j>>}
<1> DEFINE n == Len(prog.body[b])
           W(i) == Walk(b, entry)[i]
           size(i) == Cardinality(DOMAIN W(i).values)
           before(i) == StoresBefore(b, i)
           given == Cardinality(DOMAIN entry.values)
           Found(s) == loc \in DOMAIN s.values /\ s.values[loc] = {<<b, j>>}
           stmt(i) == prog.body[b][i]
           Bad == {i \in j + 1 .. k : ~Found(W(i))}
<1>1. n \in Nat /\ \A i \in 1 .. n : stmt(i) \in Statements
  BY Blocked
<1>2. \A i \in 1 .. n : W(i + 1) = StepState(W(i), stmt(i), <<b, i>>)
  BY <1>1, WalkIs
<1>3. \A i \in 1 .. n + 1 : Keyed(W(i))
  BY WalkKeyed
<1>4. /\ \A i \in 1 .. n + 1 : size(i) <= given + before(i)
      /\ \A i \in 1 .. n + 1 : before(i) \in Nat
      /\ \A i \in 1 .. n : before(i + 1) = before(i) + IF stmt(i).op = "store" THEN 1 ELSE 0
  BY WalkFits
<1>5. given \in Nat
  BY FS_CardinalityType DEF Keyed
<1>6. \A i \in 1 .. n + 1 : size(i) \in Nat
  <2>1. \A i \in 1 .. n + 1 : IsFiniteSet(DOMAIN W(i).values)
    BY <1>3 DEF Keyed
  <2> QED
    BY <2>1, FS_CardinalityType
<1> USE DEF Undisturbed
<1>7. Found(W(j + 1))
  <2>1. W(j + 1) = StoreInto(W(j), loc, <<b, j>>)
    BY <1>2 DEF StepState
  <2> HIDE DEF W
  <2> QED
    BY <2>1, StoreKnows
<1> HIDE DEF n, W, size, before, given, stmt
<1>8. ASSUME NEW i \in j + 1 .. k - 1, stmt(i).op = "store",
             given + before(k) <= MaxLocations
      PROVE  size(i) < MaxLocations
  <2> DEFINE Short == {m \in i + 1 .. k : ~(before(i) + 1 <= before(m))}
  <2>1. Short = {}
    <3> SUFFICES ASSUME Short # {} PROVE FALSE
      OBVIOUS
    <3>1. Short \in SUBSET Nat
      BY <1>1
    <3>2. PICK m \in Short : \A l \in Short : m <= l
      BY <3>1, Least
    <3> DEFINE l == m - 1
    <3>3. m \in i + 1 .. k /\ l \in 1 .. n /\ i \in 1 .. n /\ l + 1 = m /\ ~(m <= l)
      BY <1>1, <3>2 DEF n
    <3>4. before(i) \in Nat /\ before(l) \in Nat /\ before(m) \in Nat
      <4>1. i \in 1 .. n + 1 /\ l \in 1 .. n + 1 /\ m \in 1 .. n + 1
        BY <1>1, <3>3
      <4> QED
        BY <1>4, <4>1
    <3>5. l \notin Short
      BY <3>2, <3>3, Zenon
    <3> HIDE DEF l
    <3>6. CASE l = i
      <4>1. before(l + 1) = before(l) + 1
        BY <1>4, <1>8, <3>3, <3>6
      <4>2. before(m) = before(i) + 1 /\ before(i) \in Nat
        BY <3>3, <3>6, <3>4, <4>1
      <4> QED
        BY <3>2, <4>2
    <3>7. CASE l # i
      <4>1. l \in i + 1 .. k
        BY <3>3, <3>7
      <4>2. before(i) + 1 <= before(l)
        BY <3>5, <4>1
      <4>3. before(m) = before(l) + 1 \/ before(m) = before(l) + 0
        <5>1. before(l + 1) = before(l) + IF stmt(l).op = "store" THEN 1 ELSE 0
          BY <1>4, <3>3
        <5>2. CASE stmt(l).op = "store"
          BY <3>3, <5>1, <5>2
        <5>3. CASE stmt(l).op # "store"
          BY <3>3, <5>1, <5>3
        <5> QED
          BY <5>2, <5>3
      <4>4. before(l) <= before(m)
        BY <3>4, <4>3
      <4> QED
        BY <3>2, <3>4, <4>2, <4>4
    <3> QED
      BY <3>6, <3>7
  <2>2. k \in i + 1 .. k /\ i \in 1 .. n + 1 /\ k \in 1 .. n + 1
    BY <1>1 DEF n
  <2>3. before(i) + 1 <= before(k)
    BY <2>1, <2>2
  <2>4. /\ size(i) <= given + before(i) /\ size(i) \in Nat /\ before(i) \in Nat
        /\ before(k) \in Nat
    BY <1>4, <1>6, <2>2
  <2> QED
    BY <1>5, <1>8, <2>3, <2>4, ReachingStoresAssumption
<1>9. Bad = {}
  <2> SUFFICES ASSUME Bad # {} PROVE FALSE
    OBVIOUS
  <2>1. Bad \in SUBSET Nat
    OBVIOUS
  <2>2. PICK m \in Bad : \A l \in Bad : m <= l
    BY <2>1, Least
  <2>3. m # j + 1 /\ m \in j + 1 .. k
    BY <1>7, <2>2
  <2> DEFINE l == m - 1
  <2>4. /\ l \in j + 1 .. k - 1 /\ l + 1 = m /\ l \in j + 1 .. k /\ ~(m <= l)
        /\ l \in 1 .. n /\ l \in 1 .. n + 1
    BY <1>1, <2>3 DEF n
  <2>5. l \notin Bad
    BY <2>2, <2>4, Zenon
  <2> HIDE DEF l
  <2>6. Found(W(l))
    BY <2>4, <2>5
  <2>7. stmt(l).op \notin {"fstore", "call"}
    BY <2>4 DEF stmt
  <2>8. stmt(l).op = "store" => /\ stmt(l).loc # None /\ ~MayOverlap(stmt(l).loc, loc)
                                /\ size(l) < MaxLocations
    BY <1>8, <2>4 DEF stmt, given, before
  <2>9. stmt(l) \in Statements /\ Keyed(W(l)) /\ loc \in DOMAIN W(l).values
    BY <1>1, <1>3, <2>4, <2>6
  <2>10. /\ loc \in DOMAIN StepState(W(l), stmt(l), <<b, l>>).values
         /\ StepState(W(l), stmt(l), <<b, l>>).values[loc] = W(l).values[loc]
    BY <2>7, <2>8, <2>9, StepKeeps DEF size
  <2>11. W(m) = StepState(W(l), stmt(l), <<b, l>>)
    BY <1>2, <2>4
  <2>12. Found(W(m))
    BY <2>6, <2>10, <2>11
  <2> QED
    BY <2>2, <2>12
<1>10. k \in j + 1 .. k
  OBVIOUS
<1>11. Found(W(k))
  BY <1>9, <1>10
<1> QED
  BY <1>11 DEF W

---------------------------------------------------------------------------
(* forward() and the execution                                             *)

MTyped ==
  /\ prog \in Programs /\ frame \in Frames
  /\ DOMAIN entries = Blocks /\ DOMAIN exits = Blocks
  /\ \A b \in Blocks : Keyed(entries[b]) /\ Keyed(exits[b])
  /\ mqueue \in Seq(Blocks)

\* A block that is not queued has been computed from the exits there are.
Computed(b) ==
  /\ exits[b] = Exit(b, entries[b])
  /\ b = 0 => DOMAIN entries[b].values = {}
  /\ b # 0 => \A p \in Preds(b) : Weaker(entries[b], exits[p])

\* Along every edge the next block is entered with no more than was left.
Flows ==
  /\ DOMAIN entries[0].values = {}
  /\ \A b \in Blocks : \A c \in prog.succ[b] \ {0} : Weaker(entries[c], Exit(b, entries[b]))

Answered ==
  claims = [b \in Blocks |->
              [k \in DOMAIN prog.body[b] |->
                 IF IsLoad(prog.body[b][k])
                 THEN Claim(Walk(b, entries[b])[k], prog.body[b][k])
                 ELSE [stores |-> {}, boundary |-> "none"]]]

\* Memory is as the state before the next statement says.
Running ==
  \E b \in Blocks : \E k \in 1 .. Len(prog.body[b]) + 1 :
     pc = <<b, k>> /\ Holds(Walk(b, entries[b])[k], bytes)

MInv ==
  /\ MTyped
  /\ mphase \in {"iterate", "apply", "execute"}
  /\ mphase = "iterate" => \A b \in Blocks : b \in ToSet(mqueue) \/ Computed(b)
  /\ mphase # "iterate" => Flows
  /\ mphase # "execute" => pc = <<0, 1>>
  /\ mphase = "execute" => Answered /\ Running

LEMMA BlockZero == 0 \in Blocks
BY ReachingStoresAssumption DEF Blocks

LEMMA MInitial == MInit => MInv
<1> SUFFICES ASSUME MInit PROVE MInv
  OBVIOUS
<1>1. \A b \in Blocks : entries[b] = Empty("unmodeled_memory") /\ exits[b] = entries[b]
  BY DEF MInit
<1>2. \A b \in Blocks : Keyed(entries[b]) /\ Keyed(exits[b])
  BY <1>1, EmptyKnows
<1>3. mqueue \in Seq(Blocks) /\ DOMAIN mqueue = 1 .. NumBlocks
  <2>1. mqueue \in [1 .. NumBlocks -> Blocks]
    BY ReachingStoresAssumption DEF MInit, Blocks
  <2> QED
    BY <2>1, ReachingStoresAssumption
<1>4. ASSUME NEW b \in Blocks PROVE b \in ToSet(mqueue)
  <2>1. b + 1 \in 1 .. NumBlocks /\ (b + 1) - 1 = b
    BY ReachingStoresAssumption DEF Blocks
  <2>2. mqueue[b + 1] = b
    BY <2>1 DEF MInit
  <2> QED
    BY <1>3, <2>1, <2>2 DEF ToSet
<1> QED
  BY <1>2, <1>3, <1>4 DEF MInit, MInv, MTyped

\* What a walk computes depends on the function alone.
LEMMA SameProgram ==
  ASSUME prog' = prog
  PROVE  /\ \A b, e : Walk(b, e)' = Walk(b, e)
         /\ \A b, e : Exit(b, e)' = Exit(b, e)
         /\ \A b : Preds(b)' = Preds(b)
<1> DEFINE Of(p, b, e) ==
             CHOOSE f : f = [k \in 1 .. Len(p.body[b]) + 1 |->
                               IF k = 1 THEN e
                               ELSE StepState(f[k - 1], p.body[b][k - 1], <<b, k - 1>>)]
<1>1. \A b, e : Walk(b, e)' = Walk(b, e)
  <2>1. \A b, e : Walk(b, e) = Of(prog, b, e)
    BY Zenon DEF Walk
  <2>2. \A b, e : Walk(b, e)' = Of(prog', b, e)
    BY Zenon DEF Walk
  <2> HIDE DEF Of
  <2> QED
    BY <2>1, <2>2
<1>2. \A b, e : Exit(b, e)' = Exit(b, e)
  BY <1>1, Zenon DEF Exit
<1> QED
  BY <1>1, <1>2 DEF Preds

LEMMA VisitKeeps == MInv /\ VisitBlock => MInv'
<1> SUFFICES ASSUME MInv, VisitBlock PROVE MInv'
  OBVIOUS
<1> DEFINE b == Head(mqueue)
           rest == Tail(mqueue)
<1>1. PICK preds \in Ascending(Preds(b)), more \in Listings(prog.succ[b] \ ToSet(rest)) :
        \E entry \in {EntryState(b, preds)} : \E exit \in {Exit(b, entry)} :
           /\ entries' = [entries EXCEPT ![b] = entry]
           /\ exits' = [exits EXCEPT ![b] = exit]
           /\ mqueue' = IF exit = exits[b] THEN rest ELSE rest \o more
  BY DEF VisitBlock
<1> DEFINE entry == EntryState(b, preds)
           exit == Exit(b, entry)
<1>2. /\ entries' = [entries EXCEPT ![b] = entry]
      /\ exits' = [exits EXCEPT ![b] = exit]
      /\ mqueue' = IF exit = exits[b] THEN rest ELSE rest \o more
  BY <1>1
<1>3. /\ mphase = "iterate" /\ mphase' = "iterate" /\ mqueue # <<>> /\ prog' = prog
      /\ frame' = frame /\ pc' = pc
  BY DEF VisitBlock
<1>4. MTyped /\ pc = <<0, 1>> /\ \A c \in Blocks : c \in ToSet(mqueue) \/ Computed(c)
  BY <1>3 DEF MInv
<1>5. /\ b \in Blocks /\ rest \in Seq(Blocks)
      /\ \A c \in ToSet(mqueue) : c = b \/ c \in ToSet(rest)
  <2>1. mqueue \in Seq(Blocks)
    BY <1>4 DEF MTyped
  <2>2. b \in Blocks /\ rest \in Seq(Blocks) /\ Len(rest) = Len(mqueue) - 1
        /\ \A i \in 1 .. Len(rest) : rest[i] = mqueue[i + 1]
    BY <1>3, <2>1
  <2>3. ASSUME NEW i \in 1 .. Len(mqueue), mqueue[i] # b
        PROVE  mqueue[i] \in ToSet(rest)
    <3>1. i # 1
      BY <1>3, <2>1, <2>3
    <3>2. i - 1 \in 1 .. Len(rest) /\ rest[i - 1] = mqueue[i]
      BY <2>1, <2>2, <3>1
    <3>3. DOMAIN rest = 1 .. Len(rest)
      BY <2>2
    <3> QED
      BY <3>2, <3>3, Zenon DEF ToSet
  <2>4. DOMAIN mqueue = 1 .. Len(mqueue)
    BY <2>1
  <2> QED
    BY <2>2, <2>3, <2>4 DEF ToSet
<1>6. /\ prog.succ[b] \subseteq Blocks
      /\ \A c \in Blocks : prog.succ[c] \subseteq Blocks
  BY <1>4, <1>5, Blocked DEF MTyped
<1>7. /\ Keyed(entry)
      /\ b = 0 => DOMAIN entry.values = {}
      /\ b # 0 => \A p \in Preds(b) : Weaker(entry, exits[p])
  <2>1. \A p \in Blocks : Keyed(exits[p])
    BY <1>4 DEF MTyped
  <2> HIDE DEF b
  <2> QED
    BY <1>5, <2>1, EntryWeaker
<1>8. Keyed(exit)
  <2>1. prog \in Programs
    BY <1>4 DEF MTyped
  <2> HIDE DEF b, entry
  <2> QED
    BY <1>5, <1>7, <2>1, WalkKeyed
<1>9. /\ more \in Seq(Blocks) /\ ToSet(more) = prog.succ[b] \ ToSet(rest)
  <2> DEFINE S == prog.succ[b] \ ToSet(rest)
  <2>1. S \subseteq Blocks
    BY <1>6
  <2>2. IsFiniteSet(Blocks)
    BY FS_Interval, ReachingStoresAssumption DEF Blocks
  <2>3. IsFiniteSet(S)
    BY <2>1, <2>2, FS_Subset
  <2> HIDE DEF S
  <2>4. more \in Listings(S)
    BY DEF S
  <2>5. more \in Seq(S) /\ ToSet(more) = S
    BY <2>3, <2>4, Listing
  <2> QED
    BY <2>1, <2>5 DEF S
<1> HIDE DEF b, rest, entry, exit
<1>10. /\ mqueue' \in Seq(Blocks) /\ ToSet(rest) \subseteq ToSet(mqueue')
       /\ exit # exits[b] => prog.succ[b] \subseteq ToSet(mqueue')
  <2>1. CASE exit = exits[b]
    BY <1>2, <1>5, <2>1
  <2>2. CASE exit # exits[b]
    <3>1. mqueue' = rest \o more
      BY <1>2, <2>2
    <3>2. ToSet(rest \o more) = ToSet(rest) \cup ToSet(more)
      <4>1. Range(rest \o more) = Range(rest) \cup Range(more)
        BY <1>5, <1>9, RangeConcatenation
      <4> QED
        BY <4>1, Zenon DEF ToSet, Range
    <3> QED
      BY <1>5, <1>9, <3>1, <3>2
  <2> QED
    BY <2>1, <2>2
<1>11. /\ DOMAIN entries' = Blocks /\ DOMAIN exits' = Blocks
       /\ entries'[b] = entry /\ exits'[b] = exit
       /\ \A c \in Blocks \ {b} : entries'[c] = entries[c] /\ exits'[c] = exits[c]
  BY <1>2, <1>4, <1>5 DEF MTyped
<1>12. MTyped'
  <2>1. \A c \in Blocks : Keyed(entries'[c]) /\ Keyed(exits'[c])
    BY <1>4, <1>7, <1>8, <1>11 DEF MTyped
  <2>2. \A c \in Blocks : Keyed(entries[c])' /\ Keyed(exits[c])'
    BY <2>1 DEF Keyed
  <2> QED
    BY <1>3, <1>4, <1>10, <1>11, <2>2 DEF MTyped
<1>13. ASSUME NEW c \in Blocks, c \notin ToSet(mqueue') PROVE Computed(c)'
  <2>1. \A p \in Preds(c) : p = b => exits'[b] = exits[b]
    <3>1. c \in prog.succ[b] => exit = exits[b]
      BY <1>10, <1>13
    <3> QED
      BY <1>11, <3>1 DEF Preds
  <2>2. \A p \in Preds(c) : exits'[p] = exits[p]
    BY <1>11, <2>1 DEF Preds
  <2>3. /\ exits'[c] = Exit(c, entries'[c])
        /\ c = 0 => DOMAIN entries'[c].values = {}
        /\ c # 0 => \A p \in Preds(c) : Weaker(entries'[c], exits'[p])
    <3>1. CASE c = b
      BY <1>7, <1>11, <2>2, <3>1 DEF exit
    <3>2. CASE c # b
      <4>1. Computed(c)
        BY <1>4, <1>5, <1>10, <1>13, <3>2
      <4> QED
        BY <1>11, <2>2, <3>2, <4>1 DEF Computed
    <3> QED
      BY <3>1, <3>2
  <2>4. \A e : Exit(c, e)' = Exit(c, e)
    BY <1>3, SameProgram
  <2>5. Preds(c)' = Preds(c)
    BY <1>3, SameProgram
  <2> QED
    BY <2>3, <2>4, <2>5 DEF Computed, Weaker
<1> QED
  BY <1>3, <1>4, <1>12, <1>13 DEF MInv

LEMMA FinishKeeps == MInv /\ (Stabilised \/ LimitReached) => MInv'
<1> SUFFICES ASSUME MInv, Stabilised \/ LimitReached PROVE MInv'
  OBVIOUS
<1>1. /\ mphase = "iterate" /\ mphase' = "apply" /\ pc' = pc /\ prog' = prog
      /\ frame' = frame /\ exits' = exits /\ mqueue' = mqueue
  BY DEF Stabilised, LimitReached
<1>2. MTyped /\ pc = <<0, 1>> /\ \A b \in Blocks : b \in ToSet(mqueue) \/ Computed(b)
  BY <1>1 DEF MInv
<1>3. /\ DOMAIN entries' = Blocks
      /\ \A b \in Blocks : Keyed(entries'[b])
      /\ DOMAIN entries'[0].values = {}
      /\ \A b \in Blocks : \A c \in prog.succ[b] \ {0} : Weaker(entries'[c], Exit(b, entries'[b]))
  <2>1. CASE Stabilised
    <3>1. entries' = entries /\ mqueue = <<>>
      BY <2>1 DEF Stabilised
    <3>2. \A b \in Blocks : Computed(b)
      BY <1>2, <3>1 DEF ToSet
    <3>3. ASSUME NEW b \in Blocks, NEW c \in prog.succ[b] \ {0}
          PROVE  Weaker(entries[c], Exit(b, entries[b]))
      <4>1. c \in Blocks
        BY <1>2, Blocked DEF MTyped
      <4>2. b \in Preds(c)
        BY DEF Preds
      <4> QED
        BY <3>2, <4>1, <4>2 DEF Computed
    <3>4. DOMAIN entries[0].values = {}
      BY <3>2, BlockZero DEF Computed
    <3> QED
      BY <1>2, <3>1, <3>3, <3>4 DEF MTyped
  <2>2. CASE LimitReached
    <3>1. entries' = [b \in Blocks |-> Empty("memory_traversal_limit")]
      BY <2>2 DEF LimitReached
    <3>2. \A b \in Blocks : DOMAIN entries'[b].values = {} /\ Keyed(entries'[b])
      BY <3>1, EmptyKnows
    <3>3. \A b \in Blocks : prog.succ[b] \subseteq Blocks
      BY <1>2, Blocked DEF MTyped
    <3> QED
      BY <3>1, <3>2, <3>3, BlockZero DEF Weaker
  <2> QED
    BY <2>1, <2>2
<1>4. MTyped'
  <2>1. \A c \in Blocks : Keyed(entries[c])' /\ Keyed(exits[c])'
    BY <1>1, <1>2, <1>3 DEF MTyped, Keyed
  <2> QED
    BY <1>1, <1>2, <1>3, <2>1 DEF MTyped
<1>5. Flows'
  <2>1. \A b, e : Exit(b, e)' = Exit(b, e)
    BY <1>1, SameProgram
  <2> QED
    BY <1>1, <1>3, <2>1 DEF Flows, Weaker
<1> QED
  BY <1>1, <1>2, <1>4, <1>5 DEF MInv

\* The steps of the execution and of the last loop leave the states alone.
LEMMA StatesStay ==
  ASSUME MTyped, Flows, UNCHANGED <<prog, entries, exits, mqueue, frame>>
  PROVE  MTyped' /\ Flows'
<1>1. MTyped'
  BY Zenon DEF MTyped, Keyed
<1>2. \A b, e : Exit(b, e)' = Exit(b, e)
  BY SameProgram
<1>3. Flows'
  BY <1>2 DEF Flows, Weaker
<1> QED
  BY <1>1, <1>3

LEMMA ApplyKeeps == MInv /\ Apply => MInv'
<1> SUFFICES ASSUME MInv, Apply PROVE MInv'
  OBVIOUS
<1>1. /\ mphase = "apply" /\ mphase' = "execute" /\ pc' = pc /\ bytes' = bytes
      /\ UNCHANGED <<prog, entries, exits, mqueue, frame>>
  BY DEF Apply
<1>2. MTyped /\ Flows /\ pc = <<0, 1>>
  BY <1>1 DEF MInv
<1>3. MTyped' /\ Flows'
  BY <1>1, <1>2, StatesStay
<1>4. \A b, e : Walk(b, e)' = Walk(b, e)
  BY <1>1, SameProgram
<1>5. Answered'
  <2> DEFINE Told(b, k) == IF IsLoad(prog.body[b][k])
                           THEN Claim(Walk(b, entries[b])[k], prog.body[b][k])
                           ELSE [stores |-> {}, boundary |-> "none"]
  <2>1. claims' = [b \in Blocks |-> [k \in DOMAIN prog.body[b] |-> Told(b, k)]]
    BY Zenon DEF Apply
  <2>2. \A b : Walk(b, entries[b])' = Walk(b, entries[b])
    BY <1>1, <1>4
  <2>3. \A b, k : Told(b, k)' = Told(b, k)
    BY <1>1, <2>2
  <2>4. \A b : DOMAIN (prog.body[b])' = DOMAIN prog.body[b]
    BY <1>1
  <2> HIDE DEF Told
  <2>5. claims' = [b \in Blocks |-> [k \in DOMAIN prog.body[b] |-> Told(b, k)]]'
    BY <1>1, <2>1, <2>3, <2>4
  <2> QED
    BY <2>5, Zenon DEF Answered, Told
<1>6. Running'
  <2>1. Len(prog.body[0]) \in Nat /\ 0 \in Blocks
    BY <1>2, BlockZero, Blocked DEF MTyped
  <2>2. 1 \in 1 .. Len(prog.body[0]) + 1
    BY <2>1
  <2>3. Walk(0, entries[0])[1] = entries[0]
    BY <2>1, WalkIs
  <2>4. Holds(Walk(0, entries[0])[1], bytes)
    BY <1>2, <2>3 DEF Flows, Holds
  <2>5. Walk(0, entries[0])' = Walk(0, entries[0])
    BY <1>1, <1>4
  <2>6. pc' = <<0, 1>> /\ prog' = prog
    BY <1>1, <1>2
  <2>7. Holds(Walk(0, entries[0])[1], bytes)'
    BY <1>1, <2>4, <2>5 DEF Holds, Touched
  <2> QED
    BY <2>1, <2>2, <2>6, <2>7 DEF Running
<1> QED
  BY <1>1, <1>3, <1>5, <1>6 DEF MInv

LEMMA AnsweredStays ==
  ASSUME Answered, UNCHANGED <<prog, entries, claims>>
  PROVE  Answered'
<1> DEFINE Told(b, k) == IF IsLoad(prog.body[b][k])
                         THEN Claim(Walk(b, entries[b])[k], prog.body[b][k])
                         ELSE [stores |-> {}, boundary |-> "none"]
<1>1. claims = [b \in Blocks |-> [k \in DOMAIN prog.body[b] |-> Told(b, k)]]
  BY Zenon DEF Answered
<1>2. \A b, e : Walk(b, e)' = Walk(b, e)
  BY SameProgram
<1>3. \A b : Walk(b, entries[b])' = Walk(b, entries[b])
  BY <1>2
<1>4. \A b, k : Told(b, k)' = Told(b, k)
  BY <1>3
<1> HIDE DEF Told
<1>5. claims' = [b \in Blocks |-> [k \in DOMAIN prog.body[b] |-> Told(b, k)]]'
  BY <1>1, <1>4
<1> QED
  BY <1>5, Zenon DEF Answered, Told

LEMMA ExecuteKeeps == MInv /\ Execute => MInv'
<1> SUFFICES ASSUME MInv, Execute PROVE MInv'
  OBVIOUS
<1>1. /\ mphase = "execute" /\ mphase' = "execute" /\ claims' = claims
      /\ UNCHANGED <<prog, entries, exits, mqueue, frame>>
      /\ pc[2] \in DOMAIN prog.body[pc[1]] /\ pc' = <<pc[1], pc[2] + 1>>
  BY DEF Execute
<1>2. MTyped /\ Flows /\ Answered /\ Running
  BY <1>1 DEF MInv
<1> DEFINE At(b, k) == pc = <<b, k>> /\ Holds(Walk(b, entries[b])[k], bytes)
<1>3a. PICK b \in Blocks : \E k \in 1 .. Len(prog.body[b]) + 1 : At(b, k)
  BY <1>2 DEF Running
<1>3. PICK k \in 1 .. Len(prog.body[b]) + 1 : At(b, k)
  BY <1>3a
<1> DEFINE stmt == prog.body[b][k]
           s == Walk(b, entries[b])[k]
           t == Walk(b, entries[b])[k + 1]
<1>4. Len(prog.body[b]) \in Nat /\ k \in 1 .. Len(prog.body[b]) /\ stmt \in Statements
  <2>1. prog \in Programs
    BY <1>2 DEF MTyped
  <2>2. /\ Len(prog.body[b]) \in Nat /\ DOMAIN prog.body[b] = 1 .. Len(prog.body[b])
        /\ \A i \in 1 .. Len(prog.body[b]) : prog.body[b][i] \in Statements
    BY <2>1, Blocked
  <2> QED
    BY <1>1, <1>3, <2>2
<1>5. PICK written \in Writes(stmt) : bytes' = Write(written, IF stmt.op = "store" THEN pc ELSE Nobody)
  BY <1>3 DEF Execute
<1>6. t = StepState(s, stmt, <<b, k>>)
  BY <1>4, WalkIs
<1>7. Keyed(s)
  <2>1. prog \in Programs /\ Keyed(entries[b])
    BY <1>2 DEF MTyped
  <2> QED
    BY <2>1, WalkKeyed
<1> HIDE DEF stmt, s, t
<1>8. Holds(t, bytes')
  <2>1. bytes' = Write(written, IF stmt.op = "store" THEN <<b, k>> ELSE Nobody)
    BY <1>3, <1>5
  <2>2. frame \in Frames /\ Holds(s, bytes)
    BY <1>2, <1>3 DEF MTyped, s
  <2> QED
    BY <1>4, <1>6, <1>7, <2>1, <2>2, StepHolds
<1>9. MTyped' /\ Flows' /\ Answered'
  BY <1>1, <1>2, StatesStay, AnsweredStays
<1>10. Running'
  <2>1. k + 1 \in 1 .. Len(prog.body[b]) + 1
    BY <1>4
  <2>2. pc' = <<b, k + 1>> /\ prog' = prog
    BY <1>1, <1>3
  <2>3. \A c, e : Walk(c, e)' = Walk(c, e)
    BY <1>1, SameProgram
  <2>4. Walk(b, entries[b])' = Walk(b, entries[b])
    BY <1>1, <2>3
  <2>5. Holds(Walk(b, entries[b])[k + 1], bytes)'
    BY <1>1, <1>8, <2>4 DEF Holds, Touched, t
  <2> QED
    BY <2>1, <2>2, <2>5 DEF Running
<1> QED
  BY <1>1, <1>9, <1>10 DEF MInv

LEMMA JumpKeeps == MInv /\ Jump => MInv'
<1> SUFFICES ASSUME MInv, Jump PROVE MInv'
  OBVIOUS
<1>1. /\ mphase = "execute" /\ mphase' = "execute" /\ claims' = claims
      /\ UNCHANGED <<prog, entries, exits, mqueue, frame>>
      /\ pc[2] \notin DOMAIN prog.body[pc[1]]
  BY DEF Jump
<1>2. MTyped /\ Flows /\ Answered /\ Running
  BY <1>1 DEF MInv
<1> DEFINE At(b, k) == pc = <<b, k>> /\ Holds(Walk(b, entries[b])[k], bytes)
<1>3a. PICK b \in Blocks : \E k \in 1 .. Len(prog.body[b]) + 1 : At(b, k)
  BY <1>2 DEF Running
<1>3. PICK k \in 1 .. Len(prog.body[b]) + 1 : At(b, k)
  BY <1>3a
<1>4. prog \in Programs
  BY <1>2 DEF MTyped
<1>5. k = Len(prog.body[b]) + 1
  <2>1. Len(prog.body[b]) \in Nat /\ DOMAIN prog.body[b] = 1 .. Len(prog.body[b])
    BY <1>4, Blocked
  <2> QED
    BY <1>1, <1>3, <2>1
<1>6. PICK c \in prog.succ[b] : pc' = <<c, 1>>
  BY <1>3 DEF Jump
<1>7. PICK written \in {{}} \cup {{a} : a \in IF prog.calls[b] THEN Bytes ELSE {}} :
        bytes' = Write(written, Nobody)
  BY <1>3 DEF Jump
<1>8. c \in Blocks /\ Len(prog.body[c]) \in Nat
  <2>1. c \in Blocks
    BY <1>4, Blocked
  <2> QED
    BY <1>4, <2>1, Blocked
<1>9. Holds(entries[c], bytes')
  <2>1. CASE c = 0
    BY <1>2, <2>1 DEF Flows, Holds
  <2>2. CASE c # 0
    <3>1. Weaker(entries[c], Exit(b, entries[b]))
      BY <1>2, <2>2 DEF Flows
    <3>2. Holds(Exit(b, entries[b]), bytes')
      <4>1. CASE prog.calls[b]
        <5>1. DOMAIN Exit(b, entries[b]).values = {}
          BY <4>1, EmptyKnows DEF Exit
        <5> QED
          BY <5>1 DEF Holds
      <4>2. CASE ~prog.calls[b]
        <5>1. Exit(b, entries[b]) = Walk(b, entries[b])[k]
          BY <1>5, <4>2 DEF Exit
        <5>2. written = {}
          BY <1>7, <4>2
        <5>3. \A a \in Bytes : bytes'[a] = bytes[a]
          BY <1>7, <5>2 DEF Write
        <5> DEFINE s == Walk(b, entries[b])[k]
        <5>4. Keyed(s) /\ frame \in Frames /\ Holds(s, bytes)
          BY <1>2, <1>3, WalkKeyed DEF MTyped
        <5> HIDE DEF s
        <5>5. ASSUME NEW key \in DOMAIN s.values
              PROVE  \E id \in s.values[key] : \A a \in Touched(key) : bytes'[a] = id
          <6>1. Touched(key) \subseteq Bytes
            BY <5>4, Within DEF Keyed
          <6>2. PICK id \in s.values[key] : \A a \in Touched(key) : bytes[a] = id
            BY <5>4 DEF Holds
          <6>3. \A a \in Touched(key) : bytes'[a] = id
            BY <5>3, <6>1, <6>2
          <6> QED
            BY <6>2, <6>3
        <5>6. Holds(s, bytes')
          BY <5>5 DEF Holds
        <5> QED
          BY <5>1, <5>6 DEF s
      <4> QED
        BY <4>1, <4>2
    <3> QED
      BY <3>1, <3>2, WeakerHolds
  <2> QED
    BY <2>1, <2>2
<1>10. MTyped' /\ Flows' /\ Answered'
  BY <1>1, <1>2, StatesStay, AnsweredStays
<1>11. Running'
  <2>1. 1 \in 1 .. Len(prog.body[c]) + 1
    BY <1>8
  <2>2. Walk(c, entries[c])[1] = entries[c]
    BY <1>8, WalkIs
  <2>3. \A d, e : Walk(d, e)' = Walk(d, e)
    BY <1>1, SameProgram
  <2>4. Walk(c, entries[c])' = Walk(c, entries[c])
    BY <1>1, <2>3
  <2>5. Holds(Walk(c, entries[c])[1], bytes)'
    BY <1>1, <1>9, <2>2, <2>4 DEF Holds, Touched
  <2> QED
    BY <1>1, <1>6, <1>8, <2>1, <2>5 DEF Running
<1> QED
  BY <1>1, <1>10, <1>11 DEF MInv

LEMMA MStutter == MInv /\ UNCHANGED mvars => MInv'
<1> SUFFICES ASSUME MInv, UNCHANGED mvars PROVE MInv'
  OBVIOUS
<1>1. UNCHANGED <<prog, entries, exits, mqueue, mwork, mphase, claims, pc, frame, bytes>>
  BY DEF mvars
<1>2. MTyped'
  BY <1>1, Zenon DEF MInv, MTyped, Keyed
<1>3. /\ \A b, e : Walk(b, e)' = Walk(b, e)
      /\ \A b, e : Exit(b, e)' = Exit(b, e)
      /\ \A b : Preds(b)' = Preds(b)
  BY <1>1, SameProgram
<1>4. ASSUME mphase = "iterate", NEW b \in Blocks, b \notin ToSet(mqueue)
      PROVE  Computed(b)'
  <2>1. Computed(b)
    BY <1>4 DEF MInv
  <2> QED
    BY <1>1, <1>3, <2>1 DEF Computed, Weaker
<1>5. mphase # "iterate" => Flows'
  <2>1. mphase # "iterate" => Flows
    BY DEF MInv
  <2> QED
    BY <1>1, <1>3, <2>1 DEF Flows, Weaker
<1>6. mphase = "execute" => Answered'
  BY <1>1, AnsweredStays DEF MInv
<1>7. mphase = "execute" => Running'
  <2> SUFFICES ASSUME mphase = "execute" PROVE Running'
    OBVIOUS
  <2> DEFINE At(b, k) == pc = <<b, k>> /\ Holds(Walk(b, entries[b])[k], bytes)
  <2>1a. PICK b \in Blocks : \E k \in 1 .. Len(prog.body[b]) + 1 : At(b, k)
    BY DEF MInv, Running
  <2>1. PICK k \in 1 .. Len(prog.body[b]) + 1 : At(b, k)
    BY <2>1a
  <2>2. Walk(b, entries[b])' = Walk(b, entries[b])
    BY <1>1, <1>3
  <2>3. Holds(Walk(b, entries[b])[k], bytes)'
    BY <1>1, <2>1, <2>2 DEF Holds, Touched
  <2> QED
    BY <1>1, <2>1, <2>3 DEF Running
<1> QED
  BY <1>1, <1>2, <1>4, <1>5, <1>6, <1>7 DEF MInv

\* The inductive invariant of forward() and of the run of the analysed function:
\* a block that is not queued has settled; then every edge carries no more than was
\* left at its start, and memory is as the state before the next statement says.
THEOREM MInvariance == MSpec => []MInv
<1>1. MInv /\ [MNext]_mvars => MInv'
  BY VisitKeeps, FinishKeeps, ApplyKeeps, ExecuteKeeps, JumpKeeps, MStutter DEF MNext, MAnalysis
<1> QED
  BY MInitial, <1>1, PTL DEF MSpec

LEMMA LoadsSound == MInv => LoadSound
<1> SUFFICES ASSUME MInv, mphase = "execute" PROVE LoadSound
  BY DEF LoadSound, SameBlockFollowed
<1>1. MTyped /\ Flows /\ Answered /\ Running
  BY DEF MInv
<1>2. prog \in Programs /\ frame \in Frames /\ \A b \in Blocks : Keyed(entries[b])
  BY <1>1 DEF MTyped
<1>3. \A b \in Blocks : \A k \in DOMAIN prog.body[b] :
        claims[b][k] = IF IsLoad(prog.body[b][k])
                       THEN Claim(Walk(b, entries[b])[k], prog.body[b][k])
                       ELSE [stores |-> {}, boundary |-> "none"]
  <2> DEFINE Told(b, k) == IF IsLoad(prog.body[b][k])
                           THEN Claim(Walk(b, entries[b])[k], prog.body[b][k])
                           ELSE [stores |-> {}, boundary |-> "none"]
  <2>1. claims = [b \in Blocks |-> [k \in DOMAIN prog.body[b] |-> Told(b, k)]]
    BY <1>1, Zenon DEF Answered
  <2> HIDE DEF Told
  <2>2. \A b \in Blocks : \A k \in DOMAIN prog.body[b] : claims[b][k] = Told(b, k)
    BY <2>1
  <2> QED
    BY <2>2, Zenon DEF Told
<1>4. SameBlockFollowed
  <2> SUFFICES ASSUME NEW b \in Blocks, NEW k \in DOMAIN prog.body[b],
                      NEW j \in DOMAIN prog.body[b],
                      j < k, prog.body[b][k].op = "load", prog.body[b][j].op = "store",
                      prog.body[b][k].loc = prog.body[b][j].loc, prog.body[b][k].loc # None,
                      \A i \in j + 1 .. k - 1 :
                         /\ prog.body[b][i].op \notin {"fstore", "call"}
                         /\ prog.body[b][i].op = "store" =>
                              /\ prog.body[b][i].loc # None
                              /\ ~MayOverlap(prog.body[b][i].loc, prog.body[b][k].loc),
                      \/ \A i \in j + 1 .. k - 1 : prog.body[b][i].op # "store"
                      \/ Cardinality(DOMAIN entries[b].values) + StoresBefore(b, k) <= MaxLocations
               PROVE  claims[b][k].stores = {<<b, j>>}
    BY DEF SameBlockFollowed
  <2> DEFINE loc == prog.body[b][k].loc
             s == Walk(b, entries[b])[k]
  <2>1. DOMAIN prog.body[b] = 1 .. Len(prog.body[b])
    BY <1>2, Blocked
  <2>2. loc \in DOMAIN s.values /\ s.values[loc] = {<<b, j>>}
    <3>1. /\ prog \in Programs /\ Keyed(entries[b])
          /\ j \in 1 .. Len(prog.body[b]) /\ k \in 1 .. Len(prog.body[b])
      BY <1>2, <2>1
    <3>2. Undisturbed(b, j, k, loc, entries[b])
      BY Zenon DEF Undisturbed
    <3> HIDE DEF loc, s
    <3>3. \A e : Keyed(e) /\ Undisturbed(b, j, k, loc, e) =>
                 /\ loc \in DOMAIN Walk(b, e)[k].values
                 /\ Walk(b, e)[k].values[loc] = {<<b, j>>}
      BY <3>1, Followed
    <3> QED
      BY <3>1, <3>2, <3>3 DEF s
  <2>3. claims[b][k] = Claim(s, prog.body[b][k])
    BY <1>3 DEF IsLoad
  <2> HIDE DEF s
  <2>4. Claim(s, prog.body[b][k]) = [stores |-> s.values[loc], boundary |-> "none"]
    BY <2>2 DEF Claim
  <2> QED
    BY <2>2, <2>3, <2>4
<1>5. ASSUME pc[2] \in DOMAIN prog.body[pc[1]], IsLoad(prog.body[pc[1]][pc[2]]),
             claims[pc[1]][pc[2]].stores # {}
      PROVE  \E id \in claims[pc[1]][pc[2]].stores :
               \A a \in Touched(prog.body[pc[1]][pc[2]].loc) : bytes[a] = id
  <2> DEFINE At(b, k) == pc = <<b, k>> /\ Holds(Walk(b, entries[b])[k], bytes)
  <2>1a. PICK b \in Blocks : \E k \in 1 .. Len(prog.body[b]) + 1 : At(b, k)
    BY <1>1 DEF Running
  <2>1. PICK k \in 1 .. Len(prog.body[b]) + 1 : At(b, k)
    BY <2>1a
  <2> DEFINE stmt == prog.body[b][k]
             s == Walk(b, entries[b])[k]
  <2>2. claims[b][k] = Claim(s, stmt)
    BY <1>3, <1>5, <2>1
  <2>3. claims[b][k].stores # {} /\ Holds(s, bytes)
    BY <1>5, <2>1
  <2> HIDE DEF stmt, s
  <2>4. stmt.loc \in DOMAIN s.values /\ claims[b][k].stores = s.values[stmt.loc]
    BY <2>2, <2>3 DEF Claim
  <2>5. \E id \in claims[b][k].stores : \A a \in Touched(stmt.loc) : bytes[a] = id
    BY <2>3, <2>4 DEF Holds
  <2> QED
    BY <2>1, <2>5 DEF stmt
<1> QED
  BY <1>4, <1>5 DEF LoadSound

\* Whatever path the function takes, wherever its frames lie and however often the
\* iteration was cut short: a load that forward() gave stores reads, as a whole,
\* what one of them wrote, and a load of a known store of its own block is given
\* that store.
THEOREM LoadsAreSound == MSpec => []LoadSound
BY MInvariance, LoadsSound, PTL

---------------------------------------------------------------------------
(* Lists of anything                                                       *)

IsList(s) == \E S : s \in Seq(S)

LEMMA ListShape ==
  ASSUME NEW s, IsList(s)
  PROVE  Len(s) \in Nat /\ DOMAIN s = 1 .. Len(s)
<1>1. PICK S : s \in Seq(S)
  BY DEF IsList
<1> QED
  BY <1>1

LEMMA ListAppend ==
  ASSUME NEW s, IsList(s), NEW x
  PROVE  /\ IsList(Append(s, x)) /\ Len(Append(s, x)) = Len(s) + 1
         /\ DOMAIN Append(s, x) = 1 .. Len(s) + 1
         /\ \A i \in 1 .. Len(s) : Append(s, x)[i] = s[i]
         /\ Append(s, x)[Len(s) + 1] = x
<1>1. PICK S : s \in Seq(S)
  BY DEF IsList
<1> DEFINE T == S \cup {x}
<1>2. s \in Seq(T) /\ x \in T
  BY <1>1
<1> HIDE DEF T
<1>3. Append(s, x) \in Seq(T)
  BY <1>2
<1>4. IsList(Append(s, x))
  BY <1>3 DEF IsList
<1> QED
  BY <1>2, <1>3, <1>4

LEMMA ListConcat ==
  ASSUME NEW s, IsList(s), NEW x
  PROVE  s \o <<x>> = Append(s, x)
<1>1. PICK S : s \in Seq(S)
  BY DEF IsList
<1> DEFINE T == S \cup {x}
<1>2. s \in Seq(T) /\ x \in T
  BY <1>1
<1> HIDE DEF T
<1> QED
  BY <1>2, AppendIsConcat

LEMMA ListTail ==
  ASSUME NEW s, IsList(s), s # <<>>
  PROVE  /\ IsList(Tail(s)) /\ Len(Tail(s)) = Len(s) - 1 /\ Len(s) \in Nat \ {0}
         /\ DOMAIN Tail(s) = 1 .. Len(s) - 1
         /\ \A i \in 1 .. Len(s) - 1 : Tail(s)[i] = s[i + 1]
         /\ Head(s) = s[1]
<1>1. PICK S : s \in Seq(S)
  BY DEF IsList
<1>2. Tail(s) \in Seq(S)
  BY <1>1
<1>3. IsList(Tail(s))
  BY <1>2 DEF IsList
<1> QED
  BY <1>1, <1>2, <1>3

LEMMA ListJoin ==
  ASSUME NEW s, IsList(s), NEW t, IsList(t)
  PROVE  /\ IsList(s \o t) /\ Len(s \o t) = Len(s) + Len(t)
         /\ DOMAIN (s \o t) = 1 .. Len(s) + Len(t)
         /\ \A i \in 1 .. Len(s) : (s \o t)[i] = s[i]
         /\ \A i \in 1 .. Len(t) : (s \o t)[Len(s) + i] = t[i]
<1>1. PICK S : s \in Seq(S)
  BY DEF IsList
<1>2. PICK T : t \in Seq(T)
  BY DEF IsList
<1> DEFINE U == S \cup T
<1>3. s \in Seq(U) /\ t \in Seq(U)
  BY <1>1, <1>2
<1> HIDE DEF U
<1>4. s \o t \in Seq(U)
  BY <1>3
<1>5. IsList(s \o t)
  BY <1>4 DEF IsList
<1>6. \A i \in 1 .. Len(t) : (s \o t)[Len(s) + i] = t[i]
  <2> SUFFICES ASSUME NEW i \in 1 .. Len(t) PROVE (s \o t)[Len(s) + i] = t[i]
    OBVIOUS
  <2>1. Len(s) \in Nat /\ Len(t) \in Nat
    BY <1>3
  <2>2. Len(s) + i \in 1 .. Len(s) + Len(t) /\ ~(Len(s) + i <= Len(s)) /\ (Len(s) + i) - Len(s) = i
    BY <2>1
  <2> QED
    BY <1>3, <2>1, <2>2
<1> QED
  BY <1>3, <1>4, <1>5, <1>6

LEMMA ListSub ==
  ASSUME NEW s, IsList(s), NEW n \in 0 .. Len(s)
  PROVE  /\ IsList(SubSeq(s, 1, n)) /\ Len(SubSeq(s, 1, n)) = n
         /\ DOMAIN SubSeq(s, 1, n) = 1 .. n
         /\ \A i \in 1 .. n : SubSeq(s, 1, n)[i] = s[i]
<1>1. PICK S : s \in Seq(S)
  BY DEF IsList
<1>2. SubSeq(s, 1, n) \in Seq(S) /\ Len(SubSeq(s, 1, n)) = n
  BY <1>1
<1>3. IsList(SubSeq(s, 1, n))
  BY <1>2 DEF IsList
<1> QED
  BY <1>1, <1>2, <1>3

\* The positions of a sequence and what is at them.
LEMMA ListOf ==
  \A S : \A s \in Seq(S) :
     DOMAIN s = 1 .. Len(s) /\ Len(s) \in Nat /\ \A k \in DOMAIN s : s[k] \in S
OBVIOUS

LEMMA ListMade ==
  ASSUME NEW n \in Nat, NEW S, NEW s \in [1 .. n -> S]
  PROVE  IsList(s) /\ Len(s) = n
<1>1. s \in Seq(S) /\ Len(s) = n
  OBVIOUS
<1> QED
  BY <1>1 DEF IsList

---------------------------------------------------------------------------
(* Counting                                                                *)

\* A list in which nothing is repeated names as many members as it has entries.
LEMMA Counted ==
  ASSUME NEW n \in Nat, NEW R, NEW f \in [1 .. n -> R],
         \A x \in R : \E i \in 1 .. n : f[i] = x,
         \A i, j \in 1 .. n : f[i] = f[j] => i = j
  PROVE  IsFiniteSet(R) /\ Cardinality(R) = n
<1>1. f \in Bijection(1 .. n, R)
  <2>1. f \in Injection(1 .. n, R)
    BY DEF Injection, IsInjective
  <2>2. f \in Surjection(1 .. n, R)
    BY DEF Surjection
  <2> QED
    BY <2>1, <2>2 DEF Bijection
<1>2. IsFiniteSet(1 .. n) /\ Cardinality(1 .. n) = n
  BY FS_Interval
<1>3. ExistsBijection(1 .. n, R)
  BY <1>1 DEF ExistsBijection
<1> QED
  BY <1>2, <1>3, FS_Bijection

\* Entries admitted while those before them are fewer than there is room for:
\* they all fit.
LEMMA TakenFit ==
  ASSUME NEW F \in SUBSET Nat, IsFiniteSet(F), NEW c \in Nat, NEW max \in Nat, c <= max
  PROVE  LET T == {k \in F : c + Cardinality({j \in F : j < k}) < max} IN
         IsFiniteSet(T) /\ c + Cardinality(T) <= max
<1> DEFINE Before(k) == {j \in F : j < k}
           T == {k \in F : c + Cardinality(Before(k)) < max}
<1>1. T \in SUBSET F /\ IsFiniteSet(T) /\ Cardinality(T) \in Nat
  <2>1. T \in SUBSET F
    OBVIOUS
  <2> HIDE DEF T
  <2> QED
    BY <2>1, FS_Subset, FS_CardinalityType
<1>2. \A k : IsFiniteSet(Before(k)) /\ Cardinality(Before(k)) \in Nat
  <2> SUFFICES ASSUME NEW k PROVE IsFiniteSet(Before(k)) /\ Cardinality(Before(k)) \in Nat
    OBVIOUS
  <2>1. Before(k) \in SUBSET F
    OBVIOUS
  <2> HIDE DEF Before
  <2> QED
    BY <2>1, FS_Subset, FS_CardinalityType
<1>3. CASE T = {}
  <2> HIDE DEF T
  <2>1. Cardinality(T) = 0
    BY <1>3, FS_EmptySet
  <2>2. c + Cardinality(T) <= max
    BY <2>1
  <2> QED
    BY <1>1, <2>2 DEF T, Before
<1>4. CASE T # {}
  <2>1. T \in SUBSET Nat
    BY <1>1
  <2>2. PICK m \in T : \A j \in T : j <= m
    <3> HIDE DEF T
    <3> QED
      BY <1>1, <1>4, <2>1, Greatest
  <2>3. T \ {m} \subseteq Before(m) /\ m \in Nat
    <3>1. \A j \in T \ {m} : j \in F /\ j \in Nat /\ j <= m /\ j # m /\ m \in Nat
      BY <1>1, <2>1, <2>2
    <3> QED
      BY <2>1, <3>1
  <2>4. c + Cardinality(Before(m)) < max
    BY <2>2
  <2> HIDE DEF T, Before
  <2>5. Cardinality(T \ {m}) = Cardinality(T) - 1
    BY <1>1, <2>2, FS_RemoveElement
  <2>6. Cardinality(T \ {m}) <= Cardinality(Before(m))
    BY <1>2, <2>3, FS_Subset
  <2>7. c + Cardinality(T) <= max
    BY <1>1, <1>2, <2>4, <2>5, <2>6
  <2> QED
    BY <1>1, <2>7 DEF T, Before
<1> QED
  BY <1>3, <1>4

---------------------------------------------------------------------------
(* The local walk                                                          *)

Waiting == {lqueue[j].var : j \in DOMAIN lqueue}

\* A node of the slice says what its variable is; `whole' when no input of it was
\* left out.
Faithful(node, vars, whole) ==
  /\ node.var \in DOMAIN vars
  /\ node.boundary = vars[node.var].boundary
  /\ IsList(node.inputs)
  /\ whole => /\ DOMAIN node.inputs = DOMAIN vars[node.var].deps
              /\ \A k \in DOMAIN node.inputs : node.inputs[k].var = vars[node.var].deps[k]

\* Every edge without a reason leads to something seen.
Followable(node, seen) ==
  \A k \in DOMAIN node.inputs : node.inputs[k].stop = "none" => node.inputs[k].var \in seen

Distinct(list) == \A i, j \in DOMAIN list : list[i].var = list[j].var => i = j

LInv ==
  /\ IsList(lqueue) /\ IsList(lnodes) /\ ledges \in 0 .. MaxInputs
  /\ \A v \in DOMAIN lvars : lvars[v].deps \in Seq(Nat)
  /\ IsFiniteSet(lseen) /\ lseen \subseteq DOMAIN lvars /\ lseen = Walked \cup Waiting
  /\ Walked \cap Waiting = {} /\ Distinct(lqueue) /\ Distinct(lnodes)
  /\ lmax.nodes \in Nat /\ Cardinality(lseen) <= lmax.nodes
  /\ \A i \in DOMAIN lnodes :
        Faithful(lnodes[i], lvars, ~lcut) /\ Followable(lnodes[i], lseen)

\* The walk as a whole: what is in the slice or waiting is counted once.
LEMMA LocalCounts ==
  ASSUME LInv
  PROVE  /\ Cardinality(Walked) = Len(lnodes)
         /\ Len(lnodes) + Len(lqueue) = Cardinality(lseen)
         /\ Len(lnodes) \in Nat /\ Len(lqueue) \in Nat
<1>1. /\ Len(lqueue) \in Nat /\ DOMAIN lqueue = 1 .. Len(lqueue)
      /\ Len(lnodes) \in Nat /\ DOMAIN lnodes = 1 .. Len(lnodes)
  BY ListShape DEF LInv
<1> DEFINE f == [i \in 1 .. Len(lnodes) |-> lnodes[i].var]
           g == [j \in 1 .. Len(lqueue) |-> lqueue[j].var]
<1>2. \A i, j \in 1 .. Len(lnodes) : f[i] = f[j] => i = j
  BY <1>1 DEF LInv, Distinct
<1>3. \A i, j \in 1 .. Len(lqueue) : g[i] = g[j] => i = j
  BY <1>1 DEF LInv, Distinct
<1>4. \A x \in Walked : \E i \in 1 .. Len(lnodes) : f[i] = x
  BY <1>1 DEF Walked
<1>5. \A x \in Waiting : \E j \in 1 .. Len(lqueue) : g[j] = x
  BY <1>1 DEF Waiting
<1>6. f \in [1 .. Len(lnodes) -> Walked] /\ g \in [1 .. Len(lqueue) -> Waiting]
  BY <1>1 DEF Walked, Waiting
<1> HIDE DEF f, g
<1>7. IsFiniteSet(Walked) /\ Cardinality(Walked) = Len(lnodes)
  BY <1>1, <1>2, <1>4, <1>6, Counted
<1>8. IsFiniteSet(Waiting) /\ Cardinality(Waiting) = Len(lqueue)
  BY <1>1, <1>3, <1>5, <1>6, Counted
<1>9. Cardinality(Walked \cup Waiting)
        = Cardinality(Walked) + Cardinality(Waiting) - Cardinality(Walked \cap Waiting)
  BY <1>7, <1>8, FS_Union
<1>10. Walked \cap Waiting = {} /\ lseen = Walked \cup Waiting
  BY DEF LInv
<1>11. Cardinality(Walked \cap Waiting) = 0
  BY <1>10, FS_EmptySet
<1> QED
  BY <1>1, <1>7, <1>8, <1>9, <1>10, <1>11

LEMMA LocalHonest == LInv => LocalEdgesHonest
<1> SUFFICES ASSUME LInv PROVE LocalEdgesHonest
  OBVIOUS
<1>1. ASSUME NEW i \in DOMAIN lnodes, NEW k \in DOMAIN lnodes[i].inputs,
             lnodes[i].inputs[k].stop = "none"
      PROVE  \/ lnodes[i].inputs[k].var \in Walked
             \/ \E j \in DOMAIN lqueue : lqueue[j].var = lnodes[i].inputs[k].var
  BY <1>1 DEF LInv, Followable, Waiting
<1>2. Cardinality(Walked) = Len(lnodes) /\ Len(lnodes) + Len(lqueue) <= lmax.nodes
  BY LocalCounts DEF LInv
<1>3. ledges <= MaxInputs
  BY BackwardSliceAssumption DEF LInv
<1> QED
  BY <1>1, <1>2, <1>3 DEF LocalEdgesHonest

LEMMA LocalCloses == LInv => LocalCompleteClosed
<1> SUFFICES ASSUME LInv, LocalDone, LocalComplete, NEW v \in Walked,
                    NEW d \in ToSet(lvars[v].deps)
             PROVE  d \in Walked
  BY DEF LocalCompleteClosed
<1>1. PICK i \in DOMAIN lnodes : v = lnodes[i].var
  BY DEF Walked
<1>2. Faithful(lnodes[i], lvars, TRUE) /\ Followable(lnodes[i], lseen)
  BY DEF LInv, LocalComplete
<1>3. PICK k \in DOMAIN lvars[v].deps : d = lvars[v].deps[k]
  BY DEF ToSet
<1>4. k \in DOMAIN lnodes[i].inputs /\ lnodes[i].inputs[k].var = d
  BY <1>1, <1>2, <1>3 DEF Faithful
<1>5. lnodes[i].inputs[k].stop = "none"
  BY <1>4 DEF LocalComplete
<1>6. d \in lseen
  BY <1>2, <1>4, <1>5 DEF Followable
<1>7. Waiting = {}
  BY DEF Waiting, LocalDone
<1> QED
  BY <1>6, <1>7 DEF LInv

LEMMA LocalStarts ==
  ASSUME NEW vars, NEW root \in DOMAIN vars, NEW max, max.nodes \in Nat \ {0},
         \A v \in DOMAIN vars : vars[v].deps \in Seq(Nat), LocalStart(vars, root, max)
  PROVE  LInv'
<1>1. /\ lvars' = vars /\ lmax' = max /\ lqueue' = <<[var |-> root, depth |-> 0]>>
      /\ lseen' = {root} /\ lnodes' = <<>> /\ ledges' = 0 /\ lcut' = FALSE
  BY DEF LocalStart
<1>2. IsList(lqueue') /\ IsList(lnodes')
  <2>1. lqueue' \in Seq({[var |-> root, depth |-> 0]}) /\ lnodes' \in Seq({})
    BY <1>1
  <2> QED
    BY <2>1 DEF IsList
<1>3. IsFiniteSet({root}) /\ Cardinality({root}) = 1
  BY FS_Singleton
<1>4. DOMAIN lqueue' = {1} /\ lqueue'[1].var = root /\ DOMAIN lnodes' = {}
  BY <1>1
<1>5. Waiting' = {root} /\ Walked' = {}
  BY <1>4 DEF Waiting, Walked
<1>6. Distinct(lqueue)' /\ Distinct(lnodes)'
  BY <1>4 DEF Distinct
<1> QED
  BY <1>1, <1>2, <1>3, <1>4, <1>5, <1>6, BackwardSliceAssumption DEF LInv, IsList

LEMMA LocalIdles == LocalIdle => LInv
<1> SUFFICES ASSUME LocalIdle PROVE LInv
  OBVIOUS
<1>1. /\ lvars = <<>> /\ lmax = [nodes |-> 0, depth |-> 0] /\ lqueue = <<>> /\ lseen = {}
      /\ lnodes = <<>> /\ ledges = 0
  BY DEF LocalIdle
<1>2. IsList(<<>>)
  <2>1. <<>> \in Seq({})
    OBVIOUS
  <2> QED
    BY <2>1 DEF IsList
<1>3. IsFiniteSet({}) /\ Cardinality({}) = 0
  BY FS_EmptySet
<1>4. Waiting = {} /\ Walked = {} /\ Distinct(lqueue) /\ Distinct(lnodes)
  BY <1>1 DEF Waiting, Walked, Distinct
<1> QED
  BY <1>1, <1>2, <1>3, <1>4, BackwardSliceAssumption DEF LInv

LEMMA LocalSame ==
  ASSUME LInv, UNCHANGED localVars
  PROVE  LInv'
<1>1. /\ lvars' = lvars /\ lmax' = lmax /\ lqueue' = lqueue /\ lseen' = lseen
      /\ lnodes' = lnodes /\ ledges' = ledges /\ lcut' = lcut
  BY DEF localVars
<1>2. Walked' = Walked /\ Waiting' = Waiting
  BY <1>1 DEF Walked, Waiting
<1>3. Distinct(lqueue)' /\ Distinct(lnodes)'
  BY <1>1 DEF LInv, Distinct
<1>4. \A i \in DOMAIN lnodes' :
        Faithful(lnodes'[i], lvars', ~lcut') /\ Followable(lnodes'[i], lseen')
  BY <1>1 DEF LInv
<1> QED
  BY <1>1, <1>2, <1>3, <1>4 DEF LInv

\* The inputs a turn takes are as many as there is room for, each of them new and
\* named once.
LEMMA Takes ==
  ASSUME LInv, NEW at, NEW deps, NEW n \in Nat, DOMAIN deps = 1 .. n,
         NEW new \in Ascending(Taken(at, deps))
  PROVE  /\ IsList(new) /\ DOMAIN new = 1 .. Len(new) /\ Len(new) \in Nat
         /\ \A i \in 1 .. Len(new) :
               new[i] \in 1 .. n /\ deps[new[i]] \in DOMAIN lvars \ lseen
         /\ \A i, j \in 1 .. Len(new) : deps[new[i]] = deps[new[j]] => i = j
         /\ {deps[k] : k \in Taken(at, deps)} = {deps[new[i]] : i \in 1 .. Len(new)}
         /\ Cardinality(lseen) + Len(new) <= lmax.nodes
<1> DEFINE F == Fresh(at, deps)
           T == Taken(at, deps)
<1>1. F \subseteq 1 .. n /\ \A k \in F : deps[k] \in DOMAIN lvars \ lseen
  BY DEF Fresh
<1>2. \A j, k \in F : deps[j] = deps[k] => j = k
  <2>1. \A k \in F : \A j \in 1 .. k - 1 : deps[j] # deps[k]
    BY DEF Fresh
  <2> HIDE DEF F
  <2> SUFFICES ASSUME NEW j \in F, NEW k \in F, deps[j] = deps[k] PROVE j = k
    OBVIOUS
  <2>2. j \in 1 .. n /\ k \in 1 .. n
    BY <1>1
  <2>3. j \notin 1 .. k - 1 /\ k \notin 1 .. j - 1
    BY <2>1
  <2> QED
    BY <2>2, <2>3
<1>3. F \in SUBSET Nat /\ IsFiniteSet(F)
  <2> HIDE DEF F
  <2>1. IsFiniteSet(1 .. n)
    BY FS_Interval
  <2>2. IsFiniteSet(F)
    BY <1>1, <2>1, FS_Subset
  <2>3. F \subseteq Nat
    BY <1>1
  <2> QED
    BY <2>2, <2>3
<1>4. Cardinality(lseen) \in Nat /\ lmax.nodes \in Nat /\ Cardinality(lseen) <= lmax.nodes
  BY FS_CardinalityType DEF LInv
<1>5. T = {k \in F : Cardinality(lseen) + Cardinality({j \in F : j < k}) < lmax.nodes}
  BY DEF Taken
<1> HIDE DEF F, T
<1>6. IsFiniteSet(T) /\ Cardinality(lseen) + Cardinality(T) <= lmax.nodes
  BY <1>3, <1>4, <1>5, TakenFit
<1>7. T \subseteq F
  BY <1>5
<1>8. Cardinality(T) \in Nat
  BY <1>6, FS_CardinalityType
<1>9. /\ new \in [1 .. Cardinality(T) -> T] /\ Range(new) = T
      /\ \A i, j \in 1 .. Cardinality(T) : i < j => new[i] < new[j]
  BY DEF Ascending, T
<1>10. IsList(new) /\ Len(new) = Cardinality(T) /\ DOMAIN new = 1 .. Len(new)
  BY <1>8, <1>9, ListMade
<1>11. ASSUME NEW i \in 1 .. Len(new)
       PROVE  new[i] \in 1 .. n /\ deps[new[i]] \in DOMAIN lvars \ lseen
  BY <1>1, <1>7, <1>9, <1>10
<1>12. ASSUME NEW i \in 1 .. Len(new), NEW j \in 1 .. Len(new), deps[new[i]] = deps[new[j]]
       PROVE  i = j
  <2>1. new[i] \in F /\ new[j] \in F
    BY <1>7, <1>9, <1>10
  <2>2. new[i] = new[j] /\ new[i] \in Nat
    BY <1>2, <1>3, <1>12, <2>1
  <2>3. ~(i < j) /\ ~(j < i)
    BY <1>9, <1>10, <2>2
  <2> QED
    BY <1>8, <1>10, <2>3
<1>13. \A k \in T : \E i \in 1 .. Len(new) : new[i] = k
  <2>1. T = {new[i] : i \in 1 .. Len(new)}
    BY <1>9, <1>10 DEF Range
  <2> QED
    BY <2>1
<1>14. {deps[k] : k \in T} = {deps[new[i]] : i \in 1 .. Len(new)}
  BY <1>9, <1>10, <1>13
<1> QED
  BY <1>6, <1>8, <1>10, <1>11, <1>12, <1>14 DEF T

\* A turn of the walk moves one variable into the slice and lets the inputs it
\* takes wait.
LEMMA LocalKeeps == LInv /\ LocalVisit => LInv'
<1> SUFFICES ASSUME LInv, LocalVisit PROVE LInv'
  OBVIOUS
<1> DEFINE at == Head(lqueue)
           all == lvars[at.var].deps
           room == MaxInputs - ledges
           deps == IF Len(all) <= room THEN all ELSE SubSeq(all, 1, room)
           edges == [k \in DOMAIN deps |-> [var |-> deps[k], stop |-> StopReason(at, deps, k)]]
           node == [var |-> at.var, depth |-> at.depth,
                    boundary |-> lvars[at.var].boundary, inputs |-> edges]
           T == Taken(at, deps)
<1>1. PICK new \in Ascending(T) :
        /\ lseen' = lseen \cup {deps[k] : k \in T}
        /\ lqueue' = Tail(lqueue) \o
                 [i \in DOMAIN new |-> [var |-> deps[new[i]], depth |-> at.depth + 1]]
        /\ ledges' = ledges + Len(deps)
        /\ lcut' = (lcut \/ Cut(edges, all))
        /\ lnodes' = Append(lnodes, node)
  BY Zenon DEF LocalVisit
<1>2. lqueue # <<>> /\ lvars' = lvars /\ lmax' = lmax
  BY Zenon DEF LocalVisit
<1> DEFINE add == [i \in DOMAIN new |-> [var |-> deps[new[i]], depth |-> at.depth + 1]]
<1>3. /\ IsList(Tail(lqueue)) /\ Len(lqueue) \in Nat \ {0} /\ Len(Tail(lqueue)) = Len(lqueue) - 1
      /\ \A i \in 1 .. Len(lqueue) - 1 : Tail(lqueue)[i] = lqueue[i + 1]
      /\ at = lqueue[1] /\ DOMAIN lqueue = 1 .. Len(lqueue)
  BY <1>2, ListTail, ListShape DEF LInv
<1>4. at.var \in Waiting /\ at.var \notin Walked /\ at.var \in DOMAIN lvars
  <2>1. at.var \in Waiting
    BY <1>3 DEF Waiting
  <2> QED
    BY <2>1 DEF LInv
<1>5. all \in Seq(Nat)
  BY <1>4 DEF LInv
<1>6. /\ IsList(deps) /\ Len(deps) \in 0 .. room /\ DOMAIN deps = 1 .. Len(deps)
      /\ Len(deps) <= Len(all) /\ \A k \in 1 .. Len(deps) : deps[k] = all[k]
  <2> HIDE DEF all
  <2>1. IsList(all) /\ Len(all) \in Nat /\ DOMAIN all = 1 .. Len(all)
    BY <1>5, ListShape DEF IsList
  <2>2. room \in Nat
    BY BackwardSliceAssumption DEF LInv
  <2> HIDE DEF room
  <2>3. CASE Len(all) <= room
    BY <2>1, <2>2, <2>3
  <2>4. CASE ~(Len(all) <= room)
    <3>1. room \in 0 .. Len(all)
      BY <2>1, <2>2, <2>4
    <3>2. deps = SubSeq(all, 1, room)
      BY <2>4
    <3> QED
      BY <2>1, <2>2, <2>4, <3>1, <3>2, ListSub
  <2> QED
    BY <2>3, <2>4
<1>7. room \in Nat /\ ledges \in Nat /\ ledges + room = MaxInputs
  BY BackwardSliceAssumption DEF LInv
<1>8. ledges' \in 0 .. MaxInputs
  <2> HIDE DEF room, deps
  <2> QED
    BY <1>1, <1>6, <1>7
<1>9. DOMAIN edges = 1 .. Len(deps) /\ IsList(edges) /\ Len(edges) = Len(deps)
      /\ \A k \in 1 .. Len(deps) :
            edges[k].var = all[k] /\ edges[k].stop = StopReason(at, deps, k)
  <2>1. \A k \in 1 .. Len(deps) : edges[k].var = all[k] /\ edges[k].stop = StopReason(at, deps, k)
    <3> HIDE DEF deps, all, at
    <3> QED
      BY <1>6
  <2>2. IsList(edges) /\ Len(edges) = Len(deps)
    <3> DEFINE S == {edges[k] : k \in 1 .. Len(deps)}
    <3>1. edges \in [1 .. Len(deps) -> S]
      <4> HIDE DEF deps
      <4> QED
        BY <1>6
    <3>2. Len(deps) \in Nat
      <4> HIDE DEF deps, all, room
      <4> QED
        BY <1>6, <1>7
    <3> HIDE DEF S, edges, deps
    <3> QED
      BY <3>1, <3>2, ListMade
  <2> QED
    BY <1>6, <2>1, <2>2, Zenon
<1>10. /\ IsList(new) /\ DOMAIN new = 1 .. Len(new) /\ Len(new) \in Nat
       /\ \A i \in 1 .. Len(new) :
               new[i] \in 1 .. Len(deps) /\ deps[new[i]] \in DOMAIN lvars \ lseen
       /\ \A i, j \in 1 .. Len(new) : deps[new[i]] = deps[new[j]] => i = j
       /\ {deps[k] : k \in T} = {deps[new[i]] : i \in 1 .. Len(new)}
       /\ Cardinality(lseen) + Len(new) <= lmax.nodes
  <2> HIDE DEF deps, at, all, room
  <2>1. Len(deps) \in Nat
    BY <1>6, <1>7
  <2> QED
    BY <1>6, <2>1, Takes
<1> HIDE DEF edges, T, all, room
<1> DEFINE N == {deps[new[i]] : i \in 1 .. Len(new)}
<1>11. lseen' = lseen \cup N /\ N \subseteq DOMAIN lvars /\ N \cap lseen = {}
  <2> HIDE DEF deps
  <2>1. N = {deps[k] : k \in T}
    BY <1>10
  <2>2. lseen' = lseen \cup N
    BY <1>1, <2>1
  <2>3. \A x \in N : x \in DOMAIN lvars \ lseen
    BY <1>10
  <2> HIDE DEF N
  <2> QED
    BY <2>2, <2>3
<1>12. IsFiniteSet(N) /\ Cardinality(N) = Len(new)
  <2> DEFINE f == [i \in 1 .. Len(new) |-> deps[new[i]]]
  <2> HIDE DEF deps
  <2>1. f \in [1 .. Len(new) -> N] /\ \A x \in N : \E i \in 1 .. Len(new) : f[i] = x
    OBVIOUS
  <2>2. \A i, j \in 1 .. Len(new) : f[i] = f[j] => i = j
    BY <1>10
  <2> HIDE DEF f, N
  <2> QED
    BY <1>10, <2>1, <2>2, Counted
<1>13. IsFiniteSet(lseen') /\ lseen' \subseteq DOMAIN lvars' /\ Cardinality(lseen') <= lmax'.nodes
  <2> HIDE DEF N
  <2>1. IsFiniteSet(lseen) /\ lseen \subseteq DOMAIN lvars
    BY DEF LInv
  <2>2. Cardinality(lseen \cup N) = Cardinality(lseen) + Cardinality(N) - Cardinality(lseen \cap N)
    BY <1>12, <2>1, FS_Union
  <2>3. Cardinality(lseen \cap N) = 0
    BY <1>11, FS_EmptySet
  <2>4. IsFiniteSet(lseen \cup N) /\ Cardinality(lseen) \in Nat
    BY <1>12, <2>1, FS_Union, FS_CardinalityType
  <2> QED
    BY <1>2, <1>10, <1>11, <1>12, <2>1, <2>2, <2>3, <2>4
<1>14. /\ IsList(add) /\ Len(add) = Len(new) /\ DOMAIN add = 1 .. Len(new)
       /\ \A i \in 1 .. Len(new) : add[i].var = deps[new[i]]
  <2> DEFINE S == {add[i] : i \in 1 .. Len(new)}
  <2>1. add \in [1 .. Len(new) -> S] /\ \A i \in 1 .. Len(new) : add[i].var = deps[new[i]]
    <3> HIDE DEF deps, at
    <3> QED
      BY <1>10
  <2> HIDE DEF S, add
  <2> QED
    BY <1>10, <2>1, ListMade
<1> HIDE DEF add, deps
<1>15. /\ IsList(lqueue') /\ Len(lqueue') = Len(lqueue) - 1 + Len(new)
       /\ DOMAIN lqueue' = 1 .. Len(lqueue) - 1 + Len(new)
       /\ \A i \in 1 .. Len(lqueue) - 1 : lqueue'[i] = lqueue[i + 1]
       /\ \A i \in 1 .. Len(new) : lqueue'[Len(lqueue) - 1 + i] = add[i]
  <2>1. lqueue' = Tail(lqueue) \o add
    BY <1>1 DEF add
  <2>2. /\ IsList(lqueue') /\ Len(lqueue') = Len(Tail(lqueue)) + Len(add)
        /\ DOMAIN lqueue' = 1 .. Len(Tail(lqueue)) + Len(add)
        /\ \A i \in 1 .. Len(Tail(lqueue)) : lqueue'[i] = Tail(lqueue)[i]
        /\ \A i \in 1 .. Len(add) : lqueue'[Len(Tail(lqueue)) + i] = add[i]
    <3>1. IsList(Tail(lqueue)) /\ IsList(add)
      BY <1>3, <1>14
    <3> DEFINE s == Tail(lqueue)
    <3>2. lqueue' = s \o add /\ IsList(s)
      BY <2>1, <3>1
    <3> HIDE DEF s
    <3>3. /\ IsList(s \o add) /\ Len(s \o add) = Len(s) + Len(add)
          /\ DOMAIN (s \o add) = 1 .. Len(s) + Len(add)
          /\ \A i \in 1 .. Len(s) : (s \o add)[i] = s[i]
          /\ \A i \in 1 .. Len(add) : (s \o add)[Len(s) + i] = add[i]
      BY <3>1, <3>2, ListJoin
    <3> QED
      BY <3>2, <3>3, Zenon DEF s
  <2>3. Len(Tail(lqueue)) = Len(lqueue) - 1 /\ Len(add) = Len(new)
    BY <1>3, <1>14
  <2>4. \A i \in 1 .. Len(lqueue) - 1 : lqueue'[i] = lqueue[i + 1]
    BY <1>3, <2>2, <2>3
  <2> QED
    BY <2>2, <2>3, <2>4
<1> HIDE DEF at
<1>16. \A i \in DOMAIN lqueue' :
          \/ i \in 1 .. Len(lqueue) - 1 /\ i + 1 \in DOMAIN lqueue /\ i + 1 # 1
                /\ lqueue'[i] = lqueue[i + 1]
          \/ \E k \in 1 .. Len(new) : i = Len(lqueue) - 1 + k /\ lqueue'[i].var = deps[new[k]]
  <2> SUFFICES ASSUME NEW i \in DOMAIN lqueue'
               PROVE  \/ i \in 1 .. Len(lqueue) - 1 /\ i + 1 \in DOMAIN lqueue /\ i + 1 # 1
                           /\ lqueue'[i] = lqueue[i + 1]
                      \/ \E k \in 1 .. Len(new) :
                            i = Len(lqueue) - 1 + k /\ lqueue'[i].var = deps[new[k]]
    OBVIOUS
  <2>1. CASE i <= Len(lqueue) - 1
    BY <1>3, <1>15, <2>1
  <2>2. CASE i > Len(lqueue) - 1
    <3>1. i - (Len(lqueue) - 1) \in 1 .. Len(new)
          /\ i = Len(lqueue) - 1 + (i - (Len(lqueue) - 1))
      BY <1>3, <1>10, <1>15, <2>2
    <3> QED
      BY <1>14, <1>15, <3>1
  <2>3. i <= Len(lqueue) - 1 \/ i > Len(lqueue) - 1
    BY <1>3, <1>10, <1>15
  <2> QED
    BY <2>1, <2>2, <2>3, Zenon
<1>17. Waiting' = (Waiting \ {at.var}) \cup N
  <2>1. ASSUME NEW i \in DOMAIN lqueue' PROVE lqueue'[i].var \in (Waiting \ {at.var}) \cup N
    BY <1>3, <1>16 DEF Waiting, LInv, Distinct
  <2>2. ASSUME NEW x \in Waiting \ {at.var} PROVE \E i \in DOMAIN lqueue' : lqueue'[i].var = x
    <3>1. PICK j \in DOMAIN lqueue : x = lqueue[j].var
      BY DEF Waiting
    <3>2. j # 1
      BY <1>3, <3>1
    <3>3. j - 1 \in 1 .. Len(lqueue) - 1 /\ (j - 1) + 1 = j
      BY <1>3, <3>1, <3>2
    <3>4. lqueue'[j - 1] = lqueue[j] /\ j - 1 \in DOMAIN lqueue'
      BY <1>10, <1>15, <3>3
    <3> QED
      BY <3>1, <3>4
  <2>3. ASSUME NEW x \in N PROVE \E i \in DOMAIN lqueue' : lqueue'[i].var = x
    <3>1. PICK k \in 1 .. Len(new) : x = deps[new[k]]
      OBVIOUS
    <3>2. lqueue'[Len(lqueue) - 1 + k].var = x
      BY <1>14, <1>15, <3>1
    <3>3. Len(lqueue) - 1 + k \in DOMAIN lqueue'
      BY <1>3, <1>10, <1>15
    <3> QED
      BY <3>2, <3>3
  <2> HIDE DEF N
  <2> QED
    BY <2>1, <2>2, <2>3 DEF Waiting
<1>18. Distinct(lqueue')
  <2> SUFFICES ASSUME NEW i \in DOMAIN lqueue', NEW j \in DOMAIN lqueue',
                      lqueue'[i].var = lqueue'[j].var
               PROVE  i = j
    BY DEF Distinct
  <2>1. \A k \in DOMAIN lqueue : lqueue[k].var \in lseen
    BY DEF LInv, Waiting
  <2>2. \A k \in 1 .. Len(new) : deps[new[k]] \notin lseen
    BY <1>10
  <2>3. CASE i \in 1 .. Len(lqueue) - 1 /\ lqueue'[i] = lqueue[i + 1] /\ i + 1 \in DOMAIN lqueue
    <3>1. j \in 1 .. Len(lqueue) - 1 /\ lqueue'[j] = lqueue[j + 1] /\ j + 1 \in DOMAIN lqueue
      BY <1>16, <2>1, <2>2, <2>3
    <3>2. i + 1 = j + 1
      BY <2>3, <3>1 DEF LInv, Distinct
    <3> QED
      BY <1>3, <2>3, <3>1, <3>2
  <2>4. ASSUME NEW k \in 1 .. Len(new), i = Len(lqueue) - 1 + k, lqueue'[i].var = deps[new[k]]
        PROVE  i = j
    <3>1. PICK l \in 1 .. Len(new) : j = Len(lqueue) - 1 + l /\ lqueue'[j].var = deps[new[l]]
      BY <1>16, <2>1, <2>2, <2>4
    <3>2. k = l
      BY <1>10, <2>4, <3>1
    <3> QED
      BY <2>4, <3>1, <3>2
  <2> QED
    BY <1>16, <2>3, <2>4
<1>19. /\ IsList(lnodes') /\ DOMAIN lnodes' = 1 .. Len(lnodes) + 1 /\ Len(lnodes) \in Nat
       /\ DOMAIN lnodes = 1 .. Len(lnodes)
       /\ \A i \in 1 .. Len(lnodes) : lnodes'[i] = lnodes[i]
       /\ lnodes'[Len(lnodes) + 1] = node
  <2>1. lnodes' = Append(lnodes, node)
    BY <1>1
  <2> HIDE DEF node
  <2> QED
    BY <2>1, ListAppend, ListShape DEF LInv
<1>20. node.var = at.var /\ node.boundary = lvars[at.var].boundary /\ node.inputs = edges
  OBVIOUS
<1> HIDE DEF node
<1>21. \A i \in DOMAIN lnodes' :
          \/ i \in DOMAIN lnodes /\ lnodes'[i] = lnodes[i]
          \/ i = Len(lnodes) + 1 /\ lnodes'[i] = node
  BY <1>19
<1>22. Walked' = Walked \cup {at.var}
  <2>1. ASSUME NEW i \in DOMAIN lnodes' PROVE lnodes'[i].var \in Walked \cup {at.var}
    BY <1>20, <1>21 DEF Walked
  <2>2. ASSUME NEW x \in Walked PROVE \E i \in DOMAIN lnodes' : lnodes'[i].var = x
    BY <1>19 DEF Walked
  <2>3. \E i \in DOMAIN lnodes' : lnodes'[i].var = at.var
    BY <1>19, <1>20
  <2> QED
    BY <2>1, <2>2, <2>3 DEF Walked
<1>23. Distinct(lnodes')
  <2>1. \A i \in DOMAIN lnodes : lnodes[i].var # at.var
    BY <1>4 DEF Walked
  <2> QED
    BY <1>20, <1>21, <2>1 DEF Distinct, LInv
<1>24. lseen' = Walked' \cup Waiting' /\ Walked' \cap Waiting' = {}
  <2> HIDE DEF N
  <2> QED
    BY <1>4, <1>11, <1>17, <1>22 DEF LInv
<1>25. ASSUME NEW i \in DOMAIN lnodes'
       PROVE  Faithful(lnodes'[i], lvars', ~lcut') /\ Followable(lnodes'[i], lseen')
  <2>1. CASE i \in DOMAIN lnodes /\ lnodes'[i] = lnodes[i]
    <3>1. Faithful(lnodes[i], lvars, ~lcut) /\ Followable(lnodes[i], lseen)
      BY <2>1 DEF LInv
    <3>2. ~lcut' => ~lcut
      BY <1>1
    <3> QED
      BY <1>2, <1>11, <2>1, <3>1, <3>2 DEF Faithful, Followable
  <2>2. CASE lnodes'[i] = node
    <3>1. Followable(node, lseen')
      <4>1. ASSUME NEW k \in 1 .. Len(deps), edges[k].stop = "none" PROVE edges[k].var \in lseen'
        <5>1. StopReason(at, deps, k) = "none"
          BY <1>9, <4>1
        <5>2. deps[k] \in lseen \cup {deps[j] : j \in T}
          BY <5>1 DEF StopReason, T
        <5>3. edges[k].var = deps[k]
          BY <1>6, <1>9
        <5> QED
          BY <1>1, <5>2, <5>3
      <4> QED
        BY <1>9, <1>20, <4>1 DEF Followable
    <3>2. ~lcut' => Len(deps) = Len(all)
      <4>1. ~lcut' => ~Cut(edges, all)
        BY <1>1
      <4>2. ~lcut' => ~(Len(edges) < Len(all))
        BY <4>1 DEF Cut
      <4>3. Len(all) \in Nat /\ Len(deps) \in Nat
        BY <1>5, <1>6, <1>7
      <4> QED
        BY <1>6, <1>9, <4>2, <4>3
    <3>3. DOMAIN all = 1 .. Len(all)
      BY <1>5
    <3>4. all = lvars[at.var].deps
      BY DEF all
    <3>5. Faithful(node, lvars, ~lcut')
      <4>1. node.var \in DOMAIN lvars /\ node.boundary = lvars[node.var].boundary /\ IsList(node.inputs)
        BY <1>4, <1>9, <1>20
      <4>2. ~lcut' => /\ DOMAIN node.inputs = DOMAIN lvars[node.var].deps
                      /\ \A k \in DOMAIN node.inputs : node.inputs[k].var = lvars[node.var].deps[k]
        BY <1>9, <1>20, <3>2, <3>3, <3>4
      <4> QED
        BY <4>1, <4>2 DEF Faithful
    <3> QED
      BY <1>2, <2>2, <3>1, <3>5
  <2> QED
    BY <1>21, <2>1, <2>2
<1>26. \A v \in DOMAIN lvars' : lvars'[v].deps \in Seq(Nat)
  BY <1>2 DEF LInv
<1>27. lmax'.nodes \in Nat
  BY <1>2 DEF LInv
<1> QED
  BY <1>8, <1>13, <1>15, <1>18, <1>19, <1>23, <1>24, <1>25, <1>26, <1>27 DEF LInv

---------------------------------------------------------------------------
(* The tree of contexts                                                    *)

\* Chain, of any list of contexts.
Up(cs, c) ==
  LET up[d \in 0 .. Len(cs)] == IF d = 0 THEN {} ELSE {d} \cup up[cs[d].caller]
  IN  up[c]

\* Every context was opened by an earlier one.
Rising(cs) == IsList(cs) /\ \A d \in DOMAIN cs : cs[d].caller \in 0 .. d - 1

\* The walk to the root ends: it satisfies its equation, since a smallest context
\* for which it did not would be opened by one for which it does.
LEMMA UpIs ==
  ASSUME NEW cs, Rising(cs)
  PROVE  /\ Up(cs, 0) = {}
         /\ \A d \in DOMAIN cs : Up(cs, d) = {d} \cup Up(cs, cs[d].caller)
<1> DEFINE n == Len(cs)
           Solves(f, m) == f = [d \in 0 .. m |-> IF d = 0 THEN {} ELSE {d} \cup f[cs[d].caller]]
           Bad == {m \in 0 .. n : ~\E f : Solves(f, m)}
<1>0. n \in Nat /\ DOMAIN cs = 1 .. n /\ \A d \in 1 .. n : cs[d].caller \in 0 .. d - 1
  BY ListShape DEF Rising
<1> HIDE DEF n
<1>1. Bad = {}
  <2> SUFFICES ASSUME Bad # {} PROVE FALSE
    OBVIOUS
  <2>1. Bad \in SUBSET Nat
    BY <1>0
  <2>2. PICK m \in Bad : \A j \in Bad : m <= j
    BY <2>1, Least
  <2>3. m \in 0 .. n /\ m \in Nat /\ ~\E f : Solves(f, m)
    BY <1>0, <2>2
  <2>4. CASE m = 0
    <3> DEFINE g == [d \in 0 .. 0 |-> {}]
    <3>1. Solves(g, 0)
      OBVIOUS
    <3> QED
      BY <2>3, <2>4, <3>1
  <2>5. CASE m # 0
    <3>1. m - 1 \in 0 .. n /\ m - 1 \notin Bad
      <4>1. m - 1 \in 0 .. n /\ ~(m <= m - 1)
        BY <1>0, <2>3, <2>5
      <4>2. m - 1 \notin Bad
        BY <2>2, <4>1, Zenon
      <4> QED
        BY <4>1, <4>2
    <3>2. PICK f : Solves(f, m - 1)
      BY <3>1
    <3> DEFINE g == [d \in 0 .. m |-> IF d = m THEN {m} \cup f[cs[m].caller] ELSE f[d]]
    <3>3. ASSUME NEW d \in 0 .. m PROVE g[d] = IF d = 0 THEN {} ELSE {d} \cup g[cs[d].caller]
      <4>1. CASE d = m
        <5>1. cs[m].caller \in 0 .. m /\ cs[m].caller # m
          BY <1>0, <2>3, <2>5
        <5>2. g[cs[m].caller] = f[cs[m].caller]
          BY <5>1
        <5>3. g[m] = {m} \cup f[cs[m].caller]
          BY <2>3
        <5> QED
          BY <2>5, <4>1, <5>2, <5>3
      <4>2. CASE d # m
        <5>1. d \in 0 .. m - 1
          BY <2>3, <4>2
        <5>2. g[d] = f[d] /\ f[d] = IF d = 0 THEN {} ELSE {d} \cup f[cs[d].caller]
          BY <3>2, <4>2, <5>1
        <5>3. CASE d = 0
          BY <5>2, <5>3
        <5>4. CASE d # 0
          <6>1. cs[d].caller \in 0 .. m /\ cs[d].caller # m
            BY <1>0, <2>3, <5>1, <5>4
          <6>2. g[cs[d].caller] = f[cs[d].caller]
            BY <6>1
          <6> QED
            BY <5>2, <5>4, <6>2
        <5> QED
          BY <5>3, <5>4
      <4> QED
        BY <4>1, <4>2
    <3>4. Solves(g, m)
      <4> DEFINE h == [d \in 0 .. m |-> IF d = 0 THEN {} ELSE {d} \cup g[cs[d].caller]]
      <4>1. g = [d \in 0 .. m |-> g[d]]
        OBVIOUS
      <4> HIDE DEF g
      <4>2. \A d \in 0 .. m : g[d] = h[d]
        BY <3>3
      <4>3. g = h
        BY <4>1, <4>2
      <4> QED
        BY <4>3
    <3> QED
      BY <2>3, <3>4
  <2> QED
    BY <2>4, <2>5
<1>2. n \in 0 .. n
  BY <1>0
<1>3. \E f : Solves(f, n)
  BY <1>1, <1>2
<1> DEFINE up == CHOOSE f : Solves(f, n)
<1>4. Solves(up, n)
  BY <1>3, Zenon
<1>5. \A c : Up(cs, c) = up[c]
  BY Zenon DEF Up, n
<1> HIDE DEF up
<1>6. up[0] = {}
  BY <1>0, <1>4
<1>7. ASSUME NEW d \in 1 .. n PROVE up[d] = {d} \cup up[cs[d].caller]
  BY <1>0, <1>4
<1> QED
  BY <1>0, <1>5, <1>6, <1>7

\* A later list of contexts agrees with an earlier one.
Grown(cs, new) ==
  /\ IsList(cs) /\ IsList(new) /\ Len(cs) <= Len(new)
  /\ \A c \in DOMAIN cs : c \in DOMAIN new /\ new[c] = cs[c]

\* What was above a context stays above it, and is in the list.
LEMMA UpStays ==
  ASSUME NEW cs, NEW new, Rising(cs), Rising(new), Grown(cs, new)
  PROVE  \A c \in 0 .. Len(cs) : Up(new, c) = Up(cs, c) /\ Up(cs, c) \subseteq DOMAIN cs
<1> DEFINE Good(c) == Up(new, c) = Up(cs, c) /\ Up(cs, c) \subseteq DOMAIN cs
           Bad == {c \in 0 .. Len(cs) : ~Good(c)}
<1>0. Len(cs) \in Nat /\ DOMAIN cs = 1 .. Len(cs)
  BY ListShape DEF Rising
<1> SUFFICES ASSUME Bad # {} PROVE FALSE
  OBVIOUS
<1>1. Bad \in SUBSET Nat
  BY <1>0
<1>2. PICK m \in Bad : \A j \in Bad : m <= j
  BY <1>1, Least
<1>3. m \in 0 .. Len(cs) /\ ~Good(m)
  BY <1>2
<1>4. CASE m = 0
  BY <1>3, <1>4, UpIs
<1>5. CASE m # 0
  <2>1. m \in DOMAIN cs /\ m \in DOMAIN new /\ new[m] = cs[m] /\ m \in Nat
    BY <1>0, <1>3, <1>5 DEF Grown
  <2>2. cs[m].caller \in 0 .. m - 1
    BY <2>1 DEF Rising
  <2>3. cs[m].caller \in 0 .. Len(cs) /\ ~(m <= cs[m].caller)
    BY <1>0, <1>3, <2>1, <2>2
  <2>4. Good(cs[m].caller)
    BY <1>2, <2>3
  <2>5. Up(cs, m) = {m} \cup Up(cs, cs[m].caller) /\ Up(new, m) = {m} \cup Up(new, new[m].caller)
    BY <2>1, UpIs
  <2>6. Good(m)
    BY <2>1, <2>4, <2>5
  <2> QED
    BY <1>3, <2>6
<1> QED
  BY <1>4, <1>5

\* The contexts of a slice: none calls what is above it, and each has its
\* arguments in the context that opened it.
Tree(cs, p, l) ==
  /\ Rising(cs) /\ Len(cs) \in 1 .. l.nodes
  /\ \A c \in DOMAIN cs :
        /\ cs[c].fn \in DOMAIN p /\ cs[c].depth \in 0 .. l.callDepth
        /\ c # 1 => /\ cs[c].caller # 0
                    /\ ToSet(cs[c].args) \subseteq DOMAIN p[cs[cs[c].caller].fn].vars
        /\ \A d \in Up(cs, c) \ {c} : cs[d].fn # cs[c].fn

LEMMA ChainIs == \A c : Chain(c) = Up(contexts, c)
BY Zenon DEF Chain, Up

\* A context that may be opened from context c.
Opens(one, c, cs, p, l) ==
  /\ c \in DOMAIN cs /\ one.caller = c /\ one.fn \in DOMAIN p
  /\ one.depth = cs[c].depth + 1 /\ one.depth <= l.callDepth /\ Len(cs) < l.nodes
  /\ \A d \in Up(cs, c) : cs[d].fn # one.fn
  /\ ToSet(one.args) \subseteq DOMAIN p[cs[c].fn].vars

\* A call that is entered adds a context to the tree.
LEMMA TreeGrows ==
  ASSUME NEW cs, NEW p, NEW l \in LimitSets, Tree(cs, p, l), NEW one, NEW c,
         Opens(one, c, cs, p, l), NEW new, new = Append(cs, one)
  PROVE  Tree(new, p, l) /\ Grown(cs, new)
<1> DEFINE n == Len(cs) + 1
<1>1. l.nodes \in Nat /\ l.callDepth \in Nat
  BY InterproceduralAssumption
<1>2. IsList(cs) /\ Len(cs) \in Nat /\ DOMAIN cs = 1 .. Len(cs)
  BY ListShape DEF Tree, Rising
<1>3. /\ c \in DOMAIN cs /\ one.caller = c /\ one.fn \in DOMAIN p
      /\ one.depth = cs[c].depth + 1 /\ one.depth <= l.callDepth /\ Len(cs) < l.nodes
  BY DEF Opens
<1>4. /\ \A d \in Up(cs, c) : cs[d].fn # one.fn
      /\ ToSet(one.args) \subseteq DOMAIN p[cs[c].fn].vars
  BY DEF Opens
<1>5. /\ IsList(new) /\ Len(new) = n /\ DOMAIN new = 1 .. n
      /\ \A i \in 1 .. Len(cs) : new[i] = cs[i]
      /\ new[n] = one
  BY <1>2, ListAppend
<1>6. Grown(cs, new)
  BY <1>2, <1>5 DEF Grown
<1>7. Rising(new)
  <2>1. \A d \in DOMAIN cs : cs[d].caller \in 0 .. d - 1
    BY DEF Tree, Rising
  <2>2. ASSUME NEW d \in DOMAIN new PROVE new[d].caller \in 0 .. d - 1
    <3>1. CASE d \in DOMAIN cs
      BY <1>2, <1>5, <2>1, <3>1
    <3>2. CASE d = n
      BY <1>2, <1>3, <1>5, <3>2
    <3> QED
      BY <1>2, <1>5, <3>1, <3>2
  <2> QED
    BY <1>5, <2>2 DEF Rising
<1>8. \A d \in 0 .. Len(cs) : Up(new, d) = Up(cs, d) /\ Up(cs, d) \subseteq DOMAIN cs
  BY <1>6, <1>7, UpStays DEF Tree
<1>9. Up(new, n) = {n} \cup Up(cs, c)
  <2>1. Up(new, n) = {n} \cup Up(new, c)
    <3>1. \A d \in DOMAIN new : Up(new, d) = {d} \cup Up(new, new[d].caller)
      BY <1>7, UpIs
    <3>2. n \in DOMAIN new /\ new[n].caller = c
      BY <1>2, <1>3, <1>5
    <3> QED
      BY <3>1, <3>2, Zenon
  <2>2. c \in 0 .. Len(cs)
    BY <1>2, <1>3
  <2> QED
    BY <1>8, <2>1, <2>2
<1>10. Len(new) \in 1 .. l.nodes
  BY <1>1, <1>2, <1>3, <1>5
<1>11. ASSUME NEW d \in DOMAIN new
       PROVE  /\ new[d].fn \in DOMAIN p /\ new[d].depth \in 0 .. l.callDepth
              /\ d # 1 => /\ new[d].caller # 0
                          /\ ToSet(new[d].args) \subseteq DOMAIN p[new[new[d].caller].fn].vars
              /\ \A e \in Up(new, d) \ {d} : new[e].fn # new[d].fn
  <2>1. CASE d \in DOMAIN cs
    <3>1. /\ cs[d].fn \in DOMAIN p /\ cs[d].depth \in 0 .. l.callDepth
          /\ d # 1 => /\ cs[d].caller # 0
                      /\ ToSet(cs[d].args) \subseteq DOMAIN p[cs[cs[d].caller].fn].vars
          /\ \A e \in Up(cs, d) \ {d} : cs[e].fn # cs[d].fn
          /\ cs[d].caller \in 0 .. d - 1
      BY <2>1 DEF Tree, Rising
    <3>2. new[d] = cs[d] /\ d \in 0 .. Len(cs)
      BY <1>2, <1>5, <2>1
    <3>3. d # 1 => cs[d].caller \in DOMAIN cs /\ new[cs[d].caller] = cs[cs[d].caller]
      BY <1>2, <1>5, <2>1, <3>1
    <3>4. Up(new, d) = Up(cs, d) /\ Up(cs, d) \subseteq DOMAIN cs
      BY <1>8, <3>2
    <3>5. \A e \in Up(new, d) \ {d} : new[e].fn # new[d].fn
      BY <1>2, <1>5, <3>1, <3>2, <3>4
    <3> QED
      BY <3>1, <3>2, <3>3, <3>5
  <2>2. CASE d = n
    <3>1. new[d] = one /\ new[c] = cs[c] /\ cs[c].depth \in 0 .. l.callDepth
      BY <1>2, <1>3, <1>5, <2>2 DEF Tree
    <3>2. new[d].depth \in 0 .. l.callDepth
      BY <1>1, <1>3, <3>1
    <3>3. c # 0
      BY <1>2, <1>3
    <3>4. Up(cs, c) \subseteq DOMAIN cs
      BY <1>2, <1>3, <1>8
    <3>5. \A e \in Up(new, d) \ {d} : new[e].fn # new[d].fn
      BY <1>2, <1>4, <1>5, <1>9, <2>2, <3>1, <3>4
    <3> QED
      BY <1>3, <1>4, <3>1, <3>2, <3>3, <3>5
  <2>3. d \in DOMAIN cs \/ d = n
    BY <1>2, <1>5
  <2> QED
    BY <2>1, <2>2, <2>3, Zenon
<1>12. Tree(new, p, l)
  BY <1>7, <1>10, <1>11 DEF Tree
<1> QED
  BY <1>2, <1>5, <1>6, <1>12

---------------------------------------------------------------------------
(* The slice across calls                                                  *)

\* A reference names a variable of the function its context is in.
InScope(ref, p, cs) ==
  ref.ctx \in DOMAIN cs /\ ref.var \in DOMAIN p[cs[ref.ctx].fn].vars

\* A node without a boundary names everything its value comes from.
Sound(n, p, cs) ==
  n.boundary = "none" =>
    LET var == p[cs[n.ref.ctx].fn].vars[n.ref.var] IN
    \/ /\ var.slot # 0 /\ n.ref.ctx # 1 /\ var.slot \in DOMAIN cs[n.ref.ctx].args
       /\ n.links = <<Ref(cs[n.ref.ctx].caller, cs[n.ref.ctx].args[var.slot])>>
    \/ /\ var.call \in DOMAIN p /\ p[var.call].returns # <<>>
       /\ \E c \in DOMAIN cs :
             /\ cs[c].fn = var.call /\ cs[c].caller = n.ref.ctx /\ cs[c].via = n.ref.var
             /\ n.links = [k \in DOMAIN p[var.call].returns |-> Ref(c, p[var.call].returns[k])]
    \/ /\ var.boundary = "none" /\ var.slot = 0 /\ DOMAIN n.inputs = DOMAIN var.deps
       /\ \A k \in DOMAIN n.inputs : n.inputs[k].var = var.deps[k]

Scoped ==
  /\ code \in Binaries /\ limits \in LimitSets
  /\ IsList(jobs) /\ IsList(pending) /\ IsList(nodes)
  /\ \A j \in DOMAIN jobs : InScope(jobs[j].ref, code, contexts)
  /\ here.ctx \in DOMAIN contexts

Bounded ==
  /\ Len(nodes) <= limits.nodes /\ work \in 0 .. limits.work /\ inputsUsed \in 0 .. MaxInputs
  /\ IsFiniteSet(functions) /\ Cardinality(functions) <= limits.functions

\* A local slice has room for what is still to come, and is of the function of
\* the context worked on.
Staged ==
  /\ phase = "local" => /\ lvars = code[contexts[here.ctx].fn].vars
                        /\ lmax.nodes = limits.nodes - Len(nodes)
  /\ phase = "nodes" =>
        /\ Len(nodes) + Len(pending) <= limits.nodes
        /\ \A i \in DOMAIN pending :
              Faithful(pending[i], code[contexts[here.ctx].fn].vars, ~cutShort)

\* The root is in the slice or on its way into it.
RootKept ==
  \/ Ref(1, 1) \in Included
  \/ phase # "finish" /\ \E j \in DOMAIN jobs : jobs[j].ref = Ref(1, 1)
  \/ phase = "local" /\ here.ctx = 1 /\ 1 \in lseen
  \/ phase = "nodes" /\ here.ctx = 1 /\ \E i \in DOMAIN pending : pending[i].var = 1

\* As long as nothing was cut short, nothing is missing.
NothingMissing ==
  phase # "done" /\ ~cutShort =>
    /\ \A i \in DOMAIN nodes :
          InScope(nodes[i].ref, code, contexts) /\ Sound(nodes[i], code, contexts)
    /\ visited \subseteq Included
    /\ RootKept

\* What EdgesHonest and CompleteClosed say of the result.
ResultHonest ==
  \A i \in DOMAIN nodes :
    /\ \A k \in DOMAIN nodes[i].inputs : nodes[i].inputs[k].stop = "none" =>
          Ref(nodes[i].ref.ctx, nodes[i].inputs[k].var) \in Included
    /\ \A k \in DOMAIN nodes[i].links : nodes[i].links[k].stop = "none" =>
          nodes[i].links[k].ref \in Included

ClosedAt(r, p, cs, S) ==
  LET var == p[cs[r.ctx].fn].vars[r.var] IN
  \/ /\ var.slot # 0 /\ r.ctx # 1
     /\ var.slot \in DOMAIN cs[r.ctx].args
     /\ Ref(cs[r.ctx].caller, cs[r.ctx].args[var.slot]) \in S
  \/ /\ var.call \in DOMAIN p
     /\ \E c \in DOMAIN cs :
           /\ cs[c].fn = var.call
           /\ cs[c].caller = r.ctx /\ cs[c].via = r.var
           /\ ToSet(p[var.call].returns) # {}
           /\ \A v \in ToSet(p[var.call].returns) : Ref(c, v) \in S
  \/ /\ var.boundary = "none" /\ var.slot = 0
     /\ \A v \in ToSet(var.deps) : Ref(r.ctx, v) \in S

Resulting ==
  phase = "done" =>
    /\ ResultHonest
    /\ complete => /\ Ref(1, 1) \in Included
                   /\ \A r \in Included : ClosedAt(r, code, contexts, Included)

SInv ==
  /\ LInv /\ Scoped /\ Tree(contexts, code, limits) /\ Bounded /\ Staged
  /\ NothingMissing /\ Resulting

\* What the assumption says of one function.
LEMMA Typed ==
  ASSUME NEW p \in Binaries, NEW f \in DOMAIN p
  PROVE  /\ Len(p[f].vars) \in Nat
         /\ \A v \in DOMAIN p[f].vars :
               /\ p[f].vars[v].deps \in Seq(Nat)
               /\ ToSet(p[f].vars[v].args) \subseteq DOMAIN p[f].vars
               /\ p[f].vars[v].slot # 0 => p[f].vars[v].boundary # "none"
               /\ p[f].vars[v].boundary = "unmodeled_call" =>
                     p[f].vars[v].call \in DOMAIN p \cup {"import", "unknown", "err"}
         /\ p[f].returns \in Seq(DOMAIN p[f].vars)
<1> DEFINE V == [deps : Seq(Nat), boundary : STRING, slot : Nat, call : STRING, args : Seq(Nat)]
<1>1. /\ p[f].vars \in Seq(V) /\ p[f].returns \in Seq(DOMAIN p[f].vars)
      /\ \A v \in DOMAIN p[f].vars :
            /\ ToSet(p[f].vars[v].args) \subseteq DOMAIN p[f].vars
            /\ p[f].vars[v].slot # 0 => p[f].vars[v].boundary # "none"
            /\ p[f].vars[v].boundary = "unmodeled_call" =>
                  p[f].vars[v].call \in DOMAIN p \cup {"import", "unknown", "err"}
  BY InterproceduralAssumption, Zenon
<1>2. \A x \in V : x.deps \in Seq(Nat)
  OBVIOUS
<1> HIDE DEF V
<1>3. Len(p[f].vars) \in Nat /\ \A v \in DOMAIN p[f].vars : p[f].vars[v] \in V
  BY <1>1
<1>4. \A v \in DOMAIN p[f].vars : p[f].vars[v].deps \in Seq(Nat)
  BY <1>2, <1>3
<1> QED
  BY <1>1, <1>3, <1>4

LEMMA LimitsAre ==
  ASSUME NEW l \in LimitSets
  PROVE  /\ l.nodes \in Nat \ {0} /\ l.functions \in Nat \ {0} /\ l.depth \in Nat
         /\ l.callDepth \in Nat /\ l.work \in Nat
BY InterproceduralAssumption

\* Contexts that are added disturb no node.
LEMMA ScopeStays ==
  ASSUME NEW cs, NEW new, NEW p, Grown(cs, new), NEW ref, InScope(ref, p, cs)
  PROVE  InScope(ref, p, new) /\ new[ref.ctx] = cs[ref.ctx]
BY DEF InScope, Grown

LEMMA SoundStays ==
  ASSUME NEW cs, NEW new, NEW p, Grown(cs, new), NEW n, InScope(n.ref, p, cs), Sound(n, p, cs)
  PROVE  Sound(n, p, new)
<1>1. new[n.ref.ctx] = cs[n.ref.ctx]
  BY ScopeStays
<1>2. \A c \in DOMAIN cs : c \in DOMAIN new /\ new[c] = cs[c]
  BY DEF Grown
<1> SUFFICES ASSUME n.boundary = "none" PROVE Sound(n, p, new)
  BY Zenon DEF Sound
<1> DEFINE var == p[cs[n.ref.ctx].fn].vars[n.ref.var]
<1>3. var = p[new[n.ref.ctx].fn].vars[n.ref.var]
  BY <1>1
<1>4. CASE /\ var.slot # 0 /\ n.ref.ctx # 1 /\ var.slot \in DOMAIN cs[n.ref.ctx].args
           /\ n.links = <<Ref(cs[n.ref.ctx].caller, cs[n.ref.ctx].args[var.slot])>>
  BY <1>1, <1>4, Zenon DEF Sound
<1>5. CASE /\ var.call \in DOMAIN p /\ p[var.call].returns # <<>>
           /\ \E c \in DOMAIN cs :
                 /\ cs[c].fn = var.call /\ cs[c].caller = n.ref.ctx /\ cs[c].via = n.ref.var
                 /\ n.links = [k \in DOMAIN p[var.call].returns |-> Ref(c, p[var.call].returns[k])]
  <2> HIDE DEF var
  <2>1. PICK c \in DOMAIN cs :
                 /\ cs[c].fn = var.call /\ cs[c].caller = n.ref.ctx /\ cs[c].via = n.ref.var
                 /\ n.links = [k \in DOMAIN p[var.call].returns |-> Ref(c, p[var.call].returns[k])]
    BY <1>5
  <2>2. c \in DOMAIN new /\ new[c] = cs[c]
    BY <1>2
  <2>3. /\ var.call \in DOMAIN p /\ p[var.call].returns # <<>>
        /\ \E e \in DOMAIN new :
                 /\ new[e].fn = var.call /\ new[e].caller = n.ref.ctx /\ new[e].via = n.ref.var
                 /\ n.links = [k \in DOMAIN p[var.call].returns |-> Ref(e, p[var.call].returns[k])]
    BY <1>5, <2>1, <2>2
  <2> QED
    BY <1>3, <2>3, Zenon DEF Sound
<1>6. CASE /\ var.boundary = "none" /\ var.slot = 0 /\ DOMAIN n.inputs = DOMAIN var.deps
           /\ \A k \in DOMAIN n.inputs : n.inputs[k].var = var.deps[k]
  BY <1>1, <1>6, Zenon DEF Sound
<1> QED
  BY <1>4, <1>5, <1>6, Zenon DEF Sound

LEMMA SInitial == IInit => SInv
<1> SUFFICES ASSUME IInit PROVE SInv
  OBVIOUS
<1>1. /\ code \in Binaries /\ limits \in LimitSets /\ phase = "jobs"
      /\ jobs = <<[ref |-> Ref(1, 1), depth |-> 0]>> /\ visited = {} /\ pending = <<>>
      /\ here = [ctx |-> 1, depth |-> 0] /\ nodes = <<>> /\ functions = {"f"} /\ work = 0
      /\ inputsUsed = 0 /\ cutShort = FALSE
      /\ contexts = <<[fn |-> "f", caller |-> 0, via |-> 0, depth |-> 0, args |-> <<>>]>>
  BY DEF IInit
<1>2. LInv
  BY LocalIdles DEF IInit
<1>3. \A x : IsList(<<x>>) /\ IsList(<<>>)
  <2>1. \A x : <<x>> \in Seq({x}) /\ <<>> \in Seq({})
    OBVIOUS
  <2> QED
    BY <2>1, Zenon DEF IsList
<1>4. /\ IsList(jobs) /\ IsList(pending) /\ IsList(nodes) /\ IsList(contexts)
      /\ DOMAIN contexts = {1} /\ Len(contexts) = 1 /\ DOMAIN jobs = {1}
      /\ jobs[1].ref = Ref(1, 1) /\ DOMAIN nodes = {} /\ Len(nodes) = 0
  BY <1>1, <1>3
<1>5. contexts[1] = [fn |-> "f", caller |-> 0, via |-> 0, depth |-> 0, args |-> <<>>]
  BY <1>1
<1>6. "f" \in DOMAIN code /\ 1 \in DOMAIN code["f"].vars
  BY <1>1, InterproceduralAssumption
<1>7. InScope(jobs[1].ref, code, contexts)
  BY <1>4, <1>5, <1>6 DEF InScope, Ref
<1>8. Scoped
  BY <1>1, <1>4, <1>7 DEF Scoped
<1>9. /\ limits.nodes \in Nat \ {0} /\ limits.functions \in Nat \ {0} /\ limits.depth \in Nat
      /\ limits.callDepth \in Nat /\ limits.work \in Nat
  BY <1>1, LimitsAre
<1>10. Rising(contexts)
  BY <1>4, <1>5 DEF Rising
<1>11. Up(contexts, 1) = {1}
  BY <1>4, <1>5, <1>10, UpIs
<1>12. Tree(contexts, code, limits)
  BY <1>4, <1>5, <1>6, <1>9, <1>10, <1>11 DEF Tree
<1>13. Bounded
  <2>1. IsFiniteSet({"f"}) /\ Cardinality({"f"}) = 1
    BY FS_Singleton
  <2> QED
    BY <1>1, <1>4, <1>9, <2>1, BackwardSliceAssumption DEF Bounded
<1>14. Staged /\ Resulting
  BY <1>1 DEF Staged, Resulting
<1>15. NothingMissing
  BY <1>1, <1>4 DEF NothingMissing, RootKept
<1> QED
  BY <1>2, <1>8, <1>12, <1>13, <1>14, <1>15 DEF SInv

\* A step that only takes a job or a node off its list, or gives up.
Dropping ==
  /\ code' = code /\ limits' = limits /\ here' = here /\ contexts' = contexts /\ nodes' = nodes
  /\ functions' = functions /\ work' = work /\ inputsUsed' = inputsUsed /\ UNCHANGED localVars
  /\ jobs' = jobs \/ (jobs # <<>> /\ jobs' = Tail(jobs))
  /\ pending' = pending \/ pending' = <<>> \/ (pending # <<>> /\ pending' = Tail(pending))
  /\ phase # "done" /\ phase' # "done" /\ (cutShort => cutShort')
  /\ phase' = "local" => phase = "local"
  /\ phase' = "nodes" => phase = "nodes" /\ cutShort' = cutShort

LEMMA DroppingKeeps ==
  ASSUME SInv, Dropping, ~cutShort' => visited' \subseteq Included /\ RootKept'
  PROVE  SInv'
<1>1. /\ code' = code /\ limits' = limits /\ here' = here /\ contexts' = contexts /\ nodes' = nodes
      /\ functions' = functions /\ work' = work /\ inputsUsed' = inputsUsed
      /\ UNCHANGED localVars /\ Included' = Included
  BY DEF Dropping, Included
<1>2. LInv'
  BY <1>1, LocalSame DEF SInv
<1>3. IsList(jobs') /\ \A j \in DOMAIN jobs' : \E i \in DOMAIN jobs : jobs'[j] = jobs[i]
  <2>1. IsList(jobs) /\ (jobs' = jobs \/ (jobs # <<>> /\ jobs' = Tail(jobs)))
    BY DEF Dropping, SInv, Scoped
  <2>2. CASE jobs' = jobs
    BY <2>1, <2>2
  <2>3. CASE jobs # <<>> /\ jobs' = Tail(jobs)
    <3>1. /\ IsList(Tail(jobs)) /\ Len(jobs) \in Nat \ {0} /\ DOMAIN Tail(jobs) = 1 .. Len(jobs) - 1
          /\ \A i \in 1 .. Len(jobs) - 1 : Tail(jobs)[i] = jobs[i + 1]
      BY <2>1, <2>3, ListTail
    <3>2. DOMAIN jobs = 1 .. Len(jobs)
      BY <2>1, ListShape
    <3>3. \A i \in 1 .. Len(jobs) - 1 : i + 1 \in DOMAIN jobs
      BY <3>1, <3>2
    <3> QED
      BY <2>3, <3>1, <3>3
  <2> QED
    BY <2>1, <2>2, <2>3
<1>4. /\ IsList(pending') /\ Len(pending') <= Len(pending) /\ Len(pending) \in Nat
      /\ Len(pending') \in Nat
      /\ \A j \in DOMAIN pending' : \E i \in DOMAIN pending : pending'[j] = pending[i]
  <2>1. /\ IsList(pending)
        /\ pending' = pending \/ pending' = <<>> \/ (pending # <<>> /\ pending' = Tail(pending))
    BY DEF Dropping, SInv, Scoped
  <2>2. CASE pending' = pending
    BY <2>1, <2>2, ListShape
  <2>3. CASE pending' = <<>>
    <3>1. <<>> \in Seq({}) /\ Len(<<>>) = 0 /\ DOMAIN <<>> = {}
      OBVIOUS
    <3>2. IsList(<<>>)
      BY <3>1 DEF IsList
    <3>3. Len(pending) \in Nat
      BY <2>1, ListShape
    <3> QED
      BY <2>3, <3>1, <3>2, <3>3
  <2>4. CASE pending # <<>> /\ pending' = Tail(pending)
    <3>1. /\ IsList(Tail(pending)) /\ Len(pending) \in Nat \ {0} /\ Len(Tail(pending)) = Len(pending) - 1
          /\ DOMAIN Tail(pending) = 1 .. Len(pending) - 1
          /\ \A i \in 1 .. Len(pending) - 1 : Tail(pending)[i] = pending[i + 1]
      BY <2>1, <2>4, ListTail
    <3>2. DOMAIN pending = 1 .. Len(pending)
      BY <2>1, ListShape
    <3>3. \A i \in 1 .. Len(pending) - 1 : i + 1 \in DOMAIN pending
      BY <3>1, <3>2
    <3>4. Len(pending') <= Len(pending) /\ Len(pending') \in Nat
      BY <2>4, <3>1
    <3> QED
      BY <2>4, <3>1, <3>3, <3>4
  <2> QED
    BY <2>1, <2>2, <2>3, <2>4
<1>5. Scoped'
  <2>1. ASSUME NEW j \in DOMAIN jobs' PROVE InScope(jobs'[j].ref, code, contexts)
    BY <1>3 DEF SInv, Scoped
  <2> QED
    BY <1>1, <1>3, <1>4, <2>1 DEF SInv, Scoped
<1>6. Tree(contexts', code', limits') /\ Bounded'
  BY <1>1 DEF SInv, Bounded
<1>7. Staged'
  <2>1. lvars' = lvars /\ lmax' = lmax
    BY <1>1 DEF localVars
  <2>2. CASE phase' = "local"
    BY <1>1, <2>1, <2>2 DEF SInv, Staged, Dropping
  <2>3. CASE phase' = "nodes"
    <3>1. phase = "nodes" /\ cutShort' = cutShort
      BY <2>3 DEF Dropping
    <3>2. Len(nodes) + Len(pending) <= limits.nodes /\ Len(nodes) \in Nat /\ limits.nodes \in Nat
      BY <3>1, ListShape, LimitsAre DEF SInv, Staged, Scoped
    <3>3. Len(nodes') + Len(pending') <= limits'.nodes
      BY <1>1, <1>4, <3>2
    <3>4. ASSUME NEW j \in DOMAIN pending'
          PROVE  Faithful(pending'[j], code'[contexts'[here'.ctx].fn].vars, ~cutShort')
      BY <1>1, <1>4, <3>1 DEF SInv, Staged
    <3> QED
      BY <2>3, <3>3, <3>4 DEF Staged
  <2> QED
    BY <2>2, <2>3 DEF Staged
<1>8. NothingMissing'
  <2> SUFFICES ASSUME ~cutShort'
               PROVE  /\ \A i \in DOMAIN nodes' : /\ InScope(nodes'[i].ref, code', contexts')
                                                  /\ Sound(nodes'[i], code', contexts')
                      /\ visited' \subseteq Included' /\ RootKept'
    BY DEF NothingMissing
  <2>1. ~cutShort /\ phase # "done"
    BY DEF Dropping
  <2> QED
    BY <1>1, <2>1 DEF SInv, NothingMissing
<1>9. Resulting'
  BY DEF Dropping, Resulting
<1> QED
  BY <1>2, <1>5, <1>6, <1>7, <1>8, <1>9 DEF SInv

\* The root stays on its way when a list of the walk loses its first entry.
LEMMA FirstOff ==
  ASSUME NEW list, IsList(list), list # <<>>, NEW j \in DOMAIN list, list[j] # Head(list)
  PROVE  \E i \in DOMAIN Tail(list) : Tail(list)[i] = list[j]
<1>1. /\ Len(list) \in Nat \ {0} /\ DOMAIN Tail(list) = 1 .. Len(list) - 1
      /\ \A i \in 1 .. Len(list) - 1 : Tail(list)[i] = list[i + 1]
      /\ Head(list) = list[1] /\ DOMAIN list = 1 .. Len(list)
  BY ListTail, ListShape
<1>2. j # 1
  BY <1>1
<1>3. j - 1 \in 1 .. Len(list) - 1 /\ (j - 1) + 1 = j
  BY <1>1, <1>2
<1> QED
  BY <1>1, <1>3

LEMMA SkipJobKeeps == SInv /\ SkipJob => SInv'
<1> SUFFICES ASSUME SInv, SkipJob PROVE SInv'
  OBVIOUS
<1>1. /\ phase = "jobs" /\ jobs # <<>> /\ Head(jobs).ref \in visited /\ jobs' = Tail(jobs)
      /\ phase' = phase /\ visited' = visited /\ cutShort' = cutShort /\ nodes' = nodes
  BY DEF SkipJob
<1>2. Dropping
  BY DEF SkipJob, Dropping
<1>3. ASSUME ~cutShort' PROVE visited' \subseteq Included /\ RootKept'
  <2>1. visited \subseteq Included /\ RootKept
    BY <1>1, <1>3 DEF SInv, NothingMissing
  <2>2. Included' = Included
    BY <1>1 DEF Included
  <2>3. Ref(1, 1) \in Included \/ \E j \in DOMAIN jobs : jobs[j].ref = Ref(1, 1)
    BY <1>1, <2>1 DEF RootKept
  <2>4. CASE Ref(1, 1) \in Included
    BY <1>1, <2>1, <2>2, <2>4 DEF RootKept
  <2>5. ASSUME Ref(1, 1) \notin Included, NEW j \in DOMAIN jobs, jobs[j].ref = Ref(1, 1)
        PROVE  RootKept'
    <3>1. jobs[j] # Head(jobs)
      BY <1>1, <2>1, <2>5
    <3>2. IsList(jobs)
      BY DEF SInv, Scoped
    <3>3. \E i \in DOMAIN Tail(jobs) : Tail(jobs)[i] = jobs[j]
      BY <1>1, <3>1, <3>2, FirstOff
    <3> QED
      BY <1>1, <2>5, <3>3 DEF RootKept
  <2> QED
    BY <1>1, <2>1, <2>3, <2>4, <2>5
<1> QED
  BY <1>2, <1>3, DroppingKeeps

LEMMA CutKeeps == SInv /\ (RefuseJob \/ OutOfWork \/ DropNodes \/ BudgetStops) => SInv'
<1> SUFFICES ASSUME SInv, RefuseJob \/ OutOfWork \/ DropNodes \/ BudgetStops PROVE SInv'
  OBVIOUS
<1>1. Dropping /\ cutShort'
  <2>1. CASE RefuseJob
    BY <2>1 DEF RefuseJob, Dropping
  <2>2. CASE OutOfWork
    BY <2>2 DEF OutOfWork, Dropping
  <2>3. CASE DropNodes
    BY <2>3 DEF DropNodes, Dropping
  <2>4. CASE BudgetStops
    BY <2>4 DEF BudgetStops, Dropping
  <2> QED
    BY <2>1, <2>2, <2>3, <2>4
<1> QED
  BY <1>1, DroppingKeeps

LEMMA EndKeeps == SInv /\ (JobsEnd \/ NodesEnd) => SInv'
<1> SUFFICES ASSUME SInv, JobsEnd \/ NodesEnd PROVE SInv'
  OBVIOUS
<1>1. Dropping /\ visited' = visited /\ cutShort' = cutShort /\ nodes' = nodes /\ jobs' = jobs
  <2>1. CASE JobsEnd
    BY <2>1 DEF JobsEnd, Dropping
  <2>2. CASE NodesEnd
    BY <2>2 DEF NodesEnd, Dropping
  <2> QED
    BY <2>1, <2>2
<1>2. ASSUME ~cutShort' PROVE visited' \subseteq Included /\ RootKept'
  <2>1. visited \subseteq Included /\ RootKept
    BY <1>1, <1>2 DEF SInv, NothingMissing, Dropping
  <2>2. Included' = Included
    BY <1>1 DEF Included
  <2>3. CASE JobsEnd
    <3>1. phase = "jobs" /\ jobs = <<>> /\ DOMAIN jobs = {}
      BY <2>3 DEF JobsEnd
    <3> QED
      BY <1>1, <2>1, <2>2, <3>1 DEF RootKept
  <2>4. CASE NodesEnd
    <3>1. phase = "nodes" /\ phase' = "jobs" /\ pending = <<>> /\ DOMAIN pending = {}
      BY <2>4 DEF NodesEnd
    <3> QED
      BY <1>1, <2>1, <2>2, <3>1 DEF RootKept
  <2> QED
    BY <2>3, <2>4
<1> QED
  BY <1>1, <1>2, DroppingKeeps

LEMMA SkipNodeKeeps == SInv /\ SkipNode => SInv'
<1> SUFFICES ASSUME SInv, SkipNode PROVE SInv'
  OBVIOUS
<1>1. /\ phase = "nodes" /\ pending # <<>> /\ Ref(here.ctx, Head(pending).var) \in visited
      /\ pending' = Tail(pending) /\ phase' = phase /\ visited' = visited
      /\ cutShort' = cutShort /\ nodes' = nodes /\ jobs' = jobs /\ here' = here
  BY DEF SkipNode
<1>2. Dropping
  BY DEF SkipNode, Dropping
<1>3. ASSUME ~cutShort' PROVE visited' \subseteq Included /\ RootKept'
  <2>1. visited \subseteq Included /\ RootKept
    BY <1>1, <1>3 DEF SInv, NothingMissing
  <2>2. Included' = Included
    BY <1>1 DEF Included
  <2>3. CASE Ref(1, 1) \in Included \/ \E j \in DOMAIN jobs : jobs[j].ref = Ref(1, 1)
    BY <1>1, <2>1, <2>2, <2>3 DEF RootKept
  <2>4. ASSUME Ref(1, 1) \notin Included, here.ctx = 1, NEW j \in DOMAIN pending, pending[j].var = 1
        PROVE  RootKept'
    <3>1. pending[j] # Head(pending)
      BY <1>1, <2>1, <2>4
    <3>2. IsList(pending)
      BY DEF SInv, Scoped
    <3>3. \E i \in DOMAIN Tail(pending) : Tail(pending)[i] = pending[j]
      BY <1>1, <3>1, <3>2, FirstOff
    <3> QED
      BY <1>1, <2>4, <3>3 DEF RootKept
  <2> QED
    BY <1>1, <2>1, <2>3, <2>4 DEF RootKept
<1> QED
  BY <1>2, <1>3, DroppingKeeps

LEMMA StartJobKeeps == SInv /\ StartJob => SInv'
<1> SUFFICES ASSUME SInv, StartJob PROVE SInv'
  OBVIOUS
<1> DEFINE job == Head(jobs)
           max == [nodes |-> limits.nodes - Len(nodes), depth |-> limits.depth - job.depth]
<1>1. /\ phase = "jobs" /\ jobs # <<>> /\ job.ref \notin visited /\ Len(nodes) < limits.nodes
      /\ Affordable(ScanWork(Fn(job.ref.ctx))) /\ work' = work + ScanWork(Fn(job.ref.ctx))
      /\ here' = [ctx |-> job.ref.ctx, depth |-> job.depth]
      /\ LocalStart(code[Fn(job.ref.ctx)].vars, job.ref.var, max)
      /\ jobs' = Tail(jobs) /\ phase' = "local" /\ code' = code /\ limits' = limits
      /\ visited' = visited /\ pending' = pending /\ contexts' = contexts /\ nodes' = nodes
      /\ functions' = functions /\ inputsUsed' = inputsUsed /\ cutShort' = cutShort
  BY DEF StartJob, Admissible
<1>2. /\ IsList(jobs) /\ IsList(pending) /\ IsList(nodes) /\ code \in Binaries /\ limits \in LimitSets
      /\ Tree(contexts, code, limits) /\ Bounded /\ \A j \in DOMAIN jobs : InScope(jobs[j].ref, code, contexts)
  BY DEF SInv, Scoped
<1>3. /\ IsList(Tail(jobs)) /\ Len(jobs) \in Nat \ {0} /\ DOMAIN Tail(jobs) = 1 .. Len(jobs) - 1
      /\ \A i \in 1 .. Len(jobs) - 1 : Tail(jobs)[i] = jobs[i + 1]
      /\ job = jobs[1] /\ DOMAIN jobs = 1 .. Len(jobs)
  BY <1>1, <1>2, ListTail, ListShape
<1>4. InScope(job.ref, code, contexts)
  BY <1>2, <1>3
<1> HIDE DEF job
<1>5. Fn(job.ref.ctx) \in DOMAIN code /\ Fn(job.ref.ctx) = contexts[job.ref.ctx].fn
  BY <1>2, <1>4 DEF Tree, InScope, Fn
<1>6. /\ limits.nodes \in Nat /\ limits.work \in Nat /\ Len(nodes) \in Nat
  BY <1>2, LimitsAre, ListShape, Zenon
<1>7. /\ Len(code[Fn(job.ref.ctx)].vars) \in Nat
      /\ \A v \in DOMAIN code[Fn(job.ref.ctx)].vars : code[Fn(job.ref.ctx)].vars[v].deps \in Seq(Nat)
  BY <1>2, <1>5, Typed
<1>8. max.nodes = limits.nodes - Len(nodes) /\ max.nodes \in Nat \ {0}
  BY <1>1, <1>6
<1> HIDE DEF max
<1>9. LInv'
  <2>1. job.ref.var \in DOMAIN code[Fn(job.ref.ctx)].vars
    BY <1>4, <1>5 DEF InScope
  <2> QED
    BY <1>1, <1>7, <1>8, <2>1, LocalStarts
<1>10. lvars' = code[Fn(job.ref.ctx)].vars /\ lmax' = max /\ lseen' = {job.ref.var}
  BY <1>1 DEF LocalStart
<1>11. here'.ctx = job.ref.ctx
  BY <1>1
<1>12. Scoped'
  <2>1. ASSUME NEW i \in DOMAIN jobs' PROVE InScope(jobs'[i].ref, code, contexts)
    <3>1. i + 1 \in DOMAIN jobs /\ jobs'[i] = jobs[i + 1]
      BY <1>1, <1>3
    <3> QED
      BY <1>2, <3>1
  <2>2. here'.ctx \in DOMAIN contexts
    BY <1>4, <1>11 DEF InScope
  <2> QED
    BY <1>1, <1>2, <1>3, <2>1, <2>2 DEF Scoped
<1>13. Bounded'
  <2>1. work' \in 0 .. limits.work
    BY <1>1, <1>2, <1>6, <1>7 DEF Bounded, Affordable, ScanWork
  <2> QED
    BY <1>1, <1>2, <2>1, Zenon DEF Bounded
<1>14. Staged'
  BY <1>1, <1>5, <1>8, <1>10, <1>11 DEF Staged
<1>15. NothingMissing'
  <2> SUFFICES ASSUME ~cutShort'
               PROVE  /\ \A i \in DOMAIN nodes' : /\ InScope(nodes'[i].ref, code', contexts')
                                                  /\ Sound(nodes'[i], code', contexts')
                      /\ visited' \subseteq Included' /\ RootKept'
    BY DEF NothingMissing
  <2>1. /\ \A i \in DOMAIN nodes : /\ InScope(nodes[i].ref, code, contexts)
                                   /\ Sound(nodes[i], code, contexts)
        /\ visited \subseteq Included /\ RootKept
    BY <1>1 DEF SInv, NothingMissing
  <2>2. Included' = Included
    BY <1>1 DEF Included
  <2>3. Ref(1, 1) \in Included \/ \E j \in DOMAIN jobs : jobs[j].ref = Ref(1, 1)
    BY <1>1, <2>1 DEF RootKept
  <2>4. ASSUME Ref(1, 1) \in Included PROVE RootKept'
    BY <2>2, <2>4 DEF RootKept
  <2>5. ASSUME NEW j \in DOMAIN jobs, jobs[j].ref = Ref(1, 1) PROVE RootKept'
    <3>1. CASE jobs[j] = job
      <4>1. job.ref.ctx = 1 /\ job.ref.var = 1
        BY <2>5, <3>1 DEF Ref
      <4> QED
        BY <1>1, <1>10, <1>11, <4>1 DEF RootKept
    <3>2. CASE jobs[j] # job
      <4>1. \E i \in DOMAIN Tail(jobs) : Tail(jobs)[i] = jobs[j]
        BY <1>1, <1>2, <3>2, FirstOff DEF job
      <4> QED
        BY <1>1, <2>5, <4>1 DEF RootKept
    <3> QED
      BY <3>1, <3>2
  <2>6. RootKept'
    BY <2>3, <2>4, <2>5
  <2> QED
    BY <1>1, <2>1, <2>2, <2>6
<1>16. Resulting'
  BY <1>1 DEF Resulting
<1>17. Tree(contexts', code', limits')
  BY <1>1, <1>2
<1> QED
  BY <1>9, <1>12, <1>13, <1>14, <1>15, <1>16, <1>17 DEF SInv

\* What the slice holds when only the local walk moves.
LEMMA SameSlice ==
  ASSUME SInv, UNCHANGED sliceVars
  PROVE  /\ Scoped' /\ Tree(contexts', code', limits') /\ Bounded' /\ Resulting'
         /\ Included' = Included
<1>1. /\ code' = code /\ limits' = limits /\ phase' = phase /\ jobs' = jobs /\ visited' = visited
      /\ pending' = pending /\ here' = here /\ contexts' = contexts /\ nodes' = nodes
      /\ functions' = functions /\ work' = work /\ inputsUsed' = inputsUsed
      /\ cutShort' = cutShort /\ stops' = stops /\ complete' = complete
  BY DEF sliceVars
<1>2. Included' = Included
  BY <1>1 DEF Included
<1>3. Scoped'
  BY <1>1 DEF SInv, Scoped
<1>4. Bounded' /\ Tree(contexts', code', limits')
  BY <1>1 DEF SInv, Bounded
<1>5. Resulting'
  <2> SUFFICES ASSUME phase = "done"
               PROVE  /\ ResultHonest'
                      /\ complete' => /\ Ref(1, 1) \in Included'
                                      /\ \A r \in Included' : ClosedAt(r, code', contexts', Included')
    BY <1>1 DEF Resulting
  <2>1. /\ ResultHonest
        /\ complete => /\ Ref(1, 1) \in Included
                       /\ \A r \in Included : ClosedAt(r, code, contexts, Included)
    BY DEF SInv, Resulting
  <2>2. ResultHonest'
    BY <1>1, <1>2, <2>1 DEF ResultHonest
  <2> QED
    BY <1>1, <1>2, <2>1, <2>2
<1> QED
  BY <1>2, <1>3, <1>4, <1>5

LEMMA LocalStepKeeps == SInv /\ LocalStep => SInv'
<1> SUFFICES ASSUME SInv, LocalStep PROVE SInv'
  OBVIOUS
<1>1. phase = "local" /\ LocalVisit /\ UNCHANGED sliceVars /\ lvars' = lvars /\ lmax' = lmax
  BY Zenon DEF LocalStep, LocalVisit
<1>2. LInv'
  BY <1>1, LocalKeeps DEF SInv
<1>3. lseen \subseteq lseen'
  BY <1>1, Zenon DEF LocalVisit
<1>4. /\ Scoped' /\ Tree(contexts', code', limits') /\ Bounded' /\ Resulting' /\ Included' = Included
  BY <1>1, SameSlice
<1>5. /\ code' = code /\ limits' = limits /\ phase' = phase /\ jobs' = jobs /\ visited' = visited
      /\ here' = here /\ contexts' = contexts /\ nodes' = nodes /\ cutShort' = cutShort
  BY <1>1 DEF sliceVars
<1>6. Staged'
  BY <1>1, <1>5 DEF SInv, Staged
<1>7. NothingMissing'
  <2> SUFFICES ASSUME ~cutShort
               PROVE  /\ \A i \in DOMAIN nodes : /\ InScope(nodes[i].ref, code, contexts)
                                                 /\ Sound(nodes[i], code, contexts)
                      /\ visited \subseteq Included /\ RootKept'
    BY <1>4, <1>5 DEF NothingMissing
  <2>1. RootKept
    BY <1>1 DEF SInv, NothingMissing
  <2>2. RootKept'
    BY <1>1, <1>3, <1>4, <1>5, <2>1 DEF RootKept
  <2> QED
    BY <1>1, <2>2 DEF SInv, NothingMissing
<1> QED
  BY <1>2, <1>4, <1>6, <1>7 DEF SInv

LEMMA LocalEndsKeeps == SInv /\ LocalEnds => SInv'
<1> SUFFICES ASSUME SInv, LocalEnds PROVE SInv'
  OBVIOUS
<1>1. /\ phase = "local" /\ lqueue = <<>> /\ pending' = lnodes /\ cutShort' = (cutShort \/ lcut)
      /\ phase' = "nodes" /\ code' = code /\ limits' = limits /\ jobs' = jobs /\ visited' = visited
      /\ here' = here /\ contexts' = contexts /\ nodes' = nodes /\ functions' = functions
      /\ work' = work /\ inputsUsed' = inputsUsed /\ UNCHANGED localVars
  BY DEF LocalEnds, LocalDone
<1>2. LInv /\ LInv'
  BY <1>1, LocalSame DEF SInv
<1>3. IsList(lnodes) /\ IsList(nodes) /\ limits \in LimitSets
  BY <1>2 DEF LInv, SInv, Scoped
<1>4. Scoped'
  BY <1>1, <1>3 DEF SInv, Scoped
<1>5. Bounded' /\ Tree(contexts', code', limits')
  BY <1>1 DEF SInv, Bounded
<1>6. Resulting'
  BY <1>1 DEF Resulting
<1>7. /\ lvars = code[contexts[here.ctx].fn].vars /\ lmax.nodes = limits.nodes - Len(nodes)
  BY <1>1 DEF SInv, Staged
<1>8. Staged'
  <2>1. /\ Len(lnodes) + Len(lqueue) = Cardinality(lseen) /\ Len(lnodes) \in Nat /\ Len(lqueue) \in Nat
        /\ Cardinality(lseen) <= lmax.nodes
    BY <1>2, LocalCounts DEF LInv
  <2>2. Len(nodes) \in Nat /\ limits.nodes \in Nat
    BY <1>3, ListShape, LimitsAre
  <2>3. Len(nodes) + Len(lnodes) <= limits.nodes
    BY <1>7, <2>1, <2>2
  <2>4. ASSUME NEW i \in DOMAIN lnodes
        PROVE  Faithful(lnodes[i], code[contexts[here.ctx].fn].vars, ~cutShort')
    <3>1. Faithful(lnodes[i], lvars, ~lcut)
      BY <1>2 DEF LInv
    <3> QED
      BY <1>1, <1>7, <3>1, Zenon DEF Faithful
  <2> QED
    BY <1>1, <2>3, <2>4 DEF Staged
<1>9. NothingMissing'
  <2> SUFFICES ASSUME ~cutShort'
               PROVE  /\ \A i \in DOMAIN nodes' : /\ InScope(nodes'[i].ref, code', contexts')
                                                  /\ Sound(nodes'[i], code', contexts')
                      /\ visited' \subseteq Included' /\ RootKept'
    BY DEF NothingMissing
  <2>1. /\ \A i \in DOMAIN nodes : /\ InScope(nodes[i].ref, code, contexts)
                                   /\ Sound(nodes[i], code, contexts)
        /\ visited \subseteq Included /\ RootKept
    BY <1>1 DEF SInv, NothingMissing
  <2>2. Included' = Included
    BY <1>1 DEF Included
  <2>3. lseen = Walked
    <3>1. Waiting = {}
      BY <1>1 DEF Waiting
    <3> QED
      BY <1>2, <3>1 DEF LInv
  <2>4. RootKept'
    <3>1. 1 \in lseen => \E i \in DOMAIN lnodes : lnodes[i].var = 1
      BY <2>3 DEF Walked
    <3> QED
      BY <1>1, <2>1, <2>2, <3>1 DEF RootKept
  <2> QED
    BY <1>1, <2>1, <2>2, <2>4
<1> QED
  BY <1>2, <1>4, <1>5, <1>6, <1>8, <1>9 DEF SInv

LEMMA SStutter == SInv /\ UNCHANGED ivars => SInv'
<1> SUFFICES ASSUME SInv, UNCHANGED ivars PROVE SInv'
  OBVIOUS
<1>1. UNCHANGED sliceVars /\ UNCHANGED localVars
  BY DEF ivars
<1>2. LInv'
  BY <1>1, LocalSame DEF SInv
<1>3. /\ Scoped' /\ Tree(contexts', code', limits') /\ Bounded' /\ Resulting' /\ Included' = Included
  BY <1>1, SameSlice
<1>4. /\ code' = code /\ limits' = limits /\ phase' = phase /\ jobs' = jobs /\ visited' = visited
      /\ here' = here /\ contexts' = contexts /\ nodes' = nodes /\ cutShort' = cutShort
      /\ pending' = pending /\ lvars' = lvars /\ lmax' = lmax /\ lseen' = lseen
  BY <1>1 DEF sliceVars, localVars
<1>5. Staged'
  BY <1>4 DEF SInv, Staged
<1>6. RootKept => RootKept'
  BY <1>3, <1>4 DEF RootKept
<1>7. NothingMissing'
  BY <1>3, <1>4, <1>6, Zenon DEF SInv, NothingMissing
<1> QED
  BY <1>2, <1>3, <1>5, <1>7 DEF SInv

LEMMA MarkedIs ==
  ASSUME NEW n
  PROVE  /\ Marked(n).ref = n.ref /\ Marked(n).boundary = n.boundary
         /\ DOMAIN Marked(n).inputs = DOMAIN n.inputs /\ DOMAIN Marked(n).links = DOMAIN n.links
         /\ \A k \in DOMAIN n.inputs :
               /\ Marked(n).inputs[k].var = n.inputs[k].var
               /\ Marked(n).inputs[k].stop = "none" => Ref(n.ref.ctx, n.inputs[k].var) \in Included
         /\ \A k \in DOMAIN n.links :
               /\ Marked(n).links[k].ref = n.links[k]
               /\ Marked(n).links[k].stop = "none" => n.links[k] \in Included
<1>1. \A stop, target : MarkedStop(stop, target) = "none" => target \in Included
  BY DEF MarkedStop
<1>2. /\ Marked(n).ref = n.ref /\ Marked(n).boundary = n.boundary
      /\ Marked(n).inputs = [k \in DOMAIN n.inputs |->
                    [var |-> n.inputs[k].var,
                     stop |-> MarkedStop(n.inputs[k].stop, Ref(n.ref.ctx, n.inputs[k].var))]]
      /\ Marked(n).links = [k \in DOMAIN n.links |->
                    [ref |-> n.links[k], stop |-> MarkedStop("none", n.links[k])]]
  BY DEF Marked
<1>3. ASSUME NEW k \in DOMAIN n.inputs
      PROVE  /\ Marked(n).inputs[k].var = n.inputs[k].var
             /\ Marked(n).inputs[k].stop = "none" => Ref(n.ref.ctx, n.inputs[k].var) \in Included
  <2>1. Marked(n).inputs[k] = [var |-> n.inputs[k].var,
                     stop |-> MarkedStop(n.inputs[k].stop, Ref(n.ref.ctx, n.inputs[k].var))]
    BY <1>2
  <2> QED
    BY <1>1, <2>1
<1>4. ASSUME NEW k \in DOMAIN n.links
      PROVE  /\ Marked(n).links[k].ref = n.links[k]
             /\ Marked(n).links[k].stop = "none" => n.links[k] \in Included
  <2>1. Marked(n).links[k] = [ref |-> n.links[k], stop |-> MarkedStop("none", n.links[k])]
    BY <1>2
  <2> QED
    BY <1>1, <2>1
<1>5. DOMAIN Marked(n).inputs = DOMAIN n.inputs /\ DOMAIN Marked(n).links = DOMAIN n.links
  BY <1>2
<1> QED
  BY <1>2, <1>3, <1>4, <1>5

\* A node without a boundary, all of whose edges lead into the slice, is closed.
LEMMA SoundCloses ==
  ASSUME NEW p \in Binaries, NEW cs, NEW S, NEW n, Sound(n, p, cs), n.boundary = "none",
         \A k \in DOMAIN n.inputs : Ref(n.ref.ctx, n.inputs[k].var) \in S,
         \A k \in DOMAIN n.links : n.links[k] \in S
  PROVE  ClosedAt(n.ref, p, cs, S)
<1> DEFINE r == n.ref
           var == p[cs[r.ctx].fn].vars[r.var]
<1>1. CASE /\ var.slot # 0 /\ r.ctx # 1 /\ var.slot \in DOMAIN cs[r.ctx].args
           /\ n.links = <<Ref(cs[r.ctx].caller, cs[r.ctx].args[var.slot])>>
  <2> DEFINE one == Ref(cs[r.ctx].caller, cs[r.ctx].args[var.slot])
  <2>1. n.links = <<one>>
    BY <1>1, Zenon
  <2> HIDE DEF one
  <2>2. 1 \in DOMAIN n.links /\ n.links[1] = one
    BY <2>1
  <2>3. one \in S
    BY <2>2
  <2> QED
    BY <1>1, <2>3, Zenon DEF ClosedAt, one
<1>2. CASE /\ var.call \in DOMAIN p /\ p[var.call].returns # <<>>
           /\ \E c \in DOMAIN cs :
                 /\ cs[c].fn = var.call /\ cs[c].caller = r.ctx /\ cs[c].via = r.var
                 /\ n.links = [k \in DOMAIN p[var.call].returns |-> Ref(c, p[var.call].returns[k])]
  <2> HIDE DEF var
  <2> DEFINE list == p[var.call].returns
  <2>1. PICK c \in DOMAIN cs :
                 /\ cs[c].fn = var.call /\ cs[c].caller = r.ctx /\ cs[c].via = r.var
                 /\ n.links = [k \in DOMAIN list |-> Ref(c, list[k])]
    BY <1>2
  <2>2. list \in Seq(DOMAIN p[var.call].vars) /\ list # <<>>
    BY <1>2, Typed
  <2>3. 1 \in DOMAIN list
    <3> HIDE DEF list
    <3> QED
      BY <2>2
  <2> HIDE DEF list
  <2>4. ToSet(list) # {}
    BY <2>3 DEF ToSet
  <2>5. \A v \in ToSet(list) : Ref(c, v) \in S
    <3>1. DOMAIN n.links = DOMAIN list /\ \A k \in DOMAIN list : n.links[k] = Ref(c, list[k])
      BY <2>1
    <3> QED
      BY <3>1 DEF ToSet
  <2>6. /\ var.call \in DOMAIN p
        /\ \E e \in DOMAIN cs :
              /\ cs[e].fn = var.call /\ cs[e].caller = r.ctx /\ cs[e].via = r.var
              /\ ToSet(list) # {} /\ \A v \in ToSet(list) : Ref(e, v) \in S
    BY <1>2, <2>1, <2>4, <2>5
  <2> QED
    BY <2>6, Zenon DEF ClosedAt, var, list
<1>3. CASE /\ var.boundary = "none" /\ var.slot = 0 /\ DOMAIN n.inputs = DOMAIN var.deps
           /\ \A k \in DOMAIN n.inputs : n.inputs[k].var = var.deps[k]
  <2>1. \A v \in ToSet(var.deps) : Ref(r.ctx, v) \in S
    <3> HIDE DEF var
    <3> QED
      BY <1>3 DEF ToSet
  <2> QED
    BY <1>3, <2>1, Zenon DEF ClosedAt
<1> QED
  BY <1>1, <1>2, <1>3, Zenon DEF Sound

LEMMA FinishesKeep == SInv /\ Finish => SInv'
<1> SUFFICES ASSUME SInv, Finish PROVE SInv'
  OBVIOUS
<1>1. /\ phase = "finish" /\ phase' = "done" /\ nodes' = [i \in DOMAIN nodes |-> Marked(nodes[i])]
      /\ code' = code /\ limits' = limits /\ jobs' = jobs /\ pending' = pending /\ here' = here
      /\ contexts' = contexts /\ functions' = functions /\ work' = work
      /\ inputsUsed' = inputsUsed /\ UNCHANGED localVars
      /\ complete' => /\ ~cutShort
                      /\ \A i \in DOMAIN nodes :
                          /\ nodes[i].boundary = "none"
                          /\ \A k \in DOMAIN nodes'[i].inputs : nodes'[i].inputs[k].stop = "none"
                          /\ \A k \in DOMAIN nodes'[i].links : nodes'[i].links[k].stop = "none"
  BY DEF Finish
<1>2. LInv'
  BY <1>1, LocalSame DEF SInv
<1>3. /\ IsList(nodes) /\ Len(nodes) \in Nat /\ DOMAIN nodes = 1 .. Len(nodes)
  BY ListShape DEF SInv, Scoped
<1>4. DOMAIN nodes' = DOMAIN nodes /\ \A i \in DOMAIN nodes : nodes'[i] = Marked(nodes[i])
  BY <1>1
<1>5. IsList(nodes') /\ Len(nodes') = Len(nodes)
  <2> DEFINE R == {Marked(nodes[i]) : i \in DOMAIN nodes}
  <2>1. nodes' \in [1 .. Len(nodes) -> R]
    BY <1>1, <1>3
  <2> HIDE DEF R
  <2> QED
    BY <1>3, <2>1, ListMade
<1>6. Included' = Included
  <2>1. \A i \in DOMAIN nodes : nodes'[i].ref = nodes[i].ref
    BY <1>4, MarkedIs
  <2> QED
    BY <1>4, <2>1 DEF Included
<1>7. Scoped'
  BY <1>1, <1>5 DEF SInv, Scoped
<1>8. Bounded' /\ Tree(contexts', code', limits')
  BY <1>1, <1>5 DEF SInv, Bounded
<1>9. Staged' /\ NothingMissing'
  BY <1>1 DEF Staged, NothingMissing
<1>10. ResultHonest'
  <2> SUFFICES ASSUME NEW i \in DOMAIN nodes
               PROVE  /\ \A k \in DOMAIN nodes'[i].inputs : nodes'[i].inputs[k].stop = "none" =>
                            Ref(nodes'[i].ref.ctx, nodes'[i].inputs[k].var) \in Included
                      /\ \A k \in DOMAIN nodes'[i].links : nodes'[i].links[k].stop = "none" =>
                            nodes'[i].links[k].ref \in Included
    BY <1>4, <1>6 DEF ResultHonest
  <2>1. nodes'[i] = Marked(nodes[i])
    BY <1>4
  <2> QED
    BY <2>1, MarkedIs
<1>11. ASSUME complete'
       PROVE  Ref(1, 1) \in Included /\ \A r \in Included : ClosedAt(r, code, contexts, Included)
  <2>1. /\ ~cutShort /\ code \in Binaries
        /\ \A i \in DOMAIN nodes : Sound(nodes[i], code, contexts)
        /\ RootKept
    BY <1>1, <1>11 DEF SInv, NothingMissing, Scoped
  <2>2. Ref(1, 1) \in Included
    BY <1>1, <2>1 DEF RootKept
  <2>3. ASSUME NEW r \in Included PROVE ClosedAt(r, code, contexts, Included)
    <3>1. PICK i \in DOMAIN nodes : r = nodes[i].ref
      BY DEF Included
    <3> DEFINE n == nodes[i]
    <3>2. /\ n.boundary = "none" /\ nodes'[i] = Marked(n) /\ Sound(n, code, contexts)
          /\ \A k \in DOMAIN nodes'[i].inputs : nodes'[i].inputs[k].stop = "none"
          /\ \A k \in DOMAIN nodes'[i].links : nodes'[i].links[k].stop = "none"
      BY <1>1, <1>4, <1>11, <2>1
    <3> HIDE DEF n
    <3>3. /\ \A k \in DOMAIN n.inputs : Ref(n.ref.ctx, n.inputs[k].var) \in Included
          /\ \A k \in DOMAIN n.links : n.links[k] \in Included
      BY <3>2, MarkedIs
    <3>4. ClosedAt(n.ref, code, contexts, Included)
      BY <2>1, <3>2, <3>3, SoundCloses
    <3> QED
      BY <3>1, <3>4 DEF n
  <2> QED
    BY <2>2, <2>3
<1>12. Resulting'
  BY <1>1, <1>6, <1>10, <1>11 DEF Resulting
<1> QED
  BY <1>2, <1>7, <1>8, <1>9, <1>12 DEF SInv

\* What a call that is entered or refused has passed on the way.
LEMMA CallPasses ==
  ASSUME SInv, NEW loads \in BOOLEAN, NEW left \in Nat,
         NEW target \in DOMAIN code \cup {"import", "unknown", "err"},
         NEW stop, stop = CallStop(target, loads, left)
  PROVE  /\ CallCost(target, stop, left) \in 0 .. left
         /\ CallCost(target, stop, left) > 0 =>
               target \in functions \/ Cardinality(functions) < limits.functions
         /\ stop = "none" =>
               /\ target \in DOMAIN code /\ contexts[here.ctx].depth + 1 <= limits.callDepth
               /\ ~Recursive(target) /\ code[target].returns # <<>>
               /\ Len(contexts) < limits.nodes
<1> DEFINE depth == contexts[here.ctx].depth + 1
           size == ScanWork(target)
<1>1. /\ limits \in LimitSets /\ code \in Binaries /\ here.ctx \in DOMAIN contexts
      /\ IsFiniteSet(functions) /\ Tree(contexts, code, limits)
  BY DEF SInv, Scoped, Bounded
<1>2. limits.nodes \in Nat /\ limits.callDepth \in Nat /\ limits.functions \in Nat
  BY <1>1, LimitsAre
<1>3. Cardinality(functions) \in Nat
  BY <1>1, FS_CardinalityType
<1>4. contexts[here.ctx].depth \in Nat /\ Len(contexts) \in Nat
  BY <1>1, <1>2 DEF Tree
<1>5. CASE target \in {"import", "unknown", "err"}
  <2>1. stop \in {"external_call", "unknown_call", "indirect_call"}
    BY <1>5 DEF CallStop
  <2>2. CallCost(target, stop, left) = 0
    BY <2>1 DEF CallCost, Loaded
  <2> QED
    BY <2>1, <2>2
<1>6. CASE target \notin {"import", "unknown", "err"}
  <2>1. target \in DOMAIN code
    BY <1>6
  <2>2. size \in Nat
    BY <1>1, <2>1, Typed DEF ScanWork
  <2>3. stop =
         IF Len(nodes) + 1 >= limits.nodes THEN "node_limit"
         ELSE IF depth > limits.callDepth THEN "call_depth_limit"
         ELSE IF Recursive(target) THEN "recursion_limit"
         ELSE IF target \notin functions /\ Cardinality(functions) >= limits.functions
              THEN "function_limit"
         ELSE IF left < 1 THEN "traversal_work_limit"
         ELSE IF ~loads THEN "function_unavailable"
         ELSE IF left - 1 < size THEN "traversal_work_limit"
         ELSE IF code[target].effects THEN "unsupported_side_effects"
         ELSE IF code[target].returns = <<>> THEN "unsupported_return"
         ELSE IF Len(contexts) >= limits.nodes THEN "context_limit"
         ELSE "none"
    BY <1>6 DEF CallStop
  <2> HIDE DEF size, depth
  <2>4. stop \in Loaded => /\ left >= 1 /\ ~(left - 1 < size)
    BY <2>3 DEF Loaded
  <2>5. stop = "function_unavailable" => left >= 1
    BY <2>3
  <2>6. CallCost(target, stop, left) \in 0 .. left
    <3>1. CallCost(target, stop, left) =
             IF stop \in Loaded THEN 1 + size
             ELSE IF stop = "function_unavailable" \/ (stop = "traversal_work_limit" /\ left >= 1)
                  THEN 1 ELSE 0
      BY DEF CallCost, size
    <3>2. CASE stop \in Loaded
      BY <2>2, <2>4, <3>1, <3>2
    <3>3. CASE stop \notin Loaded
      BY <2>5, <3>1, <3>3
    <3> QED
      BY <3>2, <3>3
  <2>7. CallCost(target, stop, left) > 0 =>
           target \in functions \/ Cardinality(functions) < limits.functions
    <3>1. CallCost(target, stop, left) > 0 =>
             stop \in Loaded \cup {"function_unavailable", "traversal_work_limit"}
      BY DEF CallCost
    <3>2. stop \in Loaded \cup {"function_unavailable", "traversal_work_limit"} =>
             ~(target \notin functions /\ Cardinality(functions) >= limits.functions)
      BY <2>3 DEF Loaded
    <3> QED
      BY <1>2, <1>3, <3>1, <3>2
  <2>8. stop = "none" =>
           /\ ~(depth > limits.callDepth) /\ ~Recursive(target) /\ code[target].returns # <<>>
           /\ ~(Len(contexts) >= limits.nodes)
    BY <2>3
  <2>9. stop = "none" => depth <= limits.callDepth /\ Len(contexts) < limits.nodes
    BY <1>2, <1>4, <2>8 DEF depth
  <2> QED
    BY <2>1, <2>6, <2>7, <2>8, <2>9 DEF depth
<1> QED
  BY <1>5, <1>6

\* What a node contributes can be paid for, stays within the limits and names
\* variables that are there.
Welcome(out, left, new) ==
  /\ out.cost \in 0 .. left /\ IsList(out.links)
  /\ IsFiniteSet(functions \cup out.admits)
  /\ Cardinality(functions \cup out.admits) <= limits.functions
  /\ Tree(new, code, limits) /\ Grown(contexts, new)
  /\ \A k \in DOMAIN out.links : InScope(out.links[k], code, new)

LEMMA NothingOpened ==
  ASSUME SInv, NEW out, NEW left \in Nat, out.cost = 0, out.opens = <<>>, out.admits = {},
         IsList(out.links), \A k \in DOMAIN out.links : InScope(out.links[k], code, contexts)
  PROVE  contexts \o out.opens = contexts /\ Welcome(out, left, contexts)
<1>1. Tree(contexts, code, limits) /\ Bounded
  BY DEF SInv
<1>2. IsList(contexts) /\ Len(contexts) \in Nat
  BY <1>1, ListShape DEF Tree, Rising
<1>3. contexts \o <<>> = contexts
  <2>1. PICK S : contexts \in Seq(S)
    BY <1>2 DEF IsList
  <2> QED
    BY <2>1, ConcatEmptySeq
<1>4. Grown(contexts, contexts)
  BY <1>2 DEF Grown
<1>5. functions \cup out.admits = functions
  OBVIOUS
<1>6. IsFiniteSet(functions \cup out.admits)
      /\ Cardinality(functions \cup out.admits) <= limits.functions
  BY <1>1, <1>5 DEF Bounded
<1>7. out.cost \in 0 .. left
  OBVIOUS
<1> QED
  BY <1>1, <1>3, <1>4, <1>6, <1>7 DEF Welcome

\* A node as it enters the result.
Entered(n, node, out) ==
  /\ n.ref = Ref(here.ctx, node.var) /\ n.inputs = out.inputs /\ n.links = out.links
  /\ n.boundary = out.boundary

LEMMA PlainOut ==
  ASSUME SInv, NEW node, NEW left \in Nat, NEW whole \in BOOLEAN,
         Faithful(node, code[Fn(here.ctx)].vars, whole),
         code[Fn(here.ctx)].vars[node.var].slot = 0 \/ here.ctx = 1,
         NEW out, out = Plain(node), NEW n
  PROVE  /\ Welcome(out, left, contexts \o out.opens)
         /\ whole /\ Entered(n, node, out) => Sound(n, code, contexts \o out.opens)
<1> DEFINE var == code[Fn(here.ctx)].vars[node.var]
<1>1. /\ out.cost = 0 /\ out.opens = <<>> /\ out.admits = {} /\ out.links = <<>>
      /\ out.boundary = node.boundary /\ out.inputs = node.inputs
  BY DEF Plain
<1>2. IsList(out.links) /\ DOMAIN out.links = {}
  <2>1. <<>> \in Seq({}) /\ DOMAIN <<>> = {}
    OBVIOUS
  <2> QED
    BY <1>1, <2>1 DEF IsList
<1>3. contexts \o out.opens = contexts /\ Welcome(out, left, contexts)
  BY <1>1, <1>2, NothingOpened
<1>4. /\ code \in Binaries /\ here.ctx \in DOMAIN contexts /\ Tree(contexts, code, limits)
  BY Zenon DEF SInv, Scoped
<1>5. Fn(here.ctx) \in DOMAIN code
  BY <1>4 DEF Tree, Fn
<1>6. node.var \in DOMAIN code[Fn(here.ctx)].vars /\ node.boundary = var.boundary
  BY DEF Faithful
<1>7. var.slot # 0 => var.boundary # "none"
  BY <1>4, <1>5, <1>6, Typed
<1>8. ASSUME whole, Entered(n, node, out) PROVE Sound(n, code, contexts)
  <2>1. var = code[contexts[n.ref.ctx].fn].vars[n.ref.var]
    BY <1>8 DEF Entered, Ref, Fn
  <2>2. DOMAIN node.inputs = DOMAIN var.deps /\ \A k \in DOMAIN node.inputs : node.inputs[k].var = var.deps[k]
    BY <1>8 DEF Faithful
  <2>3. n.boundary = node.boundary /\ n.inputs = node.inputs
    BY <1>1, <1>8 DEF Entered
  <2> HIDE DEF var
  <2>4. n.boundary = "none" =>
           /\ var.boundary = "none" /\ var.slot = 0 /\ DOMAIN n.inputs = DOMAIN var.deps
           /\ \A k \in DOMAIN n.inputs : n.inputs[k].var = var.deps[k]
    BY <1>6, <1>7, <2>2, <2>3, Zenon
  <2> QED
    BY <2>1, <2>4, Zenon DEF Sound
<1> QED
  BY <1>3, <1>8

LEMMA ParameterOut ==
  ASSUME SInv, NEW node, NEW left \in Nat,
         code[Fn(here.ctx)].vars[node.var].slot # 0, here.ctx # 1,
         NEW out, out = Parameter(node, code[Fn(here.ctx)].vars[node.var].slot), NEW n
  PROVE  /\ Welcome(out, left, contexts \o out.opens)
         /\ Entered(n, node, out) => Sound(n, code, contexts \o out.opens)
<1> DEFINE var == code[Fn(here.ctx)].vars[node.var]
           args == contexts[here.ctx].args
           one == Ref(contexts[here.ctx].caller, args[var.slot])
<1>1. /\ code \in Binaries /\ here.ctx \in DOMAIN contexts /\ Tree(contexts, code, limits)
      /\ IsList(contexts)
  BY DEF SInv, Scoped, Tree, Rising
<1>2. \A x : IsList(<<x>>) /\ DOMAIN <<x>> = {1} /\ <<x>>[1] = x /\ IsList(<<>>) /\ DOMAIN <<>> = {}
  <2>1. \A x : <<x>> \in Seq({x}) /\ DOMAIN <<x>> = {1} /\ <<x>>[1] = x
    OBVIOUS
  <2>2. <<>> \in Seq({}) /\ DOMAIN <<>> = {}
    OBVIOUS
  <2> QED
    BY <2>1, <2>2 DEF IsList
<1>3. CASE var.slot \in DOMAIN args
  <2>1. /\ out.cost = 0 /\ out.opens = <<>> /\ out.admits = {} /\ out.links = <<one>>
    BY <1>3, Zenon DEF Parameter
  <2>2. /\ contexts[here.ctx].caller # 0 /\ contexts[here.ctx].caller \in 0 .. here.ctx - 1
        /\ ToSet(args) \subseteq DOMAIN code[contexts[contexts[here.ctx].caller].fn].vars
    BY <1>1 DEF Tree, Rising
  <2>3. contexts[here.ctx].caller \in DOMAIN contexts
    <3>1. DOMAIN contexts = 1 .. Len(contexts) /\ Len(contexts) \in Nat
      BY <1>1, ListShape, Zenon
    <3> DEFINE up == contexts[here.ctx].caller
    <3>2. here.ctx \in 1 .. Len(contexts) /\ up # 0 /\ up \in 0 .. here.ctx - 1
      BY <1>1, <2>2, <3>1
    <3> HIDE DEF up
    <3>3. up \in 1 .. Len(contexts)
      BY <3>1, <3>2
    <3> QED
      BY <3>1, <3>3 DEF up
  <2>4. args[var.slot] \in ToSet(args)
    BY <1>3, Zenon DEF ToSet
  <2>5. InScope(one, code, contexts)
    <3>1. one.ctx = contexts[here.ctx].caller /\ one.var = args[var.slot]
      BY Zenon DEF Ref
    <3> HIDE DEF one
    <3> QED
      BY <2>2, <2>3, <2>4, <3>1, Zenon DEF InScope
  <2> HIDE DEF one
  <2>6. IsList(out.links) /\ \A k \in DOMAIN out.links : InScope(out.links[k], code, contexts)
    <3>1. IsList(<<one>>) /\ DOMAIN <<one>> = {1} /\ <<one>>[1] = one
      BY <1>2, Zenon
    <3> DEFINE t == <<one>>
    <3>2. IsList(t) /\ DOMAIN t = {1} /\ t[1] = one /\ out.links = t
      BY <2>1, <3>1, Zenon
    <3> HIDE DEF t
    <3> QED
      BY <2>5, <3>2
  <2>7. contexts \o out.opens = contexts /\ Welcome(out, left, contexts)
    BY <2>1, <2>6, NothingOpened, Zenon
  <2>8. ASSUME Entered(n, node, out) PROVE Sound(n, code, contexts)
    <3>1. n.ref.ctx = here.ctx /\ n.ref.var = node.var /\ n.links = <<one>>
      <4>1. n.ref = Ref(here.ctx, node.var) /\ n.links = out.links
        BY <2>8 DEF Entered
      <4>2. n.links = <<one>>
        BY <2>1, <4>1, Zenon
      <4> QED
        BY <4>1, <4>2 DEF Ref
    <3>2. var = code[contexts[n.ref.ctx].fn].vars[n.ref.var]
      BY <3>1, Zenon DEF Fn
    <3>3. /\ var.slot # 0 /\ n.ref.ctx # 1 /\ var.slot \in DOMAIN contexts[n.ref.ctx].args
          /\ n.links = <<Ref(contexts[n.ref.ctx].caller, contexts[n.ref.ctx].args[var.slot])>>
      BY <1>3, <3>1 DEF one
    <3> HIDE DEF var
    <3> QED
      BY <3>2, <3>3, Zenon DEF Sound
  <2> QED
    BY <2>7, <2>8, Zenon
<1>4. CASE var.slot \notin DOMAIN args
  <2>1. out = [Plain(node) EXCEPT !.boundary = "missing_call_argument"]
    BY <1>4 DEF Parameter
  <2>2. /\ out.cost = 0 /\ out.opens = <<>> /\ out.admits = {} /\ out.links = <<>>
        /\ out.boundary = "missing_call_argument"
    BY <2>1, Zenon DEF Plain
  <2>3. contexts \o out.opens = contexts /\ Welcome(out, left, contexts)
    BY <1>2, <2>2, NothingOpened, Zenon
  <2>4. Entered(n, node, out) => Sound(n, code, contexts)
    BY <2>2, Zenon DEF Entered, Sound
  <2> QED
    BY <2>3, <2>4, Zenon
<1> QED
  BY <1>3, <1>4, Zenon

LEMMA CallOut ==
  ASSUME SInv, NEW node, NEW left \in Nat, NEW loads \in BOOLEAN, NEW whole,
         Faithful(node, code[Fn(here.ctx)].vars, whole), node.boundary = "unmodeled_call",
         NEW var, var = code[Fn(here.ctx)].vars[node.var],
         NEW out, out = CallNode(node, var, loads, left), NEW n
  PROVE  /\ Welcome(out, left, contexts \o out.opens)
         /\ Entered(n, node, out) => Sound(n, code, contexts \o out.opens)
<1> DEFINE stop == CallStop(var.call, loads, left)
           cost == CallCost(var.call, stop, left)
           c == Len(contexts) + 1
           one == [fn |-> var.call, caller |-> here.ctx, via |-> node.var,
                   depth |-> contexts[here.ctx].depth + 1, args |-> var.args]
           new == contexts \o <<one>>
           list == code[var.call].returns
<1>1. /\ code \in Binaries /\ limits \in LimitSets /\ here.ctx \in DOMAIN contexts
      /\ Tree(contexts, code, limits) /\ IsFiniteSet(functions)
      /\ Cardinality(functions) <= limits.functions
  BY Zenon DEF SInv, Scoped, Bounded
<1>2. Fn(here.ctx) \in DOMAIN code /\ Fn(here.ctx) = contexts[here.ctx].fn
  BY <1>1 DEF Tree, Fn
<1>3. node.var \in DOMAIN code[Fn(here.ctx)].vars /\ var.boundary = "unmodeled_call"
  BY DEF Faithful
<1>4. /\ var.call \in DOMAIN code \cup {"import", "unknown", "err"}
      /\ ToSet(var.args) \subseteq DOMAIN code[Fn(here.ctx)].vars
  BY <1>1, <1>2, <1>3, Typed, Zenon
<1>5. /\ cost \in 0 .. left
      /\ cost > 0 => var.call \in functions \/ Cardinality(functions) < limits.functions
      /\ stop = "none" =>
               /\ var.call \in DOMAIN code /\ contexts[here.ctx].depth + 1 <= limits.callDepth
               /\ ~Recursive(var.call) /\ list # <<>>
               /\ Len(contexts) < limits.nodes
  <2> HIDE DEF stop
  <2>1. stop = CallStop(var.call, loads, left)
    BY DEF stop
  <2> QED
    BY <1>4, <2>1, CallPasses, Zenon
<1>6. /\ out.boundary = stop /\ out.cost = cost
      /\ out.links = IF stop = "none" THEN [k \in DOMAIN list |-> Ref(c, list[k])] ELSE <<>>
      /\ out.opens = IF stop = "none" THEN <<one>> ELSE <<>>
      /\ out.admits = IF cost > 0 THEN {var.call} ELSE {}
  BY Zenon DEF CallNode
<1> HIDE DEF stop, cost, one, list
<1>7. /\ IsFiniteSet(functions \cup out.admits)
      /\ Cardinality(functions \cup out.admits) <= limits.functions
  <2>1. Cardinality(functions) \in Nat /\ limits.functions \in Nat
    BY <1>1, FS_CardinalityType, LimitsAre, Zenon
  <2>2. CASE ~(cost > 0) \/ var.call \in functions
    <3>1. functions \cup out.admits = functions
      BY <1>6, <2>2, Zenon
    <3> QED
      BY <1>1, <3>1, Zenon
  <2>3. CASE cost > 0 /\ var.call \notin functions
    <3>1. functions \cup out.admits = functions \cup {var.call}
      BY <1>6, <2>3
    <3>2. IsFiniteSet(functions \cup {var.call})
          /\ Cardinality(functions \cup {var.call}) = Cardinality(functions) + 1
      BY <1>1, <2>3, FS_AddElement
    <3>3. Cardinality(functions) < limits.functions
      BY <1>5, <2>3
    <3>4. Cardinality(functions) + 1 <= limits.functions
      BY <2>1, <3>3
    <3> QED
      BY <3>1, <3>2, <3>4, Zenon
  <2> QED
    BY <2>2, <2>3
<1>8. CASE stop # "none"
  <2>1. out.opens = <<>> /\ out.links = <<>>
    BY <1>6, <1>8
  <2>2. IsList(out.links) /\ DOMAIN out.links = {}
    <3>1. <<>> \in Seq({}) /\ DOMAIN <<>> = {}
      OBVIOUS
    <3> QED
      BY <2>1, <3>1 DEF IsList
  <2>3. IsList(contexts) /\ Len(contexts) \in Nat
    BY <1>1, ListShape DEF Tree, Rising
  <2>4. contexts \o out.opens = contexts
    <3>1. PICK S : contexts \in Seq(S)
      BY <2>3 DEF IsList
    <3> QED
      BY <2>1, <3>1, ConcatEmptySeq
  <2>5. Grown(contexts, contexts)
    BY <2>3 DEF Grown
  <2>6. Welcome(out, left, contexts)
    BY <1>1, <1>5, <1>6, <1>7, <2>2, <2>5, Zenon DEF Welcome
  <2>7. Entered(n, node, out) => Sound(n, code, contexts)
    BY <1>6, <1>8, Zenon DEF Entered, Sound
  <2> QED
    BY <2>4, <2>6, <2>7, Zenon
<1>9. CASE stop = "none"
  <2>1. limits.nodes \in Nat /\ limits.callDepth \in Nat
    BY <1>1, LimitsAre
  <2>2. out.opens = <<one>> /\ contexts \o out.opens = new
    BY <1>6, <1>9, Zenon
  <2>3. \A d \in Up(contexts, here.ctx) : contexts[d].fn # var.call
    BY <1>5, <1>9, ChainIs, Zenon DEF Recursive, Fn
  <2>4. /\ Tree(new, code, limits) /\ Grown(contexts, new) /\ c \in DOMAIN new /\ new[c] = one
    <3>1. var.call \in DOMAIN code /\ Len(contexts) < limits.nodes
          /\ contexts[here.ctx].depth + 1 <= limits.callDepth
      BY <1>5, <1>9, Zenon
    <3>2. ToSet(var.args) \subseteq DOMAIN code[contexts[here.ctx].fn].vars
      BY <1>2, <1>4
    <3>3. /\ one.fn = var.call /\ one.caller = here.ctx /\ one.args = var.args
          /\ one.depth = contexts[here.ctx].depth + 1
      BY DEF one
    <3>4. new = Append(contexts, one)
      BY <1>1, ListConcat, Zenon DEF Tree, Rising
    <3>5. /\ one.fn \in DOMAIN code /\ one.depth <= limits.callDepth
          /\ ToSet(one.args) \subseteq DOMAIN code[contexts[here.ctx].fn].vars
          /\ \A d \in Up(contexts, here.ctx) : contexts[d].fn # one.fn
      BY <2>3, <3>1, <3>2, <3>3
    <3>6. Opens(one, here.ctx, contexts, code, limits)
      BY <1>1, <3>1, <3>3, <3>5, Zenon DEF Opens
    <3> HIDE DEF new
    <3>7. Tree(new, code, limits) /\ Grown(contexts, new)
      BY <1>1, <3>4, <3>6, TreeGrows
    <3>8. c \in DOMAIN new /\ new[c] = one
      <4>1. IsList(contexts) /\ Len(contexts) \in Nat
        BY <1>1, ListShape DEF Tree, Rising
      <4>2. DOMAIN Append(contexts, one) = 1 .. c /\ Append(contexts, one)[c] = one
        BY <4>1, ListAppend
      <4> QED
        BY <3>4, <4>1, <4>2
    <3> QED
      BY <3>7, <3>8
  <2>5. one.fn = var.call /\ one.caller = here.ctx /\ one.via = node.var
    BY Zenon DEF one
  <2> HIDE DEF new, c
  <2>6. list \in Seq(DOMAIN code[var.call].vars)
    BY <1>1, <1>5, <1>9, Typed, Zenon DEF list
  <2>7. out.links = [k \in DOMAIN list |-> Ref(c, list[k])]
    BY <1>6, <1>9, Zenon
  <2>8. IsList(out.links) /\ \A k \in DOMAIN out.links : InScope(out.links[k], code, new)
    <3> HIDE DEF list, one
    <3>1. DOMAIN list = 1 .. Len(list) /\ Len(list) \in Nat
          /\ \A k \in DOMAIN list : list[k] \in DOMAIN code[var.call].vars
      BY <2>6, ListOf, Zenon
    <3> DEFINE S == {Ref(c, list[k]) : k \in DOMAIN list}
    <3>2. out.links \in [1 .. Len(list) -> S]
      <4>1. [k \in DOMAIN list |-> Ref(c, list[k])] \in [DOMAIN list -> S]
        BY Zenon
      <4> QED
        BY <2>7, <3>1, <4>1, Zenon
    <3> HIDE DEF S
    <3>3. IsList(out.links)
      BY <3>1, <3>2, ListMade, Zenon
    <3>4. ASSUME NEW k \in DOMAIN list PROVE InScope(Ref(c, list[k]), code, new)
      BY <2>4, <2>5, <3>1, Zenon DEF InScope, Ref
    <3> QED
      BY <2>7, <3>3, <3>4, Zenon
  <2>9. Welcome(out, left, new)
    BY <1>5, <1>6, <1>7, <2>4, <2>8, Zenon DEF Welcome
  <2>10. ASSUME Entered(n, node, out) PROVE Sound(n, code, new)
    <3>1. n.ref.ctx = here.ctx /\ n.ref.var = node.var /\ n.links = out.links
      BY <2>10 DEF Entered, Ref
    <3>2. new[here.ctx] = contexts[here.ctx]
      BY <1>1, <2>4, Zenon DEF Grown
    <3>3. var = code[new[n.ref.ctx].fn].vars[n.ref.var]
      BY <1>2, <3>1, <3>2
    <3>4. /\ var.call \in DOMAIN code /\ code[var.call].returns # <<>>
          /\ \E e \in DOMAIN new :
                /\ new[e].fn = var.call /\ new[e].caller = n.ref.ctx /\ new[e].via = n.ref.var
                /\ n.links = [k \in DOMAIN code[var.call].returns |-> Ref(e, code[var.call].returns[k])]
      BY <1>5, <1>9, <2>4, <2>5, <2>7, <3>1, Zenon DEF list
    <3> QED
      BY <3>3, <3>4, Zenon DEF Sound
  <2> QED
    BY <2>2, <2>9, <2>10
<1> QED
  BY <1>8, <1>9

LEMMA OutcomeFits ==
  ASSUME SInv, NEW node, NEW left \in Nat, NEW loads \in BOOLEAN, NEW whole \in BOOLEAN,
         Faithful(node, code[Fn(here.ctx)].vars, whole),
         NEW out, out = Outcome(node, loads, left), NEW n
  PROVE  /\ Welcome(out, left, contexts \o out.opens)
         /\ whole /\ Entered(n, node, out) => Sound(n, code, contexts \o out.opens)
<1> DEFINE var == code[Fn(here.ctx)].vars[node.var]
<1>1. CASE var.slot # 0 /\ here.ctx # 1
  <2>1. out = Parameter(node, var.slot)
    BY <1>1, Zenon DEF Outcome
  <2> QED
    BY <1>1, <2>1, ParameterOut, Zenon
<1>2. CASE ~(var.slot # 0 /\ here.ctx # 1) /\ node.boundary = "unmodeled_call"
  <2>1. out = CallNode(node, var, loads, left)
    BY <1>2 DEF Outcome
  <2> QED
    BY <1>2, <2>1, CallOut
<1>3. CASE ~(var.slot # 0 /\ here.ctx # 1) /\ node.boundary # "unmodeled_call"
  <2>1. out = Plain(node)
    BY <1>3 DEF Outcome
  <2> QED
    BY <1>3, <2>1, PlainOut
<1> QED
  BY <1>1, <1>2, <1>3

LEMMA AdmitKeeps ==
  ASSUME SInv, NEW loads \in BOOLEAN, AdmitNode(loads)
  PROVE  SInv'
<1> DEFINE head == Head(pending)
           vars == code[Fn(here.ctx)].vars
           depth == head.depth + here.depth
           room == MaxInputs - inputsUsed
           cut == Len(head.inputs) > room
           kept == IF cut THEN SubSeq(head.inputs, 1, room) ELSE head.inputs
           node == [var |-> head.var, boundary |-> head.boundary, inputs |-> kept]
           used == inputsUsed + Len(node.inputs)
           paid == work + 1 + Len(head.inputs)
           out == Outcome(node, loads, limits.work - paid)
           afford == paid + out.cost + Len(out.links) <= limits.work
           fits == Len(out.links) <= MaxInputs - used
           links == IF fits THEN out.links ELSE SubSeq(out.links, 1, MaxInputs - used)
           full == used + Len(links) >= MaxInputs
           last == [ref |-> Ref(here.ctx, head.var), depth |-> depth, inputs |-> out.inputs,
                    links |-> links,
                    boundary |-> IF ~fits THEN "input_limit"
                                 ELSE IF ~afford THEN "traversal_work_limit"
                                 ELSE out.boundary]
<1>1. /\ phase = "nodes" /\ pending # <<>> /\ Ref(here.ctx, head.var) \notin visited
      /\ work + (1 + Len(head.inputs)) <= limits.work
      /\ visited' = visited \cup {Ref(here.ctx, head.var)}
      /\ work' = paid + out.cost + IF afford THEN Len(out.links) ELSE 0
      /\ jobs' = jobs \o LinkJobs(out.links, depth)
      /\ contexts' = contexts \o out.opens
      /\ functions' = functions \cup out.admits
      /\ inputsUsed' = used + Len(links)
      /\ nodes' = Append(nodes, last)
      /\ cutShort' = (cutShort \/ cut \/ ~afford \/ ~fits \/ full \/ out.boundary \in LimitStops)
      /\ pending' = IF full THEN <<>> ELSE Tail(pending)
      /\ code' = code /\ limits' = limits /\ phase' = phase /\ here' = here
      /\ UNCHANGED localVars
  BY Zenon DEF AdmitNode, Affordable
<1>2. /\ code \in Binaries /\ limits \in LimitSets /\ here.ctx \in DOMAIN contexts
      /\ IsList(jobs) /\ IsList(pending) /\ IsList(nodes) /\ Tree(contexts, code, limits)
      /\ \A j \in DOMAIN jobs : InScope(jobs[j].ref, code, contexts) /\ Bounded
  BY DEF SInv, Scoped
<1>3. /\ limits.nodes \in Nat /\ limits.work \in Nat /\ MaxInputs \in Nat
      /\ work \in Nat /\ inputsUsed \in 0 .. MaxInputs
  <2>1. limits.nodes \in Nat /\ limits.work \in Nat
    BY <1>2, LimitsAre
  <2>2. Bounded
    BY DEF SInv
  <2> QED
    BY <2>1, <2>2, BackwardSliceAssumption DEF Bounded
<1>4. /\ IsList(Tail(pending)) /\ Len(Tail(pending)) = Len(pending) - 1 /\ Len(pending) \in Nat \ {0}
      /\ DOMAIN Tail(pending) = 1 .. Len(pending) - 1
      /\ \A i \in 1 .. Len(pending) - 1 : Tail(pending)[i] = pending[i + 1]
      /\ head = pending[1] /\ DOMAIN pending = 1 .. Len(pending)
  BY <1>1, <1>2, ListTail, ListShape, Zenon
<1>5. /\ Len(nodes) + Len(pending) <= limits.nodes
      /\ \A i \in DOMAIN pending : Faithful(pending[i], vars, ~cutShort)
  BY <1>1, Zenon DEF SInv, Staged, Fn
<1>6. Faithful(head, vars, ~cutShort)
  BY <1>4, <1>5
<1> HIDE DEF head, vars
<1>7. IsList(head.inputs) /\ Len(head.inputs) \in Nat /\ DOMAIN head.inputs = 1 .. Len(head.inputs)
  BY <1>6, ListShape DEF Faithful
<1>8. room \in Nat /\ inputsUsed + room = MaxInputs
  BY <1>3
<1> HIDE DEF room
<1>9. IsList(kept) /\ Len(kept) \in 0 .. room
  <2>1. CASE cut
    <3>1. room \in 0 .. Len(head.inputs)
      BY <1>7, <1>8, <2>1
    <3>2. kept = SubSeq(head.inputs, 1, room)
      BY <2>1
    <3>3. IsList(SubSeq(head.inputs, 1, room)) /\ Len(SubSeq(head.inputs, 1, room)) = room
      BY <1>7, <3>1, ListSub
    <3> HIDE DEF kept, cut
    <3>4. IsList(kept) /\ Len(kept) = room
      BY <3>2, <3>3
    <3> QED
      BY <1>8, <3>4
  <2>2. CASE ~cut
    BY <1>7, <1>8, <2>2
  <2> QED
    BY <2>1, <2>2
<1>10. node.var = head.var /\ node.boundary = head.boundary /\ node.inputs = kept
  OBVIOUS
<1>11. ~cut => kept = head.inputs
  OBVIOUS
<1> HIDE DEF kept, cut
<1> DEFINE whole == ~cutShort /\ ~cut
<1>12. whole \in BOOLEAN
  OBVIOUS
<1>13. Faithful(node, vars, whole)
  <2> HIDE DEF node
  <2>1. /\ node.var \in DOMAIN vars /\ node.boundary = vars[node.var].boundary /\ IsList(node.inputs)
    BY <1>6, <1>9, <1>10 DEF Faithful
  <2>2. whole => /\ DOMAIN node.inputs = DOMAIN vars[node.var].deps
                 /\ \A k \in DOMAIN node.inputs : node.inputs[k].var = vars[node.var].deps[k]
    BY <1>6, <1>10, <1>11 DEF Faithful
  <2> QED
    BY <2>1, <2>2 DEF Faithful
<1>14. /\ paid \in Nat /\ limits.work - paid \in Nat /\ work + (1 + Len(head.inputs)) = paid
  <2>1. work + (1 + Len(head.inputs)) <= limits.work
    BY <1>1, Zenon
  <2> DEFINE k == Len(head.inputs)
             w == limits.work
  <2>2. k \in Nat /\ w \in Nat /\ work \in Nat /\ work + (1 + k) <= w
    BY <1>3, <1>7, <2>1
  <2>3. paid = work + 1 + k
    OBVIOUS
  <2> HIDE DEF k, w, paid
  <2>4. paid \in Nat /\ w - paid \in Nat /\ work + (1 + k) = paid
    BY <2>2, <2>3
  <2> QED
    BY <2>4 DEF k, w
<1>15. used \in 0 .. MaxInputs
  BY <1>3, <1>8, <1>9, <1>10
<1> HIDE DEF node, paid, used, whole
<1>16. \A n : /\ Welcome(out, limits.work - paid, contexts')
              /\ whole /\ Entered(n, node, out) => Sound(n, code, contexts')
  <2> HIDE DEF out
  <2>1. out = Outcome(node, loads, limits.work - paid)
    BY DEF out
  <2>2. contexts' = contexts \o out.opens
    BY <1>1
  <2>3. Faithful(node, code[Fn(here.ctx)].vars, whole)
    BY <1>13 DEF vars
  <2> QED
    BY <1>12, <1>14, <2>1, <2>2, <2>3, OutcomeFits
<1> HIDE DEF out
<1>17. /\ out.cost \in 0 .. limits.work - paid /\ IsList(out.links)
       /\ IsFiniteSet(functions') /\ Cardinality(functions') <= limits.functions
       /\ Tree(contexts', code, limits) /\ Grown(contexts, contexts')
       /\ \A k \in DOMAIN out.links : InScope(out.links[k], code, contexts')
  BY <1>1, <1>16 DEF Welcome
<1>18. Len(out.links) \in Nat /\ DOMAIN out.links = 1 .. Len(out.links)
  BY <1>17, ListShape
<1>19. work' \in 0 .. limits.work
  <2>1. work' = paid + out.cost + IF afford THEN Len(out.links) ELSE 0
    BY <1>1
  <2>2. out.cost \in Nat /\ paid + out.cost <= limits.work
    BY <1>3, <1>14, <1>17
  <2>3. CASE afford
    BY <1>3, <1>14, <1>18, <2>1, <2>2, <2>3
  <2>4. CASE ~afford
    <3>1. work' = paid + out.cost + 0
      BY <2>1, <2>4
    <3> QED
      BY <1>3, <1>14, <2>2, <3>1
  <2> QED
    BY <2>3, <2>4
<1>20. Len(links) \in 0 .. MaxInputs - used
  <2>1. CASE fits
    BY <1>3, <1>15, <1>18, <2>1
  <2>2. CASE ~fits
    <3>1. MaxInputs - used \in 0 .. Len(out.links)
      BY <1>3, <1>15, <1>18, <2>2
    <3>2. links = SubSeq(out.links, 1, MaxInputs - used)
      BY <2>2
    <3>3. Len(SubSeq(out.links, 1, MaxInputs - used)) = MaxInputs - used
      BY <1>17, <3>1, ListSub
    <3> QED
      BY <1>3, <1>15, <3>2, <3>3
  <2> QED
    BY <2>1, <2>2
<1>21. inputsUsed' \in 0 .. MaxInputs
  <2> HIDE DEF links
  <2> QED
    BY <1>1, <1>3, <1>15, <1>20
<1>22. fits /\ afford => last.links = out.links /\ last.boundary = out.boundary
  OBVIOUS
<1>23. last.ref = Ref(here.ctx, head.var) /\ last.inputs = out.inputs
  OBVIOUS
<1> HIDE DEF links, last
<1>24. /\ IsList(nodes') /\ Len(nodes') = Len(nodes) + 1 /\ Len(nodes) \in Nat
       /\ DOMAIN nodes' = 1 .. Len(nodes) + 1 /\ DOMAIN nodes = 1 .. Len(nodes)
       /\ \A i \in 1 .. Len(nodes) : nodes'[i] = nodes[i]
       /\ nodes'[Len(nodes) + 1] = last
  BY <1>1, <1>2, ListAppend, ListShape
<1>25. Bounded'
  <2>1. Len(nodes') <= limits.nodes
    BY <1>3, <1>4, <1>5, <1>24
  <2> QED
    BY <1>1, <1>17, <1>19, <1>21, <2>1 DEF Bounded
<1>26. /\ IsList(jobs') /\ \A j \in DOMAIN jobs' : InScope(jobs'[j].ref, code, contexts')
       /\ \A j \in DOMAIN jobs : j \in DOMAIN jobs' /\ jobs'[j] = jobs[j]
  <2> DEFINE more == LinkJobs(out.links, depth)
  <2>1. /\ IsList(more) /\ Len(more) = Len(out.links) /\ DOMAIN more = 1 .. Len(out.links)
        /\ \A k \in 1 .. Len(out.links) : more[k].ref = out.links[k]
    <3> DEFINE S == {more[k] : k \in DOMAIN out.links}
    <3> HIDE DEF depth
    <3>1. /\ more \in [1 .. Len(out.links) -> S]
          /\ \A k \in 1 .. Len(out.links) : more[k].ref = out.links[k]
      BY <1>18 DEF LinkJobs
    <3> HIDE DEF S, more
    <3> QED
      BY <1>18, <3>1, ListMade
  <2>2. jobs' = jobs \o more
    BY <1>1
  <2> HIDE DEF more
  <2>3. /\ IsList(jobs \o more) /\ DOMAIN (jobs \o more) = 1 .. Len(jobs) + Len(more)
        /\ \A i \in 1 .. Len(jobs) : (jobs \o more)[i] = jobs[i]
        /\ \A i \in 1 .. Len(more) : (jobs \o more)[Len(jobs) + i] = more[i]
    <3>1. IsList(jobs) /\ IsList(more)
      BY <1>2, <2>1
    <3> QED
      BY <3>1, ListJoin
  <2>4. Len(jobs) \in Nat /\ DOMAIN jobs = 1 .. Len(jobs)
    BY <1>2, ListShape
  <2> DEFINE all == jobs \o more
  <2>5. jobs' = all
    BY <2>2
  <2>6. /\ IsList(all) /\ DOMAIN all = 1 .. Len(jobs) + Len(more)
        /\ \A i \in 1 .. Len(jobs) : all[i] = jobs[i]
        /\ \A i \in 1 .. Len(more) : all[Len(jobs) + i] = more[i]
    BY <2>3
  <2> HIDE DEF all
  <2>7. ASSUME NEW j \in DOMAIN all PROVE InScope(all[j].ref, code, contexts')
    <3>1. CASE j <= Len(jobs)
      <4>1. j \in DOMAIN jobs /\ all[j] = jobs[j]
        BY <2>1, <2>4, <2>6, <3>1
      <4>2. InScope(jobs[j].ref, code, contexts)
        BY <1>2, <4>1
      <4> QED
        BY <1>17, <4>1, <4>2, ScopeStays
    <3>2. CASE j > Len(jobs)
      <4>1. j - Len(jobs) \in 1 .. Len(more) /\ j = Len(jobs) + (j - Len(jobs))
        BY <1>18, <2>1, <2>4, <2>6, <3>2
      <4>2. all[j] = more[j - Len(jobs)]
        BY <2>6, <4>1
      <4>3. all[j].ref = out.links[j - Len(jobs)] /\ j - Len(jobs) \in DOMAIN out.links
        BY <1>18, <2>1, <4>1, <4>2
      <4> QED
        BY <1>17, <4>3
    <3> QED
      BY <1>18, <2>1, <2>4, <2>6, <3>1, <3>2
  <2>8. ASSUME NEW j \in DOMAIN jobs PROVE j \in DOMAIN all /\ all[j] = jobs[j]
    BY <1>18, <2>1, <2>4, <2>6
  <2> QED
    BY <2>5, <2>6, <2>7, <2>8
<1>27. IsList(pending') /\ Len(pending') \in 0 .. Len(pending) - 1
       /\ \A j \in DOMAIN pending' : \E i \in DOMAIN pending : pending'[j] = pending[i]
  <2>1. CASE full
    <3>1. pending' = <<>>
      BY <1>1, <2>1
    <3>2. <<>> \in Seq({}) /\ Len(<<>>) = 0 /\ DOMAIN <<>> = {}
      OBVIOUS
    <3>3. IsList(<<>>)
      BY <3>2 DEF IsList
    <3> QED
      BY <1>4, <3>1, <3>2, <3>3
  <2>2. CASE ~full
    <3>1. pending' = Tail(pending)
      BY <1>1, <2>2
    <3>2. \A i \in 1 .. Len(pending) - 1 : i + 1 \in DOMAIN pending
      BY <1>4
    <3> QED
      BY <1>4, <3>1, <3>2
  <2> QED
    BY <2>1, <2>2
<1>28. Scoped'
  <2>1. here.ctx \in DOMAIN contexts'
    BY <1>2, <1>17 DEF Grown
  <2> QED
    BY <1>1, <1>2, <1>24, <1>26, <1>27, <2>1 DEF Scoped
<1>29. contexts'[here.ctx] = contexts[here.ctx]
  BY <1>2, <1>17, Zenon DEF Grown
<1>30. Staged'
  <2>1. Len(nodes') + Len(pending') <= limits.nodes
    BY <1>3, <1>4, <1>5, <1>24, <1>27
  <2>2. ASSUME NEW j \in DOMAIN pending'
        PROVE  Faithful(pending'[j], code[contexts'[here.ctx].fn].vars, ~cutShort')
    <3>1. PICK i \in DOMAIN pending : pending'[j] = pending[i]
      BY <1>27
    <3>2. Faithful(pending[i], vars, ~cutShort) /\ (~cutShort' => ~cutShort)
      BY <1>1, <1>5
    <3>3. vars = code[contexts'[here.ctx].fn].vars
      BY <1>29 DEF vars, Fn
    <3> QED
      BY <3>1, <3>2, <3>3, Zenon DEF Faithful
  <2> QED
    BY <1>1, <2>1, <2>2 DEF Staged
<1>31. NothingMissing'
  <2> SUFFICES ASSUME ~cutShort'
               PROVE  /\ \A i \in DOMAIN nodes' : /\ InScope(nodes'[i].ref, code', contexts')
                                                  /\ Sound(nodes'[i], code', contexts')
                      /\ visited' \subseteq Included' /\ RootKept'
    BY DEF NothingMissing
  <2>1. ~cutShort /\ ~cut /\ afford /\ fits /\ ~full
    BY <1>1
  <2>2. /\ \A i \in DOMAIN nodes : /\ InScope(nodes[i].ref, code, contexts)
                                   /\ Sound(nodes[i], code, contexts)
        /\ visited \subseteq Included /\ RootKept
    BY <1>1, <2>1 DEF SInv, NothingMissing
  <2>3. whole /\ Entered(last, node, out)
    BY <1>10, <1>22, <1>23, <2>1 DEF whole, Entered
  <2>4. Sound(last, code, contexts')
    BY <1>16, <2>3
  <2>5. InScope(last.ref, code, contexts')
    <3>1. last.ref.ctx = here.ctx /\ last.ref.var = head.var
      BY <1>23 DEF Ref
    <3>2. head.var \in DOMAIN code[contexts'[here.ctx].fn].vars
      BY <1>6, <1>29, Zenon DEF Faithful, vars, Fn
    <3>3. here.ctx \in DOMAIN contexts'
      BY <1>2, <1>17 DEF Grown
    <3> QED
      BY <3>1, <3>2, <3>3 DEF InScope
  <2>6. ASSUME NEW i \in DOMAIN nodes'
        PROVE  InScope(nodes'[i].ref, code, contexts') /\ Sound(nodes'[i], code, contexts')
    <3>1. CASE i \in DOMAIN nodes
      <4>1. nodes'[i] = nodes[i] /\ InScope(nodes[i].ref, code, contexts)
            /\ Sound(nodes[i], code, contexts)
        BY <1>24, <2>2, <3>1
      <4> QED
        BY <1>17, <4>1, ScopeStays, SoundStays
    <3>2. CASE i = Len(nodes) + 1
      BY <1>24, <2>4, <2>5, <3>2
    <3> QED
      BY <1>24, <3>1, <3>2
  <2>7. Included' = Included \cup {Ref(here.ctx, head.var)}
    <3>1. ASSUME NEW i \in DOMAIN nodes' PROVE nodes'[i].ref \in Included \cup {last.ref}
      BY <1>24 DEF Included
    <3>2. ASSUME NEW r \in Included PROVE \E i \in DOMAIN nodes' : nodes'[i].ref = r
      BY <1>24 DEF Included
    <3>3. \E i \in DOMAIN nodes' : nodes'[i].ref = last.ref
      BY <1>24
    <3>4. Included' = Included \cup {last.ref}
      BY <3>1, <3>2, <3>3 DEF Included
    <3> QED
      BY <1>23, <3>4
  <2>8. visited' \subseteq Included'
    BY <1>1, <2>2, <2>7
  <2>9. RootKept'
    <3>1. CASE Ref(1, 1) \in Included
      BY <2>7, <3>1 DEF RootKept
    <3>2. ASSUME NEW j \in DOMAIN jobs, jobs[j].ref = Ref(1, 1) PROVE RootKept'
      <4>1. j \in DOMAIN jobs' /\ jobs'[j].ref = Ref(1, 1) /\ phase' # "finish"
        BY <1>1, <1>26, <3>2
      <4> QED
        BY <4>1 DEF RootKept
    <3>3. ASSUME here.ctx = 1, NEW j \in DOMAIN pending, pending[j].var = 1 PROVE RootKept'
      <4>1. CASE pending[j] = head
        BY <2>7, <3>3, <4>1 DEF RootKept
      <4>2. CASE pending[j] # head
        <5>1. \E i \in DOMAIN Tail(pending) : Tail(pending)[i] = pending[j]
          BY <1>1, <1>2, <4>2, FirstOff DEF head
        <5>2. pending' = Tail(pending)
          BY <1>1, <2>1
        <5> QED
          BY <1>1, <3>3, <5>1, <5>2 DEF RootKept
      <4> QED
        BY <4>1, <4>2
    <3> QED
      BY <1>1, <2>2, <3>1, <3>2, <3>3 DEF RootKept
  <2> QED
    BY <1>1, <2>6, <2>8, <2>9
<1>32. LInv'
  BY <1>1, LocalSame DEF SInv
<1>33. Resulting'
  BY <1>1 DEF Resulting
<1>34. Tree(contexts', code', limits')
  BY <1>1, <1>17
<1> QED
  BY <1>25, <1>28, <1>30, <1>31, <1>32, <1>33, <1>34 DEF SInv

---------------------------------------------------------------------------
(* The slice is what it says                                               *)

\* The inductive invariant: the local walk counts what it has seen, the contexts
\* form a tree in which no function is above itself, every limit holds, and as long
\* as nothing was cut short no source of a value is missing.
THEOREM SInvariance == ISpec => []SInv
<1>1. IInit => SInv
  BY SInitial
<1>2. SInv /\ [INext]_ivars => SInv'
  BY SkipJobKeeps, CutKeeps, StartJobKeeps, EndKeeps, LocalStepKeeps, LocalEndsKeeps,
     SkipNodeKeeps, AdmitKeeps, FinishesKeep, SStutter DEF INext
<1> QED
  BY <1>1, <1>2, PTL DEF ISpec

\* Every limit of the traversal holds at every step, whatever the program, the
\* limits and the functions that can be loaded, and recursion is cut.
THEOREM LimitsAlwaysHold == ISpec => []LimitsHold
<1>1. SInv => LimitsHold
  <2> SUFFICES ASSUME SInv PROVE LimitsHold
    OBVIOUS
  <2>1. limits \in LimitSets /\ Tree(contexts, code, limits) /\ Bounded
    BY DEF SInv, Scoped
  <2>2. limits.nodes \in Nat /\ limits.callDepth \in Nat /\ limits.work \in Nat
    BY <2>1, LimitsAre
  <2>3. /\ Len(nodes) <= limits.nodes /\ Cardinality(functions) <= limits.functions
        /\ work <= limits.work /\ inputsUsed <= MaxInputs /\ Len(contexts) <= limits.nodes
    BY <2>1, <2>2, BackwardSliceAssumption DEF Bounded, Tree
  <2>4. ASSUME NEW c \in DOMAIN contexts
        PROVE  /\ contexts[c].depth <= limits.callDepth
               /\ \A d \in Chain(c) \ {c} : Fn(d) # Fn(c)
    <3>1. contexts[c].depth \in 0 .. limits.callDepth
      BY <2>1 DEF Tree
    <3>2. \A d \in Up(contexts, c) \ {c} : contexts[d].fn # contexts[c].fn
      BY <2>1 DEF Tree
    <3> QED
      BY <2>2, <3>1, <3>2, ChainIs DEF Fn
  <2> QED
    BY <2>3, <2>4 DEF LimitsHold
<1> QED
  BY <1>1, SInvariance, PTL

\* An edge of the result that carries no stop reason leads to a node of the result,
\* and one of a local slice to what is in it or still waiting.
THEOREM EdgesAreHonest == ISpec => []EdgesHonest
<1>1. SInv => EdgesHonest
  BY LocalHonest DEF SInv, Resulting, ResultHonest, EdgesHonest
<1> QED
  BY <1>1, SInvariance, PTL

\* A slice reported as complete contains everything its root is computed from, each
\* in its own calling context.
THEOREM CompleteIsClosed == ISpec => []CompleteClosed
<1>1. SInv => CompleteClosed
  <2> SUFFICES ASSUME SInv PROVE CompleteClosed
    OBVIOUS
  <2>1. LocalCompleteClosed
    BY LocalCloses DEF SInv
  <2>2. phase = "done" /\ complete =>
           Ref(1, 1) \in Included /\ \A r \in Included : ClosedAt(r, code, contexts, Included)
    BY DEF SInv, Resulting
  <2> QED
    BY <2>1, <2>2, Zenon DEF CompleteClosed, ClosedAt, Var, Fn
<1> QED
  BY <1>1, SInvariance, PTL

=============================================================================
