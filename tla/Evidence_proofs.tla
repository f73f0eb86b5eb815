--------------------------- MODULE Evidence_proofs ---------------------------
(***************************************************************************)
(* Proofs about evidence stores and bundles, for any number of processes,  *)
(* stores and records and any acyclic references between them, with        *)
(* commands failing or killed at any step.                                 *)
(***************************************************************************)
EXTENDS Evidence, FiniteSetTheorems, SequenceTheorems, TLAPS

Jobs == [pc : {"store", "rename"}, cmd : {"observe", "import"}, dir : Stores,
         todo : Seq(Ids \X Executions), into : Stores \cup {None}, cites : (SUBSET Ids) \cup {None}]
Exports == [pc : {"export"}, dir : Stores, records : SUBSET Ids, cites : (SUBSET Ids) \cup {None}]

\* The records a job has not looked at yet.
Todo(q) == {q.todo[i][1] : i \in 1..Len(q.todo)}

ProcOK ==
  /\ proc \in [Procs -> {Idle} \cup Jobs \cup Exports]
  /\ halfway \subseteq Stores

\* What each store holds.
Holdings == [s \in Stores |-> Held(s)]

\* A record that is about to be stored finds its references in the store or,
\* in an import, among the records that follow.
JobOK(q, H) ==
  /\ q.pc = "rename" => q.todo # <<>>
  /\ \A id \in Todo(q) :
       Refs[id] \subseteq H[q.dir] \cup (IF q.cmd = "import" THEN Todo(q) ELSE {})

\* Process record q is an import that has yet to bring record r to store s.
Brings(q, s, r) == q \in Jobs /\ q.cmd = "import" /\ q.dir = s /\ r \in Todo(q)

\* Where a stored record lacks a reference, an import is bringing it.
RefsOK ==
  \A s \in Stores \ halfway : \A id \in Holdings[s] : \A r \in Refs[id] :
    r \in Holdings[s] \/ \E p \in Procs : Brings(proc[p], s, r)

IInv ==
  /\ TypeOK
  /\ ProcOK
  /\ \A p \in Procs : proc[p] \in Jobs => JobOK(proc[p], Holdings)
  /\ RefsOK

---------------------------------------------------------------------------
(* Records, jobs and what one step does to them *)

\* Looking at the first record leaves the others.
LEMMA TodoTail ==
  ASSUME NEW t \in Seq(Ids \X Executions), t # <<>>
  PROVE  /\ Head(t)[1] \in Ids /\ Head(t)[2] \in Executions
         /\ Tail(t) \in Seq(Ids \X Executions)
         /\ {t[i][1] : i \in 1..Len(t)} =
              {Head(t)[1]} \cup {Tail(t)[i][1] : i \in 1..Len(Tail(t))}
<1>1. /\ Head(t) = t[1] /\ Tail(t) \in Seq(Ids \X Executions)
      /\ Len(t) \in Nat /\ Len(t) >= 1 /\ Len(Tail(t)) = Len(t) - 1
      /\ \A i \in 1..Len(Tail(t)) : Tail(t)[i] = t[i + 1]
  BY HeadTailProperties, EmptySeq
<1>2. t[1] \in Ids \X Executions
  BY <1>1
<1>3. ASSUME NEW i \in 1..Len(t), i # 1
      PROVE  i - 1 \in 1..Len(Tail(t)) /\ Tail(t)[i - 1] = t[i]
  BY <1>1, <1>3
<1>4. ASSUME NEW i \in 1..Len(Tail(t)) PROVE i + 1 \in 1..Len(t) /\ Tail(t)[i] = t[i + 1]
  BY <1>1
<1>5. 1 \in 1..Len(t)
  BY <1>1
<1>6. {t[i][1] : i \in 1..Len(t)} \subseteq {t[1][1]} \cup {Tail(t)[i][1] : i \in 1..Len(Tail(t))}
  BY <1>3
<1>7. {t[1][1]} \cup {Tail(t)[i][1] : i \in 1..Len(Tail(t))} \subseteq {t[i][1] : i \in 1..Len(t)}
  BY <1>4, <1>5
<1> QED
  BY <1>1, <1>2, <1>6, <1>7

\* The step a process is at says what its record is.
LEMMA StateKinds ==
  ASSUME NEW q \in {Idle} \cup Jobs \cup Exports
  PROVE  /\ q.pc \in {"store", "rename"} <=> q \in Jobs
         /\ q.pc = "export" <=> q \in Exports
         /\ q.pc \in {"idle", "store", "rename", "export"}
BY DEF Idle, Jobs, Exports

\* What a store holds only grows.
Grows == \A s \in Stores : Holdings[s] \subseteq Holdings'[s]

LEMMA JobGrows ==
  ASSUME NEW q \in Jobs, JobOK(q, Holdings), Grows
  PROVE  JobOK(q, Holdings')
BY DEF JobOK, Grows, Jobs

\* The closure of some roots holds them, and is closed.
LEMMA ClosureIs ==
  ASSUME NEW roots \in SUBSET Ids
  PROVE  /\ Closure(roots) \subseteq Ids /\ roots \subseteq Closure(roots)
         /\ \A id \in Closure(roots) : Refs[id] \subseteq Closure(roots)
<1>1. Closure(roots) \subseteq Ids /\ roots \subseteq Closure(roots)
  BY DEF Closure
<1>2. ASSUME NEW id \in Closure(roots), NEW r \in Refs[id] PROVE r \in Closure(roots)
  <2>1. r \in Ids
    BY <1>1, RefsAssumption
  <2>2. ASSUME NEW S \in SUBSET Ids, roots \subseteq S, \A x \in S : Refs[x] \subseteq S
        PROVE  r \in S
    <3>1. id \in S
      BY <2>2 DEF Closure
    <3> QED
      BY <2>2, <3>1
  <2> QED
    BY <2>1, <2>2 DEF Closure
<1> QED
  BY <1>1, <1>2

\* A bundle is copied record by record, all of it.
LEMMA OrderIs ==
  ASSUME NEW S \in SUBSET Ids, NEW f \in [S -> Executions], NEW order \in Ascending(S),
         NEW t, t = [i \in DOMAIN order |-> <<order[i], f[order[i]]>>]
  PROVE  /\ t \in Seq(Ids \X Executions)
         /\ {t[i][1] : i \in 1..Len(t)} = S
<1> DEFINE n == Cardinality(S)
<1>1. n \in Nat
  BY FS_Subset, FS_CardinalityType, RefsAssumption
<1>2. DOMAIN order = 1..n /\ (\A i \in 1..n : order[i] \in S) /\ Range(order) = S
  BY DEF Ascending
<1> HIDE DEF n
<1>3. \A i \in 1..n : t[i] = <<order[i], f[order[i]]>> /\ t[i] \in Ids \X Executions /\ t[i][1] = order[i]
  BY <1>2
<1>4. t \in Seq(Ids \X Executions) /\ Len(t) = n
  BY <1>1, <1>2, <1>3
<1>5. {t[i][1] : i \in 1..n} = {order[i] : i \in 1..n}
  <2>1. \A i \in 1..n : t[i][1] = order[i]
    BY <1>3
  <2> QED
    BY <2>1, Zenon
<1>6. {order[i] : i \in 1..n} = S
  BY <1>2 DEF Range
<1> QED
  BY <1>4, <1>5, <1>6

---------------------------------------------------------------------------
(* The inductive invariant *)

\* A process takes its next state q.  The invariant survives if q is sound,
\* if the records that are new in a store find their references there or in
\* an import, and if an import that brings a record no longer has brought it
\* or is known to have stopped.
LEMMA StepKeeps ==
  ASSUME IInv, NEW p \in Procs, NEW q \in {Idle} \cup Jobs \cup Exports,
         proc' = [proc EXCEPT ![p] = q], Grows, TypeOK',
         halfway \subseteq halfway', halfway' \subseteq Stores,
         q \in Jobs => JobOK(q, Holdings'),
         \A s \in Stores \ halfway' : \A r \in Ids :
           Brings(proc[p], s, r) => r \in Holdings'[s] \/ Brings(q, s, r),
         \A s \in Stores \ halfway' : \A id \in Holdings'[s] \ Holdings[s] : \A r \in Refs[id] :
           r \in Holdings'[s] \/ Brings(q, s, r)
  PROVE  IInv'
<1>1. ProcOK' /\ proc'[p] = q /\ \A o \in Procs : o = p \/ proc'[o] = proc[o]
  BY DEF IInv, ProcOK
<1>2. \A o \in Procs : proc'[o] \in Jobs => JobOK(proc'[o], Holdings')
  BY <1>1, JobGrows DEF IInv
<1>3. RefsOK'
  <2> SUFFICES ASSUME NEW s \in Stores \ halfway', NEW id \in Holdings'[s], NEW r \in Refs[id]
               PROVE  r \in Holdings'[s] \/ \E o \in Procs : Brings(proc'[o], s, r)
    BY DEF RefsOK
  <2>1. CASE id \notin Holdings[s]
    <3>1. r \in Holdings'[s] \/ Brings(q, s, r)
      BY <2>1
    <3> QED
      BY <1>1, <3>1
  <2>2. CASE id \in Holdings[s]
    <3>1. id \in Ids /\ r \in Ids
      BY <2>2, RefsAssumption DEF Holdings, Held
    <3>2. r \in Holdings[s] \/ \E o \in Procs : Brings(proc[o], s, r)
      BY <2>2 DEF IInv, RefsOK
    <3>3. CASE r \in Holdings[s]
      BY <3>3 DEF Grows
    <3>4. ASSUME NEW o \in Procs, Brings(proc[o], s, r)
          PROVE  r \in Holdings'[s] \/ \E x \in Procs : Brings(proc'[x], s, r)
      <4>1. CASE o = p
        <5>1. r \in Holdings'[s] \/ Brings(q, s, r)
          BY <3>1, <3>4, <4>1
        <5> QED
          BY <1>1, <5>1
      <4>2. CASE o # p
        BY <1>1, <3>4, <4>2
      <4> QED
        BY <4>1, <4>2
    <3> QED
      BY <3>2, <3>3, <3>4
  <2> QED
    BY <2>1, <2>2
<1> QED
  BY <1>1, <1>2, <1>3 DEF IInv

\* The same when no store changes.
LEMMA QuietStep ==
  ASSUME IInv, NEW p \in Procs, NEW q \in {Idle} \cup Jobs \cup Exports,
         proc' = [proc EXCEPT ![p] = q], disk' = disk, TypeOK',
         halfway \subseteq halfway', halfway' \subseteq Stores,
         q \in Jobs => JobOK(q, Holdings),
         \A s \in Stores \ halfway' : \A r \in Ids :
           Brings(proc[p], s, r) => r \in Holdings[s] \/ Brings(q, s, r)
  PROVE  IInv'
<1>1. Holdings' = Holdings
  BY DEF Holdings, Held
<1>2. Grows
  BY <1>1 DEF Grows
<1> QED
  BY <1>1, <1>2, StepKeeps

\* A process that was idle brings nothing.
LEMMA IdleBrings ==
  ASSUME ProcOK, NEW p \in Procs, proc[p].pc \notin {"store", "rename"}
  PROVE  \A s, r : ~Brings(proc[p], s, r)
BY StateKinds DEF ProcOK, Brings

\* What a process that stores records is doing.
LEMMA AtWork ==
  ASSUME IInv, NEW p \in Procs, proc[p].pc \in {"store", "rename"}
  PROVE  /\ proc[p] \in Jobs /\ JobOK(proc[p], Holdings)
         /\ proc[p].dir \in Stores /\ proc[p].todo \in Seq(Ids \X Executions)
         /\ proc[p].into \in Stores \cup {None} /\ proc[p].cites \in (SUBSET Ids) \cup {None}
<1>1. proc[p] \in Jobs
  BY StateKinds DEF IInv, ProcOK
<1> QED
  BY <1>1 DEF IInv, Jobs

\* preflight() has seen the references of the record it lets through.
LEMMA PreflightKeeps ==
  ASSUME IInv, NEW p \in Procs, NEW s \in Stores, NEW id \in Ids, Preflight(p, s, id)
  PROVE  IInv'
<1> DEFINE t == <<<<id, p>>>>
<1> DEFINE q == [pc |-> "store", cmd |-> "observe", dir |-> s, todo |-> t,
                 into |-> None, cites |-> None]
<1>1. t \in Seq(Ids \X Executions) /\ Len(t) = 1 /\ t[1][1] = id
  BY DEF Executions
<1> HIDE DEF t
<1>2. q \in Jobs /\ Todo(q) = {id} /\ q.dir = s /\ q.pc = "store" /\ q.cmd = "observe"
  <2>1. q \in Jobs
    BY <1>1 DEF Jobs
  <2>2. q.todo = t /\ 1..1 = {1}
    OBVIOUS
  <2>3. Todo(q) = {t[i][1] : i \in {1}}
    BY <1>1, <2>2 DEF Todo
  <2>4. Todo(q) = {id}
    BY <1>1, <2>3
  <2> QED
    BY <2>1, <2>4
<1>3. proc' = [proc EXCEPT ![p] = q] /\ disk' = disk /\ halfway' = halfway
  BY DEF Preflight, Becomes, files, t
<1> HIDE DEF q
<1>4. JobOK(q, Holdings)
  BY <1>2 DEF JobOK, Holdings, Preflight
<1>5. \A x, r : ~Brings(proc[p], x, r)
  BY IdleBrings DEF IInv, Preflight, Starts
<1>6. TypeOK'
  <2>1. \A o \in Procs : proc'[o].pc \in {"idle", "store", "rename", "export"}
    BY <1>2, <1>3 DEF IInv, TypeOK, ProcOK
  <2> QED
    BY <2>1, OtherAssumption DEF IInv, TypeOK, Preflight, Starts, files
<1> QED
  BY <1>2, <1>3, <1>4, <1>5, <1>6, QuietStep DEF IInv, ProcOK

\* A record that is there already is passed over.
LEMMA ExistingKeeps ==
  ASSUME IInv, NEW p \in Procs, StoreExisting(p)
  PROVE  IInv'
<1> DEFINE j == proc[p]
<1> DEFINE q == [j EXCEPT !.todo = Tail(@)]
<1>1. /\ j \in Jobs /\ JobOK(j, Holdings) /\ j.dir \in Stores
      /\ j.todo \in Seq(Ids \X Executions) /\ j.todo # <<>> /\ j.pc = "store"
  BY AtWork DEF StoreExisting
<1>2. /\ Tail(j.todo) \in Seq(Ids \X Executions)
      /\ Todo(j) = {Head(j.todo)[1]} \cup {Tail(j.todo)[i][1] : i \in 1..Len(Tail(j.todo))}
  BY <1>1, TodoTail DEF Todo
<1>3. q \in Jobs /\ q.dir = j.dir /\ q.cmd = j.cmd /\ q.pc = "store" /\ q.todo = Tail(j.todo)
  BY <1>1, <1>2 DEF Jobs
<1>4. Todo(j) = {Head(j.todo)[1]} \cup Todo(q)
  BY <1>2, <1>3 DEF Todo
<1>5. proc' = [proc EXCEPT ![p] = q] /\ disk' = disk /\ halfway' = halfway
  BY DEF StoreExisting, files
<1>6. Head(j.todo)[1] \in Holdings[j.dir]
  BY <1>1 DEF StoreExisting, Holdings
<1> HIDE DEF q
<1>7. JobOK(q, Holdings)
  BY <1>1, <1>3, <1>4, <1>6 DEF JobOK
<1>8. \A s \in Stores : \A r \in Ids : Brings(j, s, r) => r \in Holdings[s] \/ Brings(q, s, r)
  BY <1>3, <1>4, <1>6 DEF Brings
<1>9. TypeOK'
  <2>1. \A o \in Procs : proc'[o].pc \in {"idle", "store", "rename", "export"}
    BY <1>3, <1>5 DEF IInv, TypeOK, ProcOK
  <2> QED
    BY <2>1 DEF IInv, TypeOK, StoreExisting, files
<1> QED
  BY <1>3, <1>5, <1>7, <1>8, <1>9, QuietStep DEF IInv, ProcOK

LEMMA MissingKeeps ==
  ASSUME IInv, NEW p \in Procs, StoreMissing(p)
  PROVE  IInv'
<1> DEFINE j == proc[p]
<1> DEFINE q == [j EXCEPT !.pc = "rename"]
<1>1. /\ j \in Jobs /\ JobOK(j, Holdings) /\ j.todo # <<>>
  BY AtWork DEF StoreMissing
<1>2. q \in Jobs /\ q.dir = j.dir /\ q.cmd = j.cmd /\ q.pc = "rename" /\ q.todo = j.todo
  BY <1>1 DEF Jobs
<1>3. Todo(q) = Todo(j)
  BY <1>2 DEF Todo
<1>4. proc' = [proc EXCEPT ![p] = q] /\ disk' = disk /\ halfway' = halfway
  BY DEF StoreMissing, files
<1> HIDE DEF q
<1>5. JobOK(q, Holdings)
  BY <1>1, <1>2, <1>3 DEF JobOK
<1>6. \A s \in Stores : \A r \in Ids : Brings(j, s, r) => Brings(q, s, r)
  BY <1>2, <1>3 DEF Brings
<1>7. TypeOK'
  <2>1. \A o \in Procs : proc'[o].pc \in {"idle", "store", "rename", "export"}
    BY <1>2, <1>4 DEF IInv, TypeOK, ProcOK
  <2> QED
    BY <2>1 DEF IInv, TypeOK, StoreMissing, files
<1> QED
  BY <1>2, <1>4, <1>5, <1>6, <1>7, QuietStep DEF IInv, ProcOK

\* The rename: one more record is held.
LEMMA RenameHolds ==
  ASSUME IInv, NEW p \in Procs, StoreRename(p)
  PROVE  LET id == Head(proc[p].todo)[1] IN
         /\ id \in Ids /\ disk' \in [Stores -> [Ids -> Executions \cup {None}]]
         /\ \A s \in Stores :
              Holdings'[s] = Holdings[s] \cup (IF s = proc[p].dir THEN {id} ELSE {})
<1> DEFINE d == proc[p].dir
<1> DEFINE id == Head(proc[p].todo)[1]
<1> DEFINE x == Head(proc[p].todo)[2]
<1>1. /\ JobOK(proc[p], Holdings) /\ d \in Stores /\ proc[p].todo \in Seq(Ids \X Executions)
  BY AtWork DEF StoreRename
<1>2. proc[p].todo # <<>>
  BY <1>1 DEF JobOK, StoreRename
<1>3. id \in Ids /\ x \in Executions /\ x # None
  BY <1>1, <1>2, TodoTail, OtherAssumption DEF Executions
<1>4. disk' = [disk EXCEPT ![d][id] = x]
  BY DEF StoreRename
<1>5. disk \in [Stores -> [Ids -> Executions \cup {None}]]
  BY DEF IInv, TypeOK
<1> HIDE DEF d, id, x
<1>6. disk' \in [Stores -> [Ids -> Executions \cup {None}]]
  BY <1>1, <1>3, <1>4, <1>5
<1>7. \A s \in Stores, i \in Ids : disk'[s][i] = IF s = d /\ i = id THEN x ELSE disk[s][i]
  BY <1>1, <1>3, <1>4, <1>5
<1>8. \A s \in Stores : Holdings'[s] = {i \in Ids : disk'[s][i] # None}
  BY DEF Holdings, Held
<1>9. \A s \in Stores : Holdings[s] = {i \in Ids : disk[s][i] # None}
  BY DEF Holdings, Held
<1>10. \A s \in Stores : Holdings'[s] = Holdings[s] \cup (IF s = d THEN {id} ELSE {})
  BY <1>3, <1>7, <1>8, <1>9
<1> QED
  BY <1>3, <1>6, <1>10 DEF d, id

LEMMA RenameKeeps ==
  ASSUME IInv, NEW p \in Procs, StoreRename(p)
  PROVE  IInv'
<1> DEFINE j == proc[p]
<1> DEFINE id == Head(j.todo)[1]
<1> DEFINE q == [j EXCEPT !.pc = "store", !.todo = Tail(@)]
<1>1. /\ j \in Jobs /\ JobOK(j, Holdings) /\ j.dir \in Stores
      /\ j.todo \in Seq(Ids \X Executions) /\ j.todo # <<>>
  BY AtWork DEF StoreRename, JobOK
<1>2. /\ Tail(j.todo) \in Seq(Ids \X Executions)
      /\ Todo(j) = {id} \cup {Tail(j.todo)[i][1] : i \in 1..Len(Tail(j.todo))}
  BY <1>1, TodoTail DEF Todo
<1>3. q \in Jobs /\ q.dir = j.dir /\ q.cmd = j.cmd /\ q.pc = "store" /\ q.todo = Tail(j.todo)
  BY <1>1, <1>2 DEF Jobs
<1>4. Todo(j) = {id} \cup Todo(q)
  BY <1>2, <1>3 DEF Todo
<1>5. proc' = [proc EXCEPT ![p] = q] /\ halfway' = halfway
  BY DEF StoreRename
<1>6. /\ id \in Ids /\ disk' \in [Stores -> [Ids -> Executions \cup {None}]]
      /\ \A s \in Stores : Holdings'[s] = Holdings[s] \cup (IF s = j.dir THEN {id} ELSE {})
  BY RenameHolds
<1> HIDE DEF q, id
<1>7. Grows
  BY <1>6 DEF Grows
<1>8. JobOK(q, Holdings')
  BY <1>1, <1>3, <1>4, <1>6 DEF JobOK
<1>9. \A s \in Stores : \A r \in Ids : Brings(j, s, r) => r \in Holdings'[s] \/ Brings(q, s, r)
  BY <1>3, <1>4, <1>6 DEF Brings
<1>10. ASSUME NEW s \in Stores, NEW i \in Holdings'[s] \ Holdings[s], NEW r \in Refs[i]
       PROVE  r \in Holdings'[s] \/ Brings(q, s, r)
  <2>1. s = j.dir /\ i = id
    BY <1>6
  <2>2. r \in Holdings[s] \/ (j.cmd = "import" /\ r \in Todo(j))
    BY <1>1, <1>4, <2>1 DEF JobOK
  <2>3. CASE r \in Holdings[s]
    BY <2>3, <1>6
  <2>4. CASE j.cmd = "import" /\ r \in Todo(q)
    BY <1>3, <2>1, <2>4 DEF Brings
  <2>5. CASE r = id
    BY <2>1, <2>5, <1>6
  <2> QED
    BY <1>4, <2>2, <2>3, <2>4, <2>5
<1>11. TypeOK'
  <2>1. \A o \in Procs : proc'[o].pc \in {"idle", "store", "rename", "export"}
    BY <1>3, <1>5 DEF IInv, TypeOK, ProcOK
  <2> QED
    BY <1>6, <2>1 DEF IInv, TypeOK, StoreRename
<1> QED
  BY <1>3, <1>5, <1>7, <1>8, <1>9, <1>10, <1>11, StepKeeps DEF IInv, ProcOK

\* The last record is in place: an import has brought everything.
LEMMA StoredKeeps ==
  ASSUME IInv, NEW p \in Procs, Stored(p)
  PROVE  IInv'
<1>1. /\ proc[p].into \in Stores \cup {None} /\ proc[p].cites \in (SUBSET Ids) \cup {None}
  BY AtWork DEF Stored
<1>2. proc' = [proc EXCEPT ![p] = Idle] /\ disk' = disk /\ halfway' = halfway
  BY DEF Stored, Becomes
<1>3. Idle \notin Jobs /\ Idle.pc = "idle"
  BY DEF Idle, Jobs
<1>4. \A s, r : ~Brings(proc[p], s, r)
  <2>1. Len(proc[p].todo) = 0
    BY DEF Stored
  <2>2. Todo(proc[p]) = {}
    BY <2>1 DEF Todo
  <2> QED
    BY <2>2 DEF Brings
<1>5. cited' \in [Stores -> (SUBSET Ids) \cup {None}]
  BY <1>1 DEF Stored, IInv, TypeOK
<1>6. TypeOK'
  <2>1. \A o \in Procs : proc'[o].pc \in {"idle", "store", "rename", "export"}
    BY <1>2, <1>3 DEF IInv, TypeOK, ProcOK
  <2> QED
    BY <1>5, <2>1 DEF IInv, TypeOK, Stored
<1> QED
  BY <1>2, <1>3, <1>4, <1>6, QuietStep DEF IInv, ProcOK

\* An import that stops halfway is remembered.
LEMMA FailKeeps ==
  ASSUME IInv, NEW p \in Procs, Fail(p)
  PROVE  IInv'
<1>1. proc' = [proc EXCEPT ![p] = Idle] /\ disk' = disk
  BY DEF Fail, Becomes, files
<1>2. Idle \notin Jobs /\ Idle.pc = "idle"
  BY DEF Idle, Jobs
<1>3. halfway \subseteq halfway' /\ halfway' \subseteq Stores
  <2>1. CASE Importing(p)
    <3>1. proc[p].dir \in Stores
      BY <2>1, AtWork DEF Importing
    <3> QED
      BY <2>1, <3>1 DEF Fail, IInv, ProcOK
  <2> QED
    BY <2>1 DEF Fail, IInv, ProcOK
<1>4. ASSUME NEW s \in Stores \ halfway', NEW r PROVE ~Brings(proc[p], s, r)
  <2> SUFFICES ASSUME Brings(proc[p], s, r) PROVE FALSE
    OBVIOUS
  <2>1. Importing(p) /\ proc[p].dir = s
    BY DEF Brings, Jobs, Importing
  <2> QED
    BY <1>4, <2>1 DEF Fail
<1>5. TypeOK'
  <2>1. \A o \in Procs : proc'[o].pc \in {"idle", "store", "rename", "export"}
    BY <1>1, <1>2 DEF IInv, TypeOK, ProcOK
  <2> QED
    BY <2>1 DEF IInv, TypeOK, Fail, files
<1> QED
  BY <1>1, <1>2, <1>3, <1>4, <1>5, QuietStep

\* Citing changes no store.
LEMMA CiteKeeps ==
  ASSUME IInv, NEW p \in Procs, NEW s \in Stores,
         Investigate(p, s) \/ \E id \in Ids : Cite(p, s, id)
  PROVE  IInv'
<1>1. /\ disk' = disk /\ proc' = proc /\ halfway' = halfway /\ bundle' = bundle
      /\ ops < MaxOps /\ ops' = ops + 1
  BY DEF Investigate, Cite, Starts
<1>2. cited' \in [Stores -> (SUBSET Ids) \cup {None}]
  <2>1. CASE Investigate(p, s)
    BY <2>1 DEF Investigate, IInv, TypeOK
  <2>2. ASSUME NEW id \in Ids, Cite(p, s, id)
        PROVE  cited' \in [Stores -> (SUBSET Ids) \cup {None}]
    <3>1. cited[s] \in SUBSET Ids
      BY <2>2 DEF Cite, Open, IInv, TypeOK
    <3> QED
      BY <2>2, <3>1 DEF Cite, IInv, TypeOK
  <2> QED
    BY <2>1, <2>2
<1>3. Holdings' = Holdings
  BY <1>1 DEF Holdings, Held
<1>4. TypeOK'
  BY <1>1, <1>2, OtherAssumption DEF IInv, TypeOK
<1> QED
  BY <1>1, <1>3, <1>4 DEF IInv, ProcOK, RefsOK

LEMMA AttachKeeps ==
  ASSUME IInv, NEW p \in Procs, NEW s \in Stores, NEW inv \in Stores \cup {None},
         NEW records \in SUBSET Ids, ExportInvestigation(p, s, inv, records)
  PROVE  IInv'
<1> DEFINE c == IF inv = None THEN None ELSE cited[inv]
<1> DEFINE q == [pc |-> "export", dir |-> s, records |-> records, cites |-> c]
<1>1. c \in (SUBSET Ids) \cup {None}
  BY DEF IInv, TypeOK
<1> HIDE DEF c
<1>2. q \in Exports /\ q.pc = "export"
  BY <1>1 DEF Exports
<1>3. q \notin Jobs
  BY <1>2 DEF Jobs
<1>4. proc' = [proc EXCEPT ![p] = q] /\ disk' = disk /\ halfway' = halfway
  BY DEF ExportInvestigation, Becomes, files, c
<1> HIDE DEF q
<1>5. \A x, r : ~Brings(proc[p], x, r)
  BY IdleBrings DEF IInv, ExportInvestigation, Starts
<1>6. TypeOK'
  <2>1. \A o \in Procs : proc'[o].pc \in {"idle", "store", "rename", "export"}
    BY <1>2, <1>4 DEF IInv, TypeOK, ProcOK
  <2> QED
    BY <2>1, OtherAssumption DEF IInv, TypeOK, ExportInvestigation, Starts, files
<1> QED
  BY <1>2, <1>3, <1>4, <1>5, <1>6, QuietStep DEF IInv, ProcOK

\* What an export is doing, and the bundle it publishes.
LEMMA AtExport ==
  ASSUME IInv, NEW p \in Procs, ExportRecords(p)
  PROVE  /\ proc[p] \in Exports /\ proc[p].dir \in Stores
         /\ proc[p].cites \in (SUBSET Ids) \cup {None} /\ Roots(p) \in SUBSET Ids
         /\ \/ bundle' = bundle
            \/ LET all == Closure(Roots(p)) IN
               /\ all \subseteq Held(proc[p].dir)
               /\ bundle' = [records |-> [id \in all |-> disk[proc[p].dir][id]],
                             cites |-> proc[p].cites]
               /\ bundle' \in Bundled
<1>1. /\ proc[p] \in Exports /\ proc[p].dir \in Stores /\ proc[p].records \in SUBSET Ids
      /\ proc[p].cites \in (SUBSET Ids) \cup {None}
  BY StateKinds DEF IInv, ProcOK, ExportRecords, Exports
<1>2. Roots(p) \in SUBSET Ids
  BY <1>1 DEF Roots, Held
<1> DEFINE all == Closure(Roots(p))
<1> DEFINE recs == [id \in all |-> disk[proc[p].dir][id]]
<1>3. all \in SUBSET Ids
  BY <1>2, ClosureIs
<1>4. \/ bundle' = bundle
      \/ /\ all \subseteq Held(proc[p].dir)
         /\ bundle' = [records |-> recs, cites |-> proc[p].cites]
  BY DEF ExportRecords
<1>5. ASSUME all \subseteq Held(proc[p].dir)
      PROVE  [records |-> recs, cites |-> proc[p].cites] \in Bundled
  <2> HIDE DEF all
  <2>1. \A id \in all : disk[proc[p].dir][id] \in Executions
    BY <1>1, <1>3, <1>5 DEF IInv, TypeOK, Held
  <2>2. recs \in [all -> Executions]
    BY <2>1
  <2> HIDE DEF recs
  <2> QED
    BY <1>1, <1>3, <2>2 DEF Bundled
<1> QED
  BY <1>1, <1>2, <1>4, <1>5

LEMMA ExportKeeps ==
  ASSUME IInv, NEW p \in Procs, ExportRecords(p)
  PROVE  IInv'
<1>1. proc' = [proc EXCEPT ![p] = Idle] /\ disk' = disk /\ halfway' = halfway
  BY DEF ExportRecords, Becomes
<1>2. Idle \notin Jobs /\ Idle.pc = "idle"
  BY DEF Idle, Jobs
<1>3. \A x, r : ~Brings(proc[p], x, r)
  BY IdleBrings DEF IInv, ExportRecords
<1>4. bundle' = bundle \/ bundle' \in Bundled
  BY AtExport
<1>5. TypeOK'
  <2>1. \A o \in Procs : proc'[o].pc \in {"idle", "store", "rename", "export"}
    BY <1>1, <1>2 DEF IInv, TypeOK, ProcOK
  <2> QED
    BY <1>4, <2>1 DEF IInv, TypeOK, ExportRecords
<1> QED
  BY <1>1, <1>2, <1>3, <1>5, QuietStep DEF IInv, ProcOK

\* What an import sets out to do.
LEMMA ImportIs ==
  ASSUME IInv, NEW p \in Procs, NEW s \in Stores, NEW inv \in Stores \cup {None}, Import(p, s, inv)
  PROVE  \E q \in Jobs :
           /\ proc' = [proc EXCEPT ![p] = q]
           /\ q.pc = "store" /\ q.cmd = "import" /\ q.dir = s /\ q.into = inv
           /\ q.cites = bundle.cites /\ bundle \in Bundled
           /\ Todo(q) = DOMAIN bundle.records
<1>1. bundle \in Bundled
  BY DEF Import, IInv, TypeOK
<1>2. PICK S \in SUBSET Ids : bundle.records \in [S -> Executions]
  BY <1>1 DEF Bundled
<1>3. DOMAIN bundle.records = S /\ bundle.cites \in (SUBSET Ids) \cup {None}
  BY <1>1, <1>2 DEF Bundled
<1>4. PICK order \in Ascending(S) :
        Becomes(p, [pc |-> "store", cmd |-> "import", dir |-> s,
                    todo |-> [i \in DOMAIN order |-> <<order[i], bundle.records[order[i]]>>],
                    into |-> inv, cites |-> bundle.cites])
  BY <1>3 DEF Import
<1> DEFINE t == [i \in DOMAIN order |-> <<order[i], bundle.records[order[i]]>>]
<1> DEFINE q == [pc |-> "store", cmd |-> "import", dir |-> s, todo |-> t,
                 into |-> inv, cites |-> bundle.cites]
<1>5. /\ proc' = [proc EXCEPT ![p] = q]
      /\ t = [i \in DOMAIN order |-> <<order[i], bundle.records[order[i]]>>]
  BY <1>4 DEF Becomes
<1> HIDE DEF t
<1>6. t \in Seq(Ids \X Executions) /\ {t[i][1] : i \in 1..Len(t)} = S
  BY <1>2, <1>5, OrderIs
<1>7. /\ q \in Jobs /\ q.pc = "store" /\ q.cmd = "import" /\ q.dir = s /\ q.into = inv
      /\ q.cites = bundle.cites /\ q.todo = t
  BY <1>3, <1>6 DEF Jobs
<1> HIDE DEF q
<1>8. Todo(q) = S
  BY <1>6, <1>7 DEF Todo
<1> QED
  BY <1>1, <1>3, <1>5, <1>7, <1>8

LEMMA ImportKeeps ==
  ASSUME IInv, NEW p \in Procs, NEW s \in Stores, NEW inv \in Stores \cup {None}, Import(p, s, inv)
  PROVE  IInv'
<1>1. PICK q \in Jobs :
           /\ proc' = [proc EXCEPT ![p] = q]
           /\ q.pc = "store" /\ q.cmd = "import" /\ q.dir = s
           /\ Todo(q) = DOMAIN bundle.records
  BY ImportIs
<1>2. JobOK(q, Holdings)
  <2>1. \A id \in Todo(q) : Refs[id] \subseteq Todo(q)
    BY <1>1 DEF Import, Verifies
  <2> QED
    BY <1>1, <2>1 DEF JobOK
<1>3. disk' = disk /\ halfway' = halfway
  BY DEF Import, files
<1>4. \A x, r : ~Brings(proc[p], x, r)
  BY IdleBrings DEF IInv, Import, Starts
<1>5. TypeOK'
  <2>1. \A o \in Procs : proc'[o].pc \in {"idle", "store", "rename", "export"}
    BY <1>1 DEF IInv, TypeOK, ProcOK
  <2> QED
    BY <2>1, OtherAssumption DEF IInv, TypeOK, Import, Starts, files
<1> QED
  BY <1>1, <1>2, <1>3, <1>4, <1>5, QuietStep DEF IInv, ProcOK

\* The invariant of stores and jobs holds initially and every step keeps it.
THEOREM Invariance == Spec => []IInv
<1>1. Init => IInv
  <2> SUFFICES ASSUME Init PROVE IInv
    OBVIOUS
  <2>1. Idle \notin Jobs /\ Idle.pc = "idle" /\ \A p \in Procs : proc[p] = Idle
    BY DEF Init, Idle, Jobs
  <2>2. TypeOK
    BY <2>1, OtherAssumption DEF Init, TypeOK
  <2>3. \A s \in Stores : Holdings[s] = {}
    BY DEF Init, Holdings, Held
  <2> QED
    BY <2>1, <2>2, <2>3 DEF Init, IInv, ProcOK, RefsOK
<1>2. IInv /\ [Next]_vars => IInv'
  <2> SUFFICES ASSUME IInv, [Next]_vars PROVE IInv'
    OBVIOUS
  <2>1. CASE UNCHANGED vars
    <3>1. Holdings' = Holdings
      BY <2>1 DEF vars, files, Holdings, Held
    <3> QED
      BY <2>1, <3>1 DEF vars, files, IInv, TypeOK, ProcOK, RefsOK
  <2>2. ASSUME NEW p \in Procs, NEW s \in Stores, NEW inv \in Stores \cup {None},
               NEW records \in {{}} \cup {{id} : id \in Ids}, ExportInvestigation(p, s, inv, records)
        PROVE  IInv'
    <3>1. records \in SUBSET Ids
      OBVIOUS
    <3> QED
      BY <2>2, <3>1, AttachKeeps
  <2>3. ASSUME NEW p \in Procs, Step(p) \/ Fail(p) PROVE IInv'
    BY <2>3, ExistingKeeps, MissingKeeps, RenameKeeps, StoredKeeps, ExportKeeps, FailKeeps DEF Step
  <2>4. CASE Next
    BY <2>2, <2>3, <2>4, PreflightKeeps, CiteKeeps, ImportKeeps DEF Next
  <2> QED
    BY <2>1, <2>4
<1> QED
  BY <1>1, <1>2, PTL DEF Spec

\* preflight() and import(): every record of a store finds the records it was
\* derived from there, except while or after an import stops between two.
THEOREM ReferencesResolve == Spec => []RefsResolve
<1>1. IInv => RefsResolve
  <2> SUFFICES ASSUME IInv, NEW s \in Stores, s \notin halfway,
                      ~(\E p \in Procs : Importing(p) /\ proc[p].dir = s)
               PROVE  \A id \in Held(s) : Refs[id] \subseteq Held(s)
    BY DEF RefsResolve, IInv
  <2>1. \A p \in Procs : \A r : ~Brings(proc[p], s, r)
    BY DEF Brings, Jobs, Importing
  <2> QED
    BY <2>1 DEF IInv, RefsOK, Holdings
<1> QED
  BY <1>1, Invariance, PTL

---------------------------------------------------------------------------
(* Citations, when an investigation keeps its evidence in its own directory *)

\* What an import will attach is held or on its way, in the directory it
\* attaches to; what an export read from the investigation is held.
CiteOK(q, H) ==
  /\ q \in Jobs /\ q.into # None /\ q.cites # None =>
       q.into = q.dir /\ q.cites \subseteq H[q.dir] \cup Todo(q)
  /\ q \in Exports /\ q.cites # None => q.cites \subseteq H[q.dir]

CInv ==
  /\ CitedHeld
  /\ \A p \in Procs : CiteOK(proc[p], Holdings)
  /\ ExportVerifies

\* As stores grow, citations stay held.
LEMMA CitesGrow ==
  ASSUME Grows, NEW q \in {Idle} \cup Jobs \cup Exports, CiteOK(q, Holdings)
  PROVE  CiteOK(q, Holdings')
BY DEF CiteOK, Grows, Jobs, Exports

LEMMA StillHeld ==
  ASSUME Grows, CitedHeld, cited' = cited
  PROVE  CitedHeld'
BY DEF Grows, CitedHeld, Open, Holdings

\* A step of p to q that keeps what is cited and the bundle.
LEMMA CiteStep ==
  ASSUME IInv, CInv, NEW p \in Procs, NEW q, Grows, proc' = [proc EXCEPT ![p] = q],
         CiteOK(q, Holdings'), CitedHeld', ExportVerifies'
  PROVE  CInv'
<1>1. \A o \in Procs : o = p \/ proc'[o] = proc[o]
  BY DEF IInv, ProcOK
<1>2. proc'[p] = q
  BY DEF IInv, ProcOK
<1>3. \A o \in Procs : CiteOK(proc'[o], Holdings')
  BY <1>1, <1>2, CitesGrow DEF CInv, IInv, ProcOK
<1> QED
  BY <1>3 DEF CInv

\* Steps that leave the stores alone.
LEMMA Unmoved ==
  ASSUME disk' = disk
  PROVE  Grows /\ Holdings' = Holdings
BY DEF Grows, Holdings, Held

LEMMA IdleCites == \A H : CiteOK(Idle, H)
<1>1. Idle \notin Jobs /\ Idle \notin Exports
  BY DEF Idle, Jobs, Exports
<1> QED
  BY <1>1 DEF CiteOK

\* Storing: what leaves the list of a job is held.
LEMMA CiteStoring ==
  ASSUME IInv, CInv, NEW p \in Procs, StoreExisting(p) \/ StoreMissing(p) \/ StoreRename(p)
  PROVE  CInv'
<1> DEFINE j == proc[p]
<1>1. /\ j \in Jobs /\ JobOK(j, Holdings) /\ j.dir \in Stores
      /\ j.todo \in Seq(Ids \X Executions) /\ j.todo # <<>>
  BY AtWork DEF StoreExisting, StoreMissing, StoreRename, JobOK
<1>2. /\ Tail(j.todo) \in Seq(Ids \X Executions)
      /\ Todo(j) = {Head(j.todo)[1]} \cup {Tail(j.todo)[i][1] : i \in 1..Len(Tail(j.todo))}
  BY <1>1, TodoTail DEF Todo
<1>3. CiteOK(j, Holdings)
  BY DEF CInv
<1>4. cited' = cited /\ bundle' = bundle
  BY DEF StoreExisting, StoreMissing, StoreRename, files
<1>5. ExportVerifies'
  BY <1>4 DEF CInv, ExportVerifies
<1>6. CASE StoreExisting(p)
  <2> DEFINE q == [j EXCEPT !.todo = Tail(@)]
  <2>1. Grows /\ Holdings' = Holdings
    BY <1>6, Unmoved DEF StoreExisting, files
  <2>2. /\ q \in Jobs /\ q.dir = j.dir /\ q.into = j.into /\ q.cites = j.cites
        /\ q.pc = "store" /\ q.todo = Tail(j.todo)
    BY <1>1, <1>2, <1>6 DEF Jobs, StoreExisting
  <2>3. Todo(j) = {Head(j.todo)[1]} \cup Todo(q)
    BY <1>2, <2>2 DEF Todo
  <2>4. Head(j.todo)[1] \in Holdings[j.dir]
    BY <1>1, <1>6 DEF StoreExisting, Holdings
  <2>5. proc' = [proc EXCEPT ![p] = q]
    BY <1>6 DEF StoreExisting
  <2> HIDE DEF q
  <2>6. CiteOK(q, Holdings)
    BY <1>1, <1>3, <2>2, <2>3, <2>4 DEF CiteOK, Exports
  <2>7. CitedHeld'
    BY <1>4, <2>1, StillHeld DEF CInv
  <2> QED
    BY <1>5, <2>1, <2>5, <2>6, <2>7, CiteStep
<1>7. CASE StoreMissing(p)
  <2> DEFINE q == [j EXCEPT !.pc = "rename"]
  <2>1. Grows /\ Holdings' = Holdings
    BY <1>7, Unmoved DEF StoreMissing, files
  <2>2. /\ q \in Jobs /\ q.dir = j.dir /\ q.into = j.into /\ q.cites = j.cites
        /\ q.pc = "rename" /\ q.todo = j.todo
    BY <1>1 DEF Jobs
  <2>3. Todo(j) = Todo(q)
    BY <2>2 DEF Todo
  <2>4. proc' = [proc EXCEPT ![p] = q]
    BY <1>7 DEF StoreMissing
  <2> HIDE DEF q
  <2>5. CiteOK(q, Holdings)
    BY <1>1, <1>3, <2>2, <2>3 DEF CiteOK, Exports
  <2>6. CitedHeld'
    BY <1>4, <2>1, StillHeld DEF CInv
  <2> QED
    BY <1>5, <2>1, <2>4, <2>5, <2>6, CiteStep
<1>8. CASE StoreRename(p)
  <2> DEFINE q == [j EXCEPT !.pc = "store", !.todo = Tail(@)]
  <2> DEFINE id == Head(j.todo)[1]
  <2>1. \A s \in Stores : Holdings'[s] = Holdings[s] \cup (IF s = j.dir THEN {id} ELSE {})
    BY <1>8, RenameHolds
  <2>2. /\ q \in Jobs /\ q.dir = j.dir /\ q.into = j.into /\ q.cites = j.cites
        /\ q.pc = "store" /\ q.todo = Tail(j.todo)
    BY <1>1, <1>2 DEF Jobs
  <2>3. Todo(j) = {id} \cup Todo(q)
    BY <1>2, <2>2 DEF Todo
  <2>4. proc' = [proc EXCEPT ![p] = q]
    BY <1>8 DEF StoreRename
  <2> HIDE DEF q, id
  <2>5. Grows
    BY <2>1 DEF Grows
  <2>6. CiteOK(q, Holdings')
    BY <1>1, <1>3, <2>1, <2>2, <2>3 DEF CiteOK, Exports
  <2>7. CitedHeld'
    BY <1>4, <2>5, StillHeld DEF CInv
  <2> QED
    BY <1>5, <2>4, <2>5, <2>6, <2>7, CiteStep
<1> QED
  BY <1>6, <1>7, <1>8

\* The other steps of a process.
LEMMA CiteOthers ==
  ASSUME IInv, CInv, NEW p \in Procs, Stored(p) \/ Fail(p) \/ ExportRecords(p)
  PROVE  CInv'
<1>1. proc' = [proc EXCEPT ![p] = Idle] /\ disk' = disk
  BY DEF Stored, Fail, ExportRecords, Becomes, files
<1>2. Grows /\ Holdings' = Holdings /\ CiteOK(Idle, Holdings')
  BY <1>1, Unmoved, IdleCites
<1>3. CASE Stored(p)
  <2>1. /\ proc[p] \in Jobs /\ proc[p].into \in Stores \cup {None}
        /\ CiteOK(proc[p], Holdings)
    BY <1>3, AtWork DEF Stored, CInv
  <2>2. Todo(proc[p]) = {}
    <3>1. Len(proc[p].todo) = 0
      BY <1>3 DEF Stored
    <3> QED
      BY <3>1 DEF Todo
  <2>3. bundle' = bundle
    BY <1>3 DEF Stored
  <2>4. CitedHeld'
    <3>1. CASE cited' = cited
      BY <1>2, <3>1, StillHeld DEF CInv
    <3>2. CASE /\ proc[p].into # None /\ proc[p].cites # None
               /\ cited' = [cited EXCEPT ![proc[p].into] = proc[p].cites]
      <4>1. proc[p].cites \subseteq Holdings[proc[p].into]
        BY <2>1, <2>2, <3>2 DEF CiteOK
      <4>2. \A s \in Stores : cited'[s] # None => cited'[s] \subseteq Holdings[s]
        BY <3>2, <4>1 DEF CInv, CitedHeld, Open, Holdings, IInv, TypeOK
      <4> QED
        BY <1>2, <4>2 DEF CitedHeld, Open, Holdings
    <3> QED
      BY <1>3, <3>1, <3>2 DEF Stored
  <2> QED
    BY <1>1, <1>2, <2>3, <2>4, CiteStep DEF CInv, ExportVerifies
<1>4. CASE Fail(p)
  <2>1. cited' = cited /\ bundle' = bundle
    BY <1>4 DEF Fail, files
  <2>2. CitedHeld'
    BY <1>2, <2>1, StillHeld DEF CInv
  <2> QED
    BY <1>1, <1>2, <2>1, <2>2, CiteStep DEF CInv, ExportVerifies
<1>5. CASE ExportRecords(p)
  <2>1. CitedHeld'
    BY <1>2, <1>5, StillHeld DEF CInv, ExportRecords
  <2>2. ExportVerifies'
    <3>1. CASE bundle' = bundle
      BY <3>1 DEF CInv, ExportVerifies
    <3> DEFINE all == Closure(Roots(p))
    <3>2. CASE /\ bundle' = [records |-> [id \in all |-> disk[proc[p].dir][id]],
                             cites |-> proc[p].cites]
      <4>1. proc[p] \in Exports /\ Roots(p) \in SUBSET Ids /\ proc[p].dir \in Stores
        BY <1>5, AtExport
      <4>2. Roots(p) \subseteq all /\ \A id \in all : Refs[id] \subseteq all
        BY <4>1, ClosureIs
      <4>3. proc[p].cites # None => proc[p].cites \subseteq Roots(p)
        BY <4>1 DEF CInv, CiteOK, Roots, Holdings
      <4> HIDE DEF all
      <4>4. DOMAIN bundle'.records = all /\ bundle'.cites = proc[p].cites
        BY <3>2
      <4>5. Verifies(bundle')
        BY <4>2, <4>3, <4>4 DEF Verifies
      <4> QED
        BY <4>5 DEF ExportVerifies
    <3> QED
      BY <1>5, <3>1, <3>2, AtExport
  <2> QED
    BY <1>1, <1>2, <2>1, <2>2, CiteStep
<1> QED
  BY <1>3, <1>4, <1>5

\* A command that starts.
LEMMA CiteStarts ==
  ASSUME IInv, CInv, SplitStores = FALSE, NEW p \in Procs, NEW s \in Stores,
         NEW inv \in Stores \cup {None}, NEW records \in SUBSET Ids,
         \/ \E id \in Ids : Preflight(p, s, id) \/ Cite(p, s, id)
         \/ Investigate(p, s)
         \/ ExportInvestigation(p, s, inv, records) \/ Import(p, s, inv)
  PROVE  CInv'
<1>1. disk' = disk /\ bundle' = bundle
  BY DEF Preflight, Cite, Investigate, ExportInvestigation, Import, files
<1>2. Grows /\ Holdings' = Holdings /\ ExportVerifies'
  BY <1>1, Unmoved DEF CInv, ExportVerifies
<1>3. ASSUME NEW id \in Ids, Preflight(p, s, id) PROVE CInv'
  <2> DEFINE q == [pc |-> "store", cmd |-> "observe", dir |-> s, todo |-> <<<<id, p>>>>,
                   into |-> None, cites |-> None]
  <2>1. proc' = [proc EXCEPT ![p] = q] /\ cited' = cited
    BY <1>3 DEF Preflight, Becomes, files
  <2>2. q.into = None /\ q.cites = None
    OBVIOUS
  <2> HIDE DEF q
  <2>3. CiteOK(q, Holdings')
    BY <2>2 DEF CiteOK
  <2>4. CitedHeld'
    BY <1>2, <2>1, StillHeld DEF CInv
  <2> QED
    BY <1>2, <2>1, <2>3, <2>4, CiteStep
<1>4. ASSUME NEW id, Cite(p, s, id) \/ Investigate(p, s) PROVE CInv'
  <2>1. /\ proc' = proc
        /\ \/ cited' = [cited EXCEPT ![s] = {}]
           \/ /\ cited' = [cited EXCEPT ![s] = @ \cup {id}]
              /\ cited[s] # None /\ id \in Holdings[s]
    BY <1>4 DEF Cite, Investigate, Open, Holdings
  <2>2. \A x \in Stores : cited[x] # None => cited[x] \subseteq Holdings[x]
    BY DEF CInv, CitedHeld, Open, Holdings
  <2>3. \A x \in Stores : cited'[x] # None => cited'[x] \subseteq Holdings'[x]
    BY <1>2, <2>1, <2>2 DEF IInv, TypeOK
  <2> QED
    BY <1>2, <2>1, <2>3 DEF CInv, CitedHeld, Open, Holdings
<1>5. CASE ExportInvestigation(p, s, inv, records)
  <2> DEFINE c == IF inv = None THEN None ELSE cited[inv]
  <2> DEFINE q == [pc |-> "export", dir |-> s, records |-> records, cites |-> c]
  <2>1. proc' = [proc EXCEPT ![p] = q] /\ cited' = cited
    BY <1>5 DEF ExportInvestigation, Becomes, files
  <2>2. c # None => inv = s /\ c = cited[s]
    BY <1>5 DEF ExportInvestigation
  <2>3. c # None => c \subseteq Holdings[s]
    BY <2>2 DEF CInv, CitedHeld, Open, Holdings
  <2> HIDE DEF c
  <2>4. q.cites = c /\ q.dir = s /\ q.pc = "export"
    OBVIOUS
  <2> HIDE DEF q
  <2>5. CiteOK(q, Holdings')
    BY <1>2, <2>3, <2>4 DEF CiteOK, Jobs
  <2>6. CitedHeld'
    BY <1>2, <2>1, StillHeld DEF CInv
  <2> QED
    BY <1>2, <2>1, <2>5, <2>6, CiteStep
<1>6. CASE Import(p, s, inv)
  <2>1. PICK q \in Jobs :
           /\ proc' = [proc EXCEPT ![p] = q]
           /\ q.pc = "store" /\ q.dir = s /\ q.into = inv /\ q.cites = bundle.cites
           /\ Todo(q) = DOMAIN bundle.records
    BY <1>6, ImportIs
  <2>2. /\ cited' = cited /\ (inv # None => s = inv)
        /\ bundle.cites # None => bundle.cites \subseteq DOMAIN bundle.records
    BY <1>6 DEF Import, Verifies, files
  <2>3. CiteOK(q, Holdings')
    BY <2>1, <2>2 DEF CiteOK, Exports
  <2>4. CitedHeld'
    BY <1>2, <2>2, StillHeld DEF CInv
  <2> QED
    BY <1>2, <2>1, <2>3, <2>4, CiteStep
<1> QED
  BY <1>3, <1>4, <1>5, <1>6

LEMMA CiteInvariance == ASSUME SplitStores = FALSE PROVE Spec => []CInv
<1>1. Init => CInv
  <2> SUFFICES ASSUME Init PROVE CInv
    OBVIOUS
  <2>1. \A p \in Procs : CiteOK(proc[p], Holdings)
    BY IdleCites DEF Init
  <2> QED
    BY <2>1 DEF Init, CInv, CitedHeld, Open, ExportVerifies
<1>2. IInv /\ CInv /\ [Next]_vars => CInv'
  <2> SUFFICES ASSUME IInv, CInv, [Next]_vars PROVE CInv'
    OBVIOUS
  <2>1. CASE UNCHANGED vars
    <3>1. Holdings' = Holdings
      BY <2>1, Unmoved DEF vars, files
    <3> QED
      BY <2>1, <3>1, Unmoved, StillHeld DEF vars, files, CInv, ExportVerifies
  <2>2. ASSUME NEW p \in Procs, Step(p) \/ Fail(p) PROVE CInv'
    BY <2>2, CiteStoring, CiteOthers DEF Step
  <2>3. ASSUME NEW p \in Procs, NEW s \in Stores, NEW inv \in Stores \cup {None},
               NEW records \in {{}} \cup {{id} : id \in Ids},
               ExportInvestigation(p, s, inv, records)
        PROVE  CInv'
    <3>1. records \in SUBSET Ids
      OBVIOUS
    <3> QED
      BY <2>3, <3>1, CiteStarts
  <2>4. ASSUME NEW p \in Procs, NEW s \in Stores, NEW inv \in Stores \cup {None},
               \/ \E id \in Ids : Preflight(p, s, id) \/ Cite(p, s, id)
               \/ Investigate(p, s) \/ Import(p, s, inv)
        PROVE  CInv'
    BY <2>4, {} \in SUBSET Ids, CiteStarts
  <2>5. CASE Next
    BY <2>2, <2>3, <2>4, <2>5 DEF Next
  <2> QED
    BY <2>1, <2>5
<1> QED
  BY <1>1, <1>2, Invariance, PTL DEF Spec

\* cite() and import(): an investigation that keeps its evidence in its own
\* directory never cites a record that is not there, not even while it is
\* being imported.
THEOREM CitationsHeld == ASSUME SplitStores = FALSE PROVE Spec => []CitedHeld
<1>1. CInv => CitedHeld
  BY DEF CInv
<1> QED
  BY <1>1, CiteInvariance, PTL

\* export(): a bundle that was published passes --verify-bundle, whatever was
\* recorded, cited or imported while it was being put together.
THEOREM BundlesVerify == ASSUME SplitStores = FALSE PROVE Spec => []ExportVerifies
<1>1. CInv => ExportVerifies
  BY DEF CInv
<1> QED
  BY <1>1, CiteInvariance, PTL
=============================================================================
