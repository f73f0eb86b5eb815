--------------------------- MODULE Ledger_proofs ---------------------------
(***************************************************************************)
(* The files in revisions/ always are one chain of documents, for any      *)
(* number of processes, bundles and commands; an acknowledged change stays *)
(* in it, a refused one never enters it, and the directory implements an   *)
(* append-only log.  The second part is about the document a revision      *)
(* holds: every update leaves a valid one and forgets nothing.             *)
(***************************************************************************)
EXTENDS Ledger, Investigation, FiniteSetTheorems, SequenceTheorems, TLAPS

---------------------------------------------------------------------------
(* The directory *)

Committing == {"mkdir", "link", "mirror"}

\* The numbers taken are 1..n, and an earlier document is the beginning of a
\* later one.
RevsOK ==
  /\ \E last \in 0..MaxRev : Present = 1..last
  /\ \A n \in Present :
       /\ Len(revs[n]) = n
       /\ \A m \in 1..n : \A k \in 1..m : revs[m][k] = revs[n][k]

MirrorOK == mirror # None => Len(mirror) \in Present /\ mirror = revs[Len(mirror)]

\* A change of a process is in the ledger only if its command was started.
OwnOK == \A n \in Present : \A k \in 1..n : \A q \in Procs, j \in 1..MaxOps :
  revs[n][k] = <<q, j>> => j <= ops[q]

\* The change of the command that p runs is in no revision.
Fresh(p) == \A n \in Present : \A k \in 1..n : revs[n][k] # <<p, ops[p]>>

\* A document on its way to revision n extends revision n - 1 and is the
\* beginning of what the command is to leave behind.
CommitOK(p) ==
  LET d == proc[p].doc
      g == proc[p].goal
  IN  proc[p].pc \in Committing =>
        /\ Len(d) \in 1..MaxRev /\ Len(d) <= Len(g) /\ Len(g) <= MaxRev
        /\ \A k \in 1..Len(d) : d[k] = g[k]
        /\ Len(d) > 1 => /\ Len(d) - 1 \in Present
                         /\ \A k \in 1..(Len(d) - 1) : revs[Len(d) - 1][k] = d[k]
        /\ proc[p].pc = "mirror" => revs[Len(d)] = d
        /\ proc[p].op = "import" => g \in Bundles
        /\ proc[p].op # "import" => d = g /\ d[Len(d)] = <<p, ops[p]>>
        /\ proc[p].op # "import" /\ proc[p].pc # "mirror" => Fresh(p)

StateOK(p) ==
  /\ proc[p].pc # "idle" => ops[p] >= 1
  /\ proc[p].pc = "scan" => Fresh(p)
  /\ proc[p].pc = "copy" => proc[p].goal \in Bundles

\* What a command that ended reported holds until the process starts another.
OutcomeOK(p) ==
  /\ out[p].res # "none" => proc[p].pc = "idle" /\ ops[p] >= 1
  /\ out[p].res = "ok" => Len(out[p].goal) \in Present /\ revs[Len(out[p].goal)] = out[p].goal
  /\ out[p].res \in {"stale", "exists"} /\ out[p].op # "import" =>
       /\ Len(out[p].goal) >= 1 /\ out[p].goal[Len(out[p].goal)] = <<p, ops[p]>>
       /\ Fresh(p)

IInv ==
  /\ TypeOK
  /\ RevsOK
  /\ MirrorOK
  /\ OwnOK
  /\ \A p \in Procs : CommitOK(p) /\ StateOK(p) /\ OutcomeOK(p)

---------------------------------------------------------------------------
(* Sequences and records. *)

\* Two sequences of the same elements are the same.
LEMMA SameSeq ==
  ASSUME NEW S, NEW s \in Seq(S), NEW t \in Seq(S), Len(s) = Len(t),
         \A k \in 1..Len(s) : s[k] = t[k]
  PROVE  s = t
  OBVIOUS

LEMMA Appended ==
  ASSUME NEW S, NEW s \in Seq(S), NEW e \in S
  PROVE  /\ Append(s, e) \in Seq(S)
         /\ Len(s) \in Nat /\ Len(Append(s, e)) = Len(s) + 1
         /\ \A i \in 1..Len(s) : Append(s, e)[i] = s[i]
         /\ Append(s, e)[Len(s) + 1] = e
  OBVIOUS

\* The first n elements.
LEMMA Beginning ==
  ASSUME NEW S, NEW s \in Seq(S), NEW n \in Nat, n <= Len(s)
  PROVE  /\ SubSeq(s, 1, n) \in Seq(S) /\ Len(SubSeq(s, 1, n)) = n
         /\ \A k \in 1..n : SubSeq(s, 1, n)[k] = s[k]
<1>1. \A k \in 1..n : s[k] \in S
  OBVIOUS
<1> DEFINE t == SubSeq(s, 1, n)
<1>2. /\ t \in Seq(S) /\ Len(t) = IF 1 <= n THEN n - 1 + 1 ELSE 0
      /\ \A i \in 1 .. n - 1 + 1 : t[i] = s[1 + i - 1]
  BY <1>1, SubSeqProperties
<1> HIDE DEF t
<1>3. t \in Seq(S) /\ Len(t) = n /\ \A i \in 1..n : t[i] = s[i]
  BY <1>1, <1>2
<1>4. QED
  BY <1>3 DEF t

\* What each step of a command carries.
LEMMA ProcShape ==
  ASSUME TypeOK, NEW p \in Procs
  PROVE  /\ proc[p].pc \in {"idle", "copy", "scan", "mkdir", "link", "mirror"}
         /\ proc[p].pc = "copy" => proc[p].goal \in Docs
         /\ proc[p].pc \in Committing =>
              /\ proc[p] \in [pc : Committing, op : {"create", "run", "import"}, doc : Docs, goal : Docs]
              /\ proc[p].op \in {"create", "run", "import"}
              /\ proc[p].doc \in Docs /\ proc[p].goal \in Docs
  BY DEF TypeOK, ProcStates, Idle, Committing

LEMMA OutShape ==
  ASSUME TypeOK, NEW p \in Procs, out[p].res # "none"
  PROVE  out[p].goal \in Docs
  BY DEF TypeOK, Outcomes, NoOutcome

\* A revision that is there is a document.
LEMMA RevShape ==
  ASSUME TypeOK, NEW n \in Present
  PROVE  n \in Nat /\ 1 <= n /\ n <= MaxRev /\ n \in Revisions /\ revs[n] \in Docs
  BY BoundAssumption DEF TypeOK, Present, Revisions

\* The change of a started command is one of the changes.
LEMMA MyChangeShape ==
  ASSUME TypeOK, NEW p \in Procs, ops[p] >= 1
  PROVE  ops[p] \in 1..MaxOps /\ <<p, ops[p]>> \in OwnChanges /\ <<p, ops[p]>> \in Changes
  BY BoundAssumption DEF TypeOK, OwnChanges, Changes

LEMMA InitOK == Init => IInv
<1> SUFFICES ASSUME Init PROVE IInv
  OBVIOUS
<1>1. TypeOK
  <2>1. Idle \in ProcStates /\ NoOutcome \in Outcomes
    BY DEF ProcStates, Outcomes
  <2>2. 0 \in 0..MaxOps
    BY BoundAssumption
  <2>3. QED
    BY <2>1, <2>2 DEF Init, TypeOK
<1>2. Present = {} /\ 1..0 = {} /\ 0 \in 0..MaxRev
  BY BoundAssumption DEF Init, Present
<1>3. RevsOK /\ MirrorOK /\ OwnOK
  BY <1>2 DEF Init, RevsOK, MirrorOK, OwnOK
<1>4. \A p \in Procs : CommitOK(p) /\ StateOK(p) /\ OutcomeOK(p)
  BY DEF Init, CommitOK, StateOK, OutcomeOK, Idle, NoOutcome, Committing
<1>5. QED
  BY <1>1, <1>3, <1>4 DEF IInv

---------------------------------------------------------------------------
(* A step of one process that takes no number. *)

OnlyOf(p) ==
  /\ \A q \in Procs : q # p => proc'[q] = proc[q] /\ out'[q] = out[q] /\ ops'[q] = ops[q]
  /\ ops'[p] >= ops[p]

LEMMA Framed ==
  ASSUME IInv, NEW p \in Procs, OnlyOf(p), revs' = revs, TypeOK', MirrorOK',
         CommitOK(p)', StateOK(p)', OutcomeOK(p)'
  PROVE  IInv'
<1>1. RevsOK'
  BY DEF IInv, RevsOK, Present
<1>2. OwnOK'
  <2>1. \A q \in Procs : ops[q] \in Nat /\ ops'[q] \in Nat /\ ops'[q] >= ops[q]
    BY BoundAssumption DEF IInv, TypeOK, OnlyOf
  <2>2. QED
    BY <2>1, BoundAssumption DEF IInv, OwnOK, Present
<1>3. ASSUME NEW q \in Procs, q # p PROVE CommitOK(q)' /\ StateOK(q)' /\ OutcomeOK(q)'
  <2>1. proc'[q] = proc[q] /\ out'[q] = out[q] /\ ops'[q] = ops[q] /\ Present' = Present
    BY <1>3 DEF OnlyOf, Present
  <2>2. Fresh(q)' <=> Fresh(q)
    BY <2>1 DEF Fresh
  <2>3. CommitOK(q) /\ StateOK(q) /\ OutcomeOK(q)
    BY DEF IInv
  <2>4. CommitOK(q)'
    BY <2>1, <2>2, <2>3 DEF CommitOK
  <2>5. StateOK(q)' /\ OutcomeOK(q)'
    BY <2>1, <2>2, <2>3 DEF StateOK, OutcomeOK
  <2>6. QED
    BY <2>4, <2>5
<1>4. QED
  BY <1>1, <1>2, <1>3 DEF IInv

\* A command that starts has a change nobody has seen.
LEMMA StartFresh ==
  ASSUME IInv, NEW p \in Procs, Starts(p), revs' = revs
  PROVE  /\ ops' \in [Procs -> 0..MaxOps] /\ ops'[p] = ops[p] + 1 /\ ops'[p] >= 1 /\ ops[p] \in Nat
         /\ \A q \in Procs : q # p => ops'[q] = ops[q]
         /\ ops'[p] \in 1..MaxOps /\ <<p, ops'[p]>> \in Changes
         /\ Fresh(p)'
<1>1. /\ ops' \in [Procs -> 0..MaxOps] /\ ops'[p] = ops[p] + 1 /\ ops[p] \in Nat /\ ops'[p] \in 1..MaxOps
      /\ \A q \in Procs : q # p => ops'[q] = ops[q]
  BY BoundAssumption DEF IInv, TypeOK, Starts
<1>2. <<p, ops'[p]>> \in Changes
  BY <1>1 DEF Changes, OwnChanges
<1>3. Present' = Present
  BY DEF Present
<1>4. Fresh(p)'
  BY <1>1, <1>3 DEF Fresh, IInv, OwnOK
<1>5. QED
  BY <1>1, <1>2, <1>4

\* How a step that ends a command, or sends it to commit(), changes the state
\* of its process.
LEMMA EndsFact ==
  ASSUME TypeOK, NEW p \in Procs, NEW res \in {"ok", "stale", "exists", "failed", "unreadable"},
         NEW op \in {"create", "run", "import"}, NEW goal \in Docs, Ends(p, res, op, goal)
  PROVE  /\ proc' \in [Procs -> ProcStates] /\ out' \in [Procs -> Outcomes]
         /\ \A q \in Procs : q # p => proc'[q] = proc[q] /\ out'[q] = out[q]
         /\ proc'[p].pc = "idle" /\ out'[p].res = res /\ out'[p].op = op /\ out'[p].goal = goal
<1>1. Idle \in ProcStates /\ [res |-> res, op |-> op, goal |-> goal] \in Outcomes
  BY DEF ProcStates, Outcomes
<1>2. QED
  BY <1>1 DEF TypeOK, Ends, Idle

LEMMA CommitsFact ==
  ASSUME TypeOK, NEW p \in Procs, NEW op \in {"create", "run", "import"},
         NEW d \in Docs, NEW goal \in Docs, Commits(p, op, d, goal)
  PROVE  /\ proc' \in [Procs -> ProcStates] /\ out' \in [Procs -> Outcomes]
         /\ \A q \in Procs : q # p => proc'[q] = proc[q] /\ out'[q] = out[q]
         /\ proc'[p].pc = "mkdir" /\ proc'[p].op = op /\ proc'[p].doc = d /\ proc'[p].goal = goal
         /\ out'[p].res = "none"
<1>1. [pc |-> "mkdir", op |-> op, doc |-> d, goal |-> goal] \in ProcStates /\ NoOutcome \in Outcomes
  BY DEF ProcStates, Outcomes
<1>2. QED
  BY <1>1 DEF TypeOK, Commits, NoOutcome

\* A command that ends without an acknowledgement.
LEMMA EndStep ==
  ASSUME IInv, NEW p \in Procs, NEW res \in {"stale", "exists", "failed", "unreadable"},
         NEW op \in {"create", "run", "import"}, NEW goal \in Docs, Ends(p, res, op, goal),
         UNCHANGED files, ops' \in [Procs -> 0..MaxOps], ops'[p] >= ops[p], ops'[p] >= 1,
         \A q \in Procs : q # p => ops'[q] = ops[q],
         res \in {"stale", "exists"} /\ op # "import" =>
           Len(goal) >= 1 /\ goal[Len(goal)] = <<p, ops'[p]>> /\ Fresh(p)'
  PROVE  IInv'
<1>1. /\ proc' \in [Procs -> ProcStates] /\ out' \in [Procs -> Outcomes]
      /\ \A q \in Procs : q # p => proc'[q] = proc[q] /\ out'[q] = out[q]
      /\ proc'[p].pc = "idle" /\ out'[p].res = res /\ out'[p].op = op /\ out'[p].goal = goal
  BY EndsFact DEF IInv
<1>2. TypeOK' /\ MirrorOK'
  BY <1>1 DEF IInv, TypeOK, MirrorOK, files, Present
<1>3. CommitOK(p)' /\ StateOK(p)'
  BY <1>1 DEF CommitOK, StateOK, Committing
<1>4. OutcomeOK(p)'
  BY <1>1 DEF OutcomeOK
<1>5. OnlyOf(p) /\ revs' = revs
  BY <1>1 DEF OnlyOf, files
<1>6. QED
  BY <1>2, <1>3, <1>4, <1>5, Framed

\* A document enters commit().
LEMMA CommitEnters ==
  ASSUME NEW p \in Procs, NEW op \in {"create", "run", "import"}, NEW d \in Docs, NEW goal \in Docs,
         proc'[p].pc = "mkdir", proc'[p].op = op, proc'[p].doc = d, proc'[p].goal = goal,
         Len(d) \in 1..MaxRev, Len(d) <= Len(goal), Len(goal) <= MaxRev,
         \A k \in 1..Len(d) : d[k] = goal[k],
         Len(d) > 1 => /\ Len(d) - 1 \in Present'
                         /\ \A k \in 1..(Len(d) - 1) : revs'[Len(d) - 1][k] = d[k],
         op = "import" => goal \in Bundles,
         op # "import" => d = goal /\ d[Len(d)] = <<p, ops'[p]>> /\ Fresh(p)'
  PROVE  CommitOK(p)'
  BY DEF CommitOK, Committing

LEMMA CreateStep ==
  ASSUME IInv, NEW p \in Procs, Create(p)
  PROVE  IInv'
<1>1. Starts(p) /\ UNCHANGED files /\ revs' = revs
  BY DEF Create, files
<1>2. /\ ops' \in [Procs -> 0..MaxOps] /\ ops'[p] = ops[p] + 1 /\ ops'[p] >= 1 /\ ops[p] \in Nat
      /\ \A q \in Procs : q # p => ops'[q] = ops[q]
      /\ ops'[p] \in 1..MaxOps /\ <<p, ops'[p]>> \in Changes
      /\ Fresh(p)'
  BY <1>1, StartFresh
<1> DEFINE c == <<p, ops'[p]>>
           d == <<c>>
<1>3. Ends(p, "exists", "create", d) \/ Commits(p, "create", d, d)
  BY DEF Create
<1> HIDE DEF c
<1>4. d \in Docs /\ Len(d) = 1 /\ d[1] = c
  BY <1>2 DEF Docs, c
<1> HIDE DEF d
<1>5. CASE Ends(p, "exists", "create", d)
  <2>1. Len(d) >= 1 /\ d[Len(d)] = <<p, ops'[p]>>
    BY <1>4 DEF c
  <2>2. ops'[p] >= ops[p]
    BY <1>2
  <2>3. QED
    BY <1>1, <1>2, <1>4, <1>5, <2>1, <2>2, EndStep, Zenon
<1>6. CASE Commits(p, "create", d, d)
  <2>1. /\ proc' \in [Procs -> ProcStates] /\ out' \in [Procs -> Outcomes]
        /\ \A q \in Procs : q # p => proc'[q] = proc[q] /\ out'[q] = out[q]
        /\ proc'[p].pc = "mkdir" /\ proc'[p].op = "create" /\ proc'[p].doc = d /\ proc'[p].goal = d
        /\ out'[p].res = "none"
    BY <1>4, <1>6, CommitsFact DEF IInv
  <2>2. TypeOK' /\ MirrorOK'
    BY <1>1, <1>2, <2>1 DEF IInv, TypeOK, MirrorOK, files, Present
  <2>3. CommitOK(p)'
    <3>1. Len(d) \in 1..MaxRev /\ Len(d) <= Len(d) /\ Len(d) <= MaxRev /\ ~(Len(d) > 1)
      BY <1>4, BoundAssumption
    <3>2. d[Len(d)] = <<p, ops'[p]>>
      BY <1>4 DEF c
    <3>3. QED
      BY <1>2, <1>4, <2>1, <3>1, <3>2, CommitEnters
  <2>4. StateOK(p)' /\ OutcomeOK(p)'
    BY <1>2, <2>1 DEF StateOK, OutcomeOK
  <2>5. OnlyOf(p)
    BY <1>2, <2>1 DEF OnlyOf
  <2>6. QED
    BY <1>1, <2>2, <2>3, <2>4, <2>5, Framed
<1>7. QED
  BY <1>3, <1>5, <1>6

\* A bundle's documents are documents.
LEMMA BundleShape ==
  ASSUME NEW b \in Bundles
  PROVE  /\ b \in Docs /\ Len(b) \in 1..MaxRev
         /\ \A k \in 1..Len(b) : b[k] \in Changes /\ b[k] \notin OwnChanges
         /\ \A j, k \in 1..Len(b) : b[j] = b[k] => j = k
<1>1. b \in Seq(BundledChanges) /\ Len(b) \in 1..MaxRev /\ IsInjective(b)
  BY BundleAssumption
<1>2. \A k \in 1..Len(b) : b[k] \in BundledChanges
  BY <1>1
<1>3. \A k \in 1..Len(b) : b[k] \in Changes /\ b[k] \notin OwnChanges
  BY <1>2, BundleAssumption DEF Changes
<1>4. b \in Docs
  BY <1>1, <1>3 DEF Docs
<1>5. \A j, k \in 1..Len(b) : b[j] = b[k] => j = k
  BY <1>1 DEF IsInjective
<1>6. QED
  BY <1>1, <1>3, <1>4, <1>5

LEMMA ImportBundleStep ==
  ASSUME IInv, NEW p \in Procs, NEW b \in Bundles, ImportBundle(p, b)
  PROVE  IInv'
<1>1. Starts(p) /\ UNCHANGED files /\ revs' = revs
  BY DEF ImportBundle, files
<1>2. /\ ops' \in [Procs -> 0..MaxOps] /\ ops'[p] = ops[p] + 1 /\ ops'[p] >= 1 /\ ops[p] \in Nat
      /\ \A q \in Procs : q # p => ops'[q] = ops[q]
  BY <1>1, StartFresh
<1>3. CASE Ends(p, "exists", "import", b)
  BY <1>1, <1>2, <1>3, BundleShape, EndStep
<1>4. CASE /\ proc' = [proc EXCEPT ![p] = [pc |-> "copy", goal |-> b]]
           /\ out' = [out EXCEPT ![p] = NoOutcome]
  <2>1. [pc |-> "copy", goal |-> b] \in ProcStates /\ NoOutcome \in Outcomes
    BY BundleShape DEF ProcStates, Outcomes
  <2>2. /\ proc' \in [Procs -> ProcStates] /\ out' \in [Procs -> Outcomes]
        /\ \A q \in Procs : q # p => proc'[q] = proc[q] /\ out'[q] = out[q]
        /\ proc'[p].pc = "copy" /\ proc'[p].goal = b /\ out'[p].res = "none"
    BY <1>4, <2>1 DEF IInv, TypeOK, NoOutcome
  <2>3. TypeOK' /\ MirrorOK'
    BY <1>1, <1>2, <2>2 DEF IInv, TypeOK, MirrorOK, files, Present
  <2>4. CommitOK(p)' /\ StateOK(p)' /\ OutcomeOK(p)'
    BY <1>2, <2>2 DEF CommitOK, StateOK, OutcomeOK, Committing
  <2>5. OnlyOf(p)
    BY <1>2, <2>2 DEF OnlyOf
  <2>6. QED
    BY <1>1, <2>3, <2>4, <2>5, Framed
<1>5. QED
  BY <1>3, <1>4 DEF ImportBundle

LEMMA ImportRevisionsStep ==
  ASSUME IInv, NEW p \in Procs, ImportRevisions(p)
  PROVE  IInv'
<1>1. /\ proc[p].pc = "copy" /\ UNCHANGED files /\ ops' = ops /\ revs' = revs
  BY DEF ImportRevisions, files
<1>2. PICK b \in Bundles : proc[p].goal = b
  BY <1>1 DEF IInv, StateOK
<1>3. b \in Docs /\ Len(b) \in 1..MaxRev /\ b[1] \in Changes
  BY BundleShape
<1>4. ops \in [Procs -> 0..MaxOps] /\ ops[p] >= 1
  BY <1>1 DEF IInv, TypeOK, StateOK
<1>5. CASE Ends(p, "exists", "import", b)
  <2>1. ops'[p] >= ops[p]
    BY <1>1, <1>4
  <2>2. QED
    BY <1>1, <1>3, <1>4, <1>5, <2>1, EndStep
<1>6. CASE Commits(p, "import", <<b[1]>>, b)
  <2> DEFINE c == b[1]
             d == <<c>>
  <2> HIDE DEF c
  <2>1. d \in Docs /\ Len(d) = 1 /\ d[1] = c
    BY <1>3 DEF Docs, c
  <2> HIDE DEF d
  <2>2. /\ proc' \in [Procs -> ProcStates] /\ out' \in [Procs -> Outcomes]
        /\ \A q \in Procs : q # p => proc'[q] = proc[q] /\ out'[q] = out[q]
        /\ proc'[p].pc = "mkdir" /\ proc'[p].op = "import" /\ proc'[p].doc = d /\ proc'[p].goal = b
        /\ out'[p].res = "none"
    <3>1. Commits(p, "import", d, b)
      BY <1>6 DEF d, c
    <3>2. QED
      BY <1>3, <2>1, <3>1, CommitsFact DEF IInv
  <2>3. TypeOK' /\ MirrorOK'
    BY <1>1, <1>4, <2>2 DEF IInv, TypeOK, MirrorOK, files, Present
  <2>4. CommitOK(p)'
    <3>1. /\ Len(d) \in 1..MaxRev /\ Len(d) <= Len(b) /\ Len(b) <= MaxRev /\ ~(Len(d) > 1)
          /\ \A k \in 1..Len(d) : d[k] = b[k]
      BY <1>3, <2>1, BoundAssumption DEF c
    <3>2. QED
      BY <1>3, <2>1, <2>2, <3>1, CommitEnters
  <2>5. StateOK(p)' /\ OutcomeOK(p)' /\ OnlyOf(p)
    BY <1>1, <1>4, <2>2 DEF StateOK, OutcomeOK, OnlyOf
  <2>6. QED
    BY <1>1, <2>3, <2>4, <2>5, Framed
<1>7. QED
  BY <1>2, <1>5, <1>6 DEF ImportRevisions

LEMMA ScanStep ==
  ASSUME IInv, NEW p \in Procs, Scan(p)
  PROVE  IInv'
<1>1. Starts(p) /\ UNCHANGED files /\ revs' = revs
  BY DEF Scan, files
<1>2. /\ ops' \in [Procs -> 0..MaxOps] /\ ops'[p] = ops[p] + 1 /\ ops'[p] >= 1 /\ ops[p] \in Nat
      /\ \A q \in Procs : q # p => ops'[q] = ops[q]
      /\ Fresh(p)'
  BY <1>1, StartFresh
<1>3. [pc |-> "scan", low |-> Present] \in ProcStates /\ NoOutcome \in Outcomes
  BY DEF ProcStates, Outcomes, Present
<1>4. /\ proc' \in [Procs -> ProcStates] /\ out' \in [Procs -> Outcomes]
      /\ \A q \in Procs : q # p => proc'[q] = proc[q] /\ out'[q] = out[q]
      /\ proc'[p].pc = "scan" /\ out'[p].res = "none"
  BY <1>3 DEF IInv, TypeOK, Scan, NoOutcome
<1>5. TypeOK' /\ MirrorOK'
  BY <1>1, <1>2, <1>4 DEF IInv, TypeOK, MirrorOK, files, Present
<1>6. CommitOK(p)' /\ StateOK(p)' /\ OutcomeOK(p)'
  BY <1>2, <1>4 DEF CommitOK, StateOK, OutcomeOK, Committing
<1>7. OnlyOf(p)
  BY <1>2, <1>4 DEF OnlyOf
<1>8. QED
  BY <1>1, <1>5, <1>6, <1>7, Framed

\* The document a listing ends with is extended by the command's own change.
LEMMA RunStep ==
  ASSUME IInv, NEW p \in Procs, NEW found \in SUBSET Present, NEW expected \in Revisions,
         Run(p, found, expected)
  PROVE  IInv'
<1>1. proc[p].pc = "scan" /\ UNCHANGED files /\ ops' = ops /\ revs' = revs
  BY DEF Run, files
<1>2. ops \in [Procs -> 0..MaxOps] /\ ops[p] >= 1 /\ Fresh(p)
  BY <1>1 DEF IInv, TypeOK, StateOK
<1>3. Fresh(p)' /\ Present' = Present
  BY <1>1, <1>2 DEF Fresh, Present
<1>4. ops'[p] >= ops[p]
  BY <1>1, <1>2, BoundAssumption
<1> DEFINE c == <<p, ops[p]>>
<1>5. c \in Changes
  BY <1>2, MyChangeShape DEF IInv
<1>6. CASE Ends(p, "unreadable", "run", <<>>)
  <2>1. <<>> \in Docs
    BY DEF Docs
  <2>2. QED
    BY <1>1, <1>2, <1>4, <1>6, <2>1, EndStep
<1>7. CASE Ends(p, "stale", "run", <<c>>)
  <2> DEFINE d == <<c>>
  <2> HIDE DEF c
  <2>1. d \in Docs /\ Len(d) = 1 /\ d[1] = c
    BY <1>5 DEF Docs
  <2> HIDE DEF d
  <2>2. Ends(p, "stale", "run", d) /\ Len(d) >= 1
    BY <1>7, <2>1 DEF d
  <2>3. d[Len(d)] = <<p, ops'[p]>>
    BY <1>1, <2>1 DEF c
  <2>4. QED
    BY <1>1, <1>2, <1>3, <1>4, <2>1, <2>2, <2>3, EndStep, Zenon
<1>8. ASSUME NEW n, n = expected, Contiguous(found), n = Cardinality(found), n < MaxRev,
             Commits(p, "run", Append(revs[n], c), Append(revs[n], c))
      PROVE  IInv'
  <2>1. n \in Nat /\ 1 <= n
    BY <1>8, BoundAssumption DEF Revisions
  <2>2. n \in Present
    BY <1>8, <2>1 DEF Contiguous
  <2>3. revs[n] \in Docs /\ Len(revs[n]) = n
    BY <2>2, RevShape DEF IInv, RevsOK
  <2> DEFINE d == Append(revs[n], c)
  <2> HIDE DEF c
  <2>4. /\ d \in Docs /\ Len(d) = n + 1 /\ d[n + 1] = c
        /\ \A k \in 1..n : d[k] = revs[n][k]
    BY <1>5, <2>3, Appended DEF Docs
  <2>5. Commits(p, "run", d, d)
    BY <1>8
  <2> HIDE DEF d
  <2>6. /\ proc' \in [Procs -> ProcStates] /\ out' \in [Procs -> Outcomes]
        /\ \A q \in Procs : q # p => proc'[q] = proc[q] /\ out'[q] = out[q]
        /\ proc'[p].pc = "mkdir" /\ proc'[p].op = "run" /\ proc'[p].doc = d /\ proc'[p].goal = d
        /\ out'[p].res = "none"
    BY <2>4, <2>5, CommitsFact DEF IInv
  <2>7. TypeOK' /\ MirrorOK'
    BY <1>1, <1>2, <2>6 DEF IInv, TypeOK, MirrorOK, files, Present
  <2>8. CommitOK(p)'
    <3>1. Len(d) \in 1..MaxRev /\ Len(d) <= MaxRev /\ Len(d) - 1 = n
      BY <1>8, <2>1, <2>4, BoundAssumption
    <3>2. d[Len(d)] = <<p, ops'[p]>> /\ n \in Present' /\ \A k \in 1..n : revs'[n][k] = d[k]
      BY <1>1, <1>3, <2>2, <2>4 DEF c
    <3>3. Len(d) - 1 \in Present' /\ \A k \in 1..(Len(d) - 1) : revs'[Len(d) - 1][k] = d[k]
      BY <3>1, <3>2, Zenon
    <3>4. Len(d) <= Len(d)
      BY <3>1
    <3>5. QED
      BY <1>3, <2>4, <2>6, <3>1, <3>2, <3>3, <3>4, CommitEnters
  <2>9. StateOK(p)' /\ OutcomeOK(p)' /\ OnlyOf(p)
    BY <1>1, <1>2, <1>4, <2>6 DEF StateOK, OutcomeOK, OnlyOf
  <2>10. QED
    BY <1>1, <2>7, <2>8, <2>9, Framed
<1>9. QED
  BY <1>6, <1>7, <1>8 DEF Run, MyChange

---------------------------------------------------------------------------
(* commit() *)

\* A step inside commit() that only moves on.
LEMMA GotoFact ==
  ASSUME TypeOK, NEW p \in Procs, NEW step \in Committing, proc[p].pc \in Committing, Goto(p, step)
  PROVE  /\ proc' \in [Procs -> ProcStates]
         /\ \A q \in Procs : q # p => proc'[q] = proc[q]
         /\ proc'[p].pc = step /\ proc'[p].op = proc[p].op
         /\ proc'[p].doc = proc[p].doc /\ proc'[p].goal = proc[p].goal
<1>1. proc[p] \in [pc : Committing, op : {"create", "run", "import"}, doc : Docs, goal : Docs]
  BY ProcShape
<1>2. [proc[p] EXCEPT !.pc = step] \in ProcStates
  BY <1>1 DEF ProcStates, Committing
<1>3. QED
  BY <1>1, <1>2 DEF TypeOK, Goto

LEMMA MkdirStep ==
  ASSUME IInv, NEW p \in Procs, Mkdir(p)
  PROVE  IInv'
<1>1. /\ proc[p].pc = "mkdir" /\ made' = TRUE /\ UNCHANGED <<revs, mirror, out, ops>>
      /\ Goto(p, "link")
  BY DEF Mkdir
<1>2. /\ proc' \in [Procs -> ProcStates]
      /\ \A q \in Procs : q # p => proc'[q] = proc[q]
      /\ proc'[p].pc = "link" /\ proc'[p].op = proc[p].op
      /\ proc'[p].doc = proc[p].doc /\ proc'[p].goal = proc[p].goal
  BY <1>1, GotoFact DEF IInv, Committing
<1>3. TypeOK' /\ MirrorOK' /\ Present' = Present
  BY <1>1, <1>2 DEF IInv, TypeOK, MirrorOK, Present
<1>4. CommitOK(p)'
  BY <1>1, <1>2, <1>3 DEF IInv, CommitOK, Committing, Fresh
<1>5. StateOK(p)' /\ OutcomeOK(p)'
  BY <1>1, <1>2, <1>3 DEF IInv, StateOK, OutcomeOK
<1>6. OnlyOf(p)
  BY <1>1, <1>2, BoundAssumption DEF IInv, TypeOK, OnlyOf
<1>7. QED
  BY <1>1, <1>3, <1>4, <1>5, <1>6, Framed

LEMMA FailStep ==
  ASSUME IInv, NEW p \in Procs, Fail(p) \/ FailEarly(p)
  PROVE  IInv'
<1>1. proc[p].pc # "idle" /\ UNCHANGED files /\ ops' = ops
  BY DEF Fail, FailEarly
<1>2. ops \in [Procs -> 0..MaxOps] /\ ops[p] >= 1
  BY <1>1 DEF IInv, TypeOK, StateOK
<1>3. ops'[p] >= ops[p]
  BY <1>1, <1>2, BoundAssumption
<1>4. \E op \in {"create", "run", "import"}, goal \in Docs : Ends(p, "failed", op, goal)
  <2>1. CASE Fail(p)
    BY <2>1, ProcShape DEF IInv, Fail, Committing
  <2>2. CASE FailEarly(p)
    <3>1. <<>> \in Docs
      BY DEF Docs
    <3>2. QED
      BY <2>2, <3>1 DEF FailEarly
  <2>3. QED
    BY <2>1, <2>2
<1>5. QED
  BY <1>1, <1>2, <1>3, <1>4, EndStep

\* The document being mirrored is the revision that was linked.
LEMMA MirrorStep ==
  ASSUME IInv, NEW p \in Procs, Mirror(p)
  PROVE  IInv'
<1> DEFINE d == proc[p].doc
           g == proc[p].goal
           op == proc[p].op
           n == Len(d)
<1>1. proc[p].pc = "mirror" /\ mirror' = d /\ UNCHANGED <<made, revs, ops>> /\ Present' = Present
  BY DEF Mirror, Present
<1>2. d \in Docs /\ g \in Docs /\ op \in {"create", "run", "import"}
  BY <1>1, ProcShape DEF IInv, Committing
<1>3. /\ n \in 1..MaxRev /\ n <= Len(g) /\ Len(g) <= MaxRev /\ \A k \in 1..n : d[k] = g[k]
      /\ revs[n] = d
      /\ op = "import" => g \in Bundles
      /\ op # "import" => d = g
  BY <1>1 DEF IInv, CommitOK, Committing
<1>4. n \in Present
  BY <1>2, <1>3, BundleAssumption DEF Present, Revisions
<1>5. ops \in [Procs -> 0..MaxOps] /\ ops[p] >= 1 /\ ops'[p] >= ops[p]
  BY <1>1, BoundAssumption DEF IInv, TypeOK, StateOK
<1>6. MirrorOK' /\ mirror' \in Docs \cup {None}
  BY <1>1, <1>2, <1>3, <1>4 DEF MirrorOK
<1>7. CASE n = Len(g) /\ Ends(p, "ok", op, g)
  <2>1. /\ proc' \in [Procs -> ProcStates] /\ out' \in [Procs -> Outcomes]
        /\ \A q \in Procs : q # p => proc'[q] = proc[q] /\ out'[q] = out[q]
        /\ proc'[p].pc = "idle" /\ out'[p].res = "ok" /\ out'[p].goal = g
    BY <1>2, <1>7, EndsFact DEF IInv
  <2>2. d = g
    BY <1>2, <1>3, <1>7, SameSeq DEF Docs
  <2>3. TypeOK'
    BY <1>1, <1>6, <2>1 DEF IInv, TypeOK
  <2>4. CommitOK(p)' /\ StateOK(p)'
    BY <1>5, <2>1 DEF CommitOK, StateOK, Committing
  <2>5. OutcomeOK(p)'
    BY <1>1, <1>3, <1>4, <1>5, <2>1, <2>2 DEF OutcomeOK
  <2>6. OnlyOf(p)
    BY <1>1, <1>5, <2>1 DEF OnlyOf
  <2>7. QED
    BY <1>1, <1>6, <2>3, <2>4, <2>5, <2>6, Framed
<1>8. CASE n < Len(g) /\ Commits(p, op, SubSeq(g, 1, n + 1), g)
  <2> DEFINE e == SubSeq(g, 1, n + 1)
  <2>1. op = "import" /\ g \in Bundles
    BY <1>3, <1>8
  <2>2. n + 1 \in Nat /\ n + 1 <= Len(g) /\ n + 1 \in 1..MaxRev /\ n \in Nat
    BY <1>2, <1>3, <1>8, BoundAssumption DEF Docs
  <2>3. e \in Docs /\ Len(e) = n + 1 /\ \A k \in 1..(n + 1) : e[k] = g[k]
    BY <1>2, <2>2, Beginning DEF Docs
  <2>4. Commits(p, "import", e, g)
    BY <1>8, <2>1
  <2> HIDE DEF e, d, g, n
  <2>5. /\ proc' \in [Procs -> ProcStates] /\ out' \in [Procs -> Outcomes]
        /\ \A q \in Procs : q # p => proc'[q] = proc[q] /\ out'[q] = out[q]
        /\ proc'[p].pc = "mkdir" /\ proc'[p].op = "import" /\ proc'[p].doc = e /\ proc'[p].goal = g
        /\ out'[p].res = "none"
    BY <1>2, <2>3, <2>4, CommitsFact DEF IInv
  <2>6. TypeOK'
    BY <1>1, <1>6, <2>5 DEF IInv, TypeOK
  <2>7. Len(e) - 1 = n /\ n \in Present' /\ \A k \in 1..n : revs'[n][k] = e[k]
    BY <1>1, <1>3, <1>4, <2>2, <2>3
  <2>8. Len(e) \in 1..MaxRev /\ Len(e) <= Len(g) /\ Len(g) <= MaxRev
    BY <1>3, <2>2, <2>3
  <2>9. CommitOK(p)'
    <3>1. Len(e) - 1 \in Present' /\ \A k \in 1..(Len(e) - 1) : revs'[Len(e) - 1][k] = e[k]
      BY <2>7
    <3>2. \A k \in 1..Len(e) : e[k] = g[k]
      BY <2>3
    <3>3. QED
      BY <1>2, <2>1, <2>3, <2>5, <2>8, <3>1, <3>2, CommitEnters
  <2>10. StateOK(p)' /\ OutcomeOK(p)' /\ OnlyOf(p)
    BY <1>1, <1>5, <2>5 DEF StateOK, OutcomeOK, OnlyOf
  <2>11. QED
    BY <1>1, <1>6, <2>6, <2>9, <2>10, Framed
<1>9. QED
  BY <1>7, <1>8 DEF Mirror

\* A document that takes a number: it was free, so it is the next one, and the
\* document extends the last.
LEMMA Taken ==
  ASSUME IInv, NEW p \in Procs, proc[p].pc = "link", revs[Len(proc[p].doc)] = None
  PROVE  LET n == Len(proc[p].doc) IN
         /\ proc[p].doc \in Docs /\ n \in 1..MaxRev
         /\ Present = 1..(n - 1)
         /\ \A m \in 1..(n - 1) : \A k \in 1..m : revs[m][k] = proc[p].doc[k]
<1> DEFINE d == proc[p].doc
           n == Len(d)
<1>1. d \in Docs
  BY ProcShape DEF IInv, Committing
<1>2. n \in 1..MaxRev /\ n \in Nat /\ n >= 1
  BY BoundAssumption DEF IInv, CommitOK, Committing
<1>3. n > 1 => n - 1 \in Present /\ \A k \in 1..(n - 1) : revs[n - 1][k] = d[k]
  BY DEF IInv, CommitOK, Committing
<1>4. n \notin Present
  BY DEF Present
<1> HIDE DEF d, n
<1>5. PICK last \in 0..MaxRev : Present = 1..last
  BY DEF IInv, RevsOK
<1>6. last = n - 1
  BY <1>2, <1>3, <1>4, <1>5, BoundAssumption
<1>7. ASSUME NEW m \in 1..(n - 1), NEW k \in 1..m PROVE revs[m][k] = d[k]
  <2>1. n - 1 \in Present /\ m \in 1..(n - 1) /\ k \in 1..(n - 1) /\ revs[n - 1][k] = d[k]
    BY <1>2, <1>3
  <2>2. revs[m][k] = revs[n - 1][k]
    BY <2>1 DEF IInv, RevsOK
  <2>3. QED
    BY <2>1, <2>2
<1>8. QED
  BY <1>1, <1>2, <1>5, <1>6, <1>7 DEF d, n

\* The revisions after the link.
LEMMA LinkedRevs ==
  ASSUME IInv, NEW d \in Docs, Len(d) \in 1..MaxRev, Present = 1..(Len(d) - 1),
         \A m \in 1..(Len(d) - 1) : \A k \in 1..m : revs[m][k] = d[k],
         revs' = [revs EXCEPT ![Len(d)] = d]
  PROVE  /\ revs' \in [Revisions -> Docs \cup {None}]
         /\ Present' = 1..Len(d)
         /\ revs'[Len(d)] = d
         /\ \A m \in 1..(Len(d) - 1) : revs'[m] = revs[m] /\ m \in Present
         /\ RevsOK'
<1> DEFINE n == Len(d)
<1>1. n \in Nat /\ n >= 1 /\ n <= MaxRev /\ n \in Revisions
  BY BoundAssumption DEF Revisions
<1>2. /\ revs' \in [Revisions -> Docs \cup {None}] /\ revs'[n] = d
      /\ \A m \in Revisions : m # n => revs'[m] = revs[m]
  BY <1>1 DEF IInv, TypeOK
<1>3. d # None
  BY BundleAssumption
<1>4. Present' = Present \cup {n}
  BY <1>1, <1>2, <1>3 DEF Present
<1> HIDE DEF n
<1>5. Present = 1..(n - 1) /\ Present' = 1..n
  BY <1>1, <1>4 DEF n
<1>6. \A m \in 1..(n - 1) : revs'[m] = revs[m] /\ m \in Present /\ m # n
  BY <1>1, <1>2, <1>5, BoundAssumption DEF Revisions
<1>7. ASSUME NEW i \in 1..n
      PROVE  /\ Len(revs'[i]) = i
             /\ \A m \in 1..i : \A k \in 1..m : revs'[m][k] = revs'[i][k]
  <2>1. CASE i = n
    <3>1. Len(revs'[i]) = i
      BY <1>2, <2>1 DEF n
    <3>2. ASSUME NEW m \in 1..i, NEW k \in 1..m PROVE revs'[m][k] = revs'[i][k]
      <4>1. m = n \/ m \in 1..(n - 1)
        BY <1>1, <2>1
      <4>2. CASE m = n
        BY <2>1, <4>2
      <4>3. CASE m \in 1..(n - 1)
        BY <1>2, <1>6, <2>1, <4>3 DEF n
      <4>4. QED
        BY <4>1, <4>2, <4>3
    <3>3. QED
      BY <3>1, <3>2
  <2>2. CASE i # n
    <3>1. i \in 1..(n - 1) /\ i \in Present /\ revs'[i] = revs[i] /\ \A m \in 1..i : m \in 1..(n - 1)
      BY <1>1, <1>6, <2>2
    <3>2. \A m \in 1..i : revs'[m] = revs[m]
      BY <1>6, <3>1
    <3>3. QED
      BY <3>1, <3>2 DEF IInv, RevsOK
  <2>3. QED
    BY <2>1, <2>2
<1>8. RevsOK'
  <2>1. n \in 0..MaxRev
    BY <1>1, BoundAssumption
  <2>2. QED
    BY <1>5, <1>7, <2>1 DEF RevsOK
<1>9. QED
  BY <1>2, <1>5, <1>6, <1>8 DEF n

\* What a new revision adds: nothing that a command which has not linked yet,
\* or was refused, is to add.
LEMMA LinkedChanges ==
  ASSUME IInv, NEW p \in Procs, proc[p].pc = "link", revs[Len(proc[p].doc)] = None,
         NEW k \in 1..Len(proc[p].doc), NEW q \in Procs, NEW j \in 1..MaxOps,
         proc[p].doc[k] = <<q, j>>
  PROVE  /\ j <= ops[q]
         /\ q # p /\ Fresh(q) => j # ops[q]
<1> DEFINE d == proc[p].doc
           n == Len(d)
<1>1. /\ d \in Docs /\ n \in Nat /\ n >= 1 /\ Present = 1..(n - 1)
      /\ \A m \in 1..(n - 1) : \A i \in 1..m : revs[m][i] = d[i]
  <2>1. n \in 1..MaxRev
    BY Taken
  <2>2. d \in Docs /\ Present = 1..(n - 1)
    BY Taken
  <2>3. \A m \in 1..(n - 1) : \A i \in 1..m : revs[m][i] = d[i]
    BY Taken
  <2> HIDE DEF d, n
  <2>4. n \in Nat /\ n >= 1
    BY <2>1, BoundAssumption
  <2>5. QED
    BY <2>2, <2>3, <2>4
<1>2. CASE k < n
  <2>1. n - 1 \in Present /\ k \in 1..(n - 1) /\ revs[n - 1][k] = <<q, j>>
    <3>1. k \in 1..n /\ d[k] = <<q, j>>
      OBVIOUS
    <3> HIDE DEF d, n
    <3>2. n - 1 \in 1..(n - 1) /\ k \in 1..(n - 1)
      BY <1>1, <1>2, <3>1
    <3>3. QED
      BY <1>1, <3>1, <3>2
  <2>2. \A i \in 1..(n - 1) :
          revs[n - 1][i] = <<q, j>> => j <= ops[q] /\ (Fresh(q) => j # ops[q])
    <3> HIDE DEF d, n
    <3>1. QED
      BY <2>1 DEF IInv, OwnOK, Fresh
  <2>3. QED
    BY <2>1, <2>2
<1>3. /\ n <= Len(proc[p].goal)
      /\ \A i \in 1..n : d[i] = proc[p].goal[i]
      /\ proc[p].op = "import" => proc[p].goal \in Bundles
      /\ proc[p].op # "import" => d[n] = <<p, ops[p]>>
  BY DEF IInv, CommitOK, Committing
<1>4. CASE k = n /\ proc[p].op = "import"
  <2> DEFINE b == proc[p].goal
  <2>1. d[k] = <<q, j>>
    OBVIOUS
  <2> HIDE DEF d, n, b
  <2>2. b \in Bundles /\ n <= Len(b) /\ \A i \in 1..n : d[i] = b[i]
    BY <1>3, <1>4 DEF b
  <2>3. Len(b) \in Nat
    BY <2>2, BundleShape, BoundAssumption
  <2>4. k \in 1..Len(b) /\ b[k] = <<q, j>>
    BY <1>1, <1>4, <2>1, <2>2, <2>3
  <2>5. <<q, j>> \in OwnChanges
    BY DEF OwnChanges
  <2>6. QED
    BY <2>2, <2>4, <2>5, BundleShape
<1>5. CASE k = n /\ proc[p].op # "import"
  <2>1. <<q, j>> = <<p, ops[p]>>
    BY <1>3, <1>5
  <2>2. QED
    BY <2>1, BoundAssumption DEF IInv, TypeOK
<1>6. QED
  BY <1>1, <1>2, <1>4, <1>5

LEMMA LinkStep ==
  ASSUME IInv, NEW p \in Procs, Link(p)
  PROVE  IInv'
<1> DEFINE d == proc[p].doc
           n == Len(d)
<1>1. proc[p].pc = "link" /\ ops' = ops /\ UNCHANGED <<made, mirror>>
  BY DEF Link, files
<1>2. ops \in [Procs -> 0..MaxOps] /\ ops[p] >= 1 /\ ops'[p] >= ops[p]
  BY <1>1, BoundAssumption DEF IInv, TypeOK, StateOK
<1>3. CASE revs[n] # None
  <2>1. Ends(p, "stale", proc[p].op, proc[p].goal) /\ UNCHANGED files /\ revs' = revs
    BY <1>3 DEF Link, files
  <2>2. proc[p].goal \in Docs /\ proc[p].op \in {"create", "run", "import"}
    BY <1>1, ProcShape DEF IInv, Committing
  <2>3. proc[p].op # "import" =>
          /\ Len(proc[p].goal) >= 1 /\ proc[p].goal[Len(proc[p].goal)] = <<p, ops[p]>> /\ Fresh(p)
    BY <1>1, BoundAssumption DEF IInv, CommitOK, Committing
  <2>4. Fresh(p)' <=> Fresh(p)
    BY <1>1, <2>1 DEF Fresh, Present
  <2>5. QED
    BY <1>1, <1>2, <2>1, <2>2, <2>3, <2>4, EndStep
<1>4. CASE revs[n] = None
  <2>1. revs' = [revs EXCEPT ![n] = d] /\ Goto(p, "mirror") /\ out' = out
    BY <1>4 DEF Link
  <2>2. /\ d \in Docs /\ n \in 1..MaxRev /\ Present = 1..(n - 1)
        /\ \A m \in 1..(n - 1) : \A k \in 1..m : revs[m][k] = d[k]
    BY <1>1, <1>4, Taken
  <2>3. /\ revs' \in [Revisions -> Docs \cup {None}] /\ Present' = 1..n /\ revs'[n] = d
        /\ \A m \in 1..(n - 1) : revs'[m] = revs[m] /\ m \in Present
        /\ RevsOK'
    BY <2>1, <2>2, LinkedRevs
  <2>4. /\ proc' \in [Procs -> ProcStates]
        /\ \A q \in Procs : q # p => proc'[q] = proc[q]
        /\ proc'[p].pc = "mirror" /\ proc'[p].op = proc[p].op
        /\ proc'[p].doc = d /\ proc'[p].goal = proc[p].goal
    BY <1>1, <2>1, GotoFact DEF IInv, Committing
  <2>5. TypeOK'
    BY <1>1, <2>1, <2>3, <2>4 DEF IInv, TypeOK
  <2>6. \A m \in Present : m \in Present' /\ m # n /\ revs'[m] = revs[m]
    BY <2>2, <2>3, BoundAssumption
  <2>7. MirrorOK'
    BY <1>1, <2>6 DEF IInv, MirrorOK
  <2>8. \A k \in 1..n, q \in Procs, j \in 1..MaxOps : d[k] = <<q, j>> =>
          j <= ops[q] /\ (q # p /\ Fresh(q) => j # ops[q])
    BY <1>1, <1>4, LinkedChanges
  <2>9. \A m \in Present' : m \in Present \/ m = n
    BY <2>2, <2>3, BoundAssumption
  <2> HIDE DEF d, n
  <2>10. OwnOK'
    BY <1>1, <2>3, <2>6, <2>8, <2>9 DEF IInv, OwnOK
  <2>11. ASSUME NEW q \in Procs, q # p PROVE CommitOK(q)' /\ StateOK(q)' /\ OutcomeOK(q)'
    <3>1. proc'[q] = proc[q] /\ out'[q] = out[q] /\ ops'[q] = ops[q]
      BY <1>1, <2>1, <2>4, <2>11
    <3>2. CommitOK(q) /\ StateOK(q) /\ OutcomeOK(q) /\ TypeOK
      BY DEF IInv
    <3>3. ASSUME Fresh(q), ops[q] >= 1 PROVE Fresh(q)'
      <4>1. ops[q] \in 1..MaxOps
        BY <3>2, <3>3, MyChangeShape
      <4>2. \A k \in 1..n : d[k] # <<q, ops[q]>>
        BY <2>8, <2>11, <3>3, <4>1
      <4>3. QED
        BY <2>3, <2>6, <2>9, <3>1, <3>3, <4>2 DEF Fresh
    <3>4. proc[q].pc \in Committing => proc[q].pc # "idle" /\ proc[q].doc \in Docs
      BY <3>2, ProcShape DEF Committing
    <3>5. proc[q].pc = "mirror" => Len(proc[q].doc) \in Present
      BY <3>2, <3>4, BundleAssumption DEF CommitOK, Committing, Present, Revisions
    <3>6. CommitOK(q)'
      <4>1. CASE proc[q].pc \in Committing
        <5>1. ops[q] >= 1
          BY <3>2, <3>4, <4>1 DEF StateOK
        <5>2. QED
          BY <2>6, <3>1, <3>2, <3>3, <3>5, <4>1, <5>1 DEF CommitOK
      <4>2. CASE proc[q].pc \notin Committing
        BY <3>1, <4>2 DEF CommitOK
      <4>3. QED
        BY <4>1, <4>2
    <3>7. StateOK(q)'
      BY <3>1, <3>2, <3>3 DEF StateOK
    <3>8. OutcomeOK(q)'
      BY <2>6, <3>1, <3>2, <3>3 DEF OutcomeOK
    <3>9. QED
      BY <3>6, <3>7, <3>8
  <2>12. CommitOK(p)'
    <3>1. CommitOK(p)
      BY DEF IInv
    <3>2. /\ Len(d) \in 1..MaxRev /\ Len(d) <= Len(proc[p].goal) /\ Len(proc[p].goal) <= MaxRev
          /\ \A k \in 1..Len(d) : d[k] = proc[p].goal[k]
          /\ Len(d) > 1 => /\ Len(d) - 1 \in Present
                           /\ \A k \in 1..(Len(d) - 1) : revs[Len(d) - 1][k] = d[k]
          /\ proc[p].op = "import" => proc[p].goal \in Bundles
          /\ proc[p].op # "import" => d = proc[p].goal /\ d[Len(d)] = <<p, ops[p]>>
      BY <1>1, <3>1 DEF CommitOK, Committing, d
    <3>3. Len(d) > 1 => /\ Len(d) - 1 \in Present'
                        /\ \A k \in 1..(Len(d) - 1) : revs'[Len(d) - 1][k] = d[k]
      BY <2>6, <3>2
    <3>4. revs'[Len(d)] = d
      BY <2>3 DEF n
    <3>5. QED
      BY <1>1, <2>4, <3>2, <3>3, <3>4 DEF CommitOK
  <2>13. StateOK(p)' /\ OutcomeOK(p)'
    BY <1>1, <1>2, <2>1, <2>4 DEF IInv, StateOK, OutcomeOK
  <2>14. QED
    BY <2>3, <2>5, <2>7, <2>10, <2>11, <2>12, <2>13 DEF IInv
<1>5. QED
  BY <1>3, <1>4

---------------------------------------------------------------------------
(* The theorems. *)

\* The inductive invariant: the revisions are a chain, every document on its
\* way to a number extends the revision before it, and the change of a command
\* that has not linked is in none of them.
THEOREM Invariance == Spec => []IInv
<1>1. IInv /\ [Next]_vars => IInv'
  <2> SUFFICES ASSUME IInv, [Next]_vars PROVE IInv'
    OBVIOUS
  <2>1. CASE UNCHANGED vars
    <3>1. UNCHANGED <<made, revs, mirror, proc, out, ops>> /\ Present' = Present
      BY <2>1 DEF vars, files, Present
    <3>2. TypeOK' /\ RevsOK' /\ MirrorOK' /\ OwnOK'
      BY <3>1 DEF IInv, TypeOK, RevsOK, MirrorOK, OwnOK
    <3>3. \A p \in Procs : CommitOK(p)' /\ StateOK(p)' /\ OutcomeOK(p)'
      BY <3>1 DEF IInv, CommitOK, StateOK, OutcomeOK, Fresh
    <3>4. QED
      BY <3>2, <3>3 DEF IInv
  <2>2. CASE \E p \in Procs : Create(p) \/ Scan(p) \/ (\E b \in Bundles : ImportBundle(p, b))
    BY <2>2, CreateStep, ScanStep, ImportBundleStep
  <2>3. CASE \E p \in Procs : Step(p)
    BY <2>3, RunStep, ImportRevisionsStep, MkdirStep, LinkStep, MirrorStep DEF Step
  <2>4. CASE \E p \in Procs : Fail(p) \/ FailEarly(p)
    BY <2>4, FailStep
  <2>5. QED
    BY <2>1, <2>2, <2>3, <2>4 DEF Next
<1>2. QED
  BY <1>1, InitOK, PTL DEF Spec

\* The document that the next command will read.
HeadIs == \E last \in 0..MaxRev :
  /\ Present = 1..last
  /\ HeadDoc = IF last = 0 THEN <<>> ELSE revs[last]

LEMMA HeadOK == IInv => HeadIs
<1> SUFFICES ASSUME IInv PROVE HeadIs
  OBVIOUS
<1>1. PICK last \in 0..MaxRev : Present = 1..last
  BY DEF IInv, RevsOK
<1>2. CASE last = 0
  BY <1>1, <1>2 DEF HeadIs, HeadDoc
<1>3. CASE last # 0
  <2>1. last \in Present /\ \A m \in Present : m <= last
    BY <1>1, <1>3, BoundAssumption
  <2>2. Latest \in Present /\ \A m \in Present : m <= Latest
    BY <2>1 DEF Latest
  <2>3. Latest = last
    BY <1>1, <2>1, <2>2, BoundAssumption
  <2>4. QED
    BY <1>1, <1>3, <2>1, <2>3 DEF HeadIs, HeadDoc
<1>4. QED
  BY <1>2, <1>3

\* revisions/ is a chain of documents, each extending the one before it by one
\* change, and investigation.json is a copy of one of them, whatever commands
\* race and wherever they fail.
THEOREM LedgerChain == Spec => []Chain
<1>1. IInv => Chain
  <2> SUFFICES ASSUME IInv PROVE Chain
    OBVIOUS
  <2>1. ASSUME NEW n \in Present, n > 1
        PROVE  n - 1 \in Present /\ Front(revs[n]) = revs[n - 1]
    <3>1. n \in Nat /\ revs[n] \in Docs /\ Len(revs[n]) = n
      BY RevShape DEF IInv, RevsOK
    <3>2. PICK last \in 0..MaxRev : Present = 1..last
      BY DEF IInv, RevsOK
    <3>3. n - 1 \in Present /\ n - 1 \in 1..n /\ n - 1 \in Nat /\ n - 1 <= Len(revs[n])
      BY <2>1, <3>1, <3>2, BoundAssumption
    <3>4. revs[n - 1] \in Docs /\ Len(revs[n - 1]) = n - 1
      BY <3>3, RevShape DEF IInv, RevsOK
    <3>5. \A k \in 1..(n - 1) : revs[n - 1][k] = revs[n][k]
      BY <3>3 DEF IInv, RevsOK
    <3> DEFINE s == SubSeq(revs[n], 1, n - 1)
    <3>6. s \in Docs /\ Len(s) = n - 1 /\ \A k \in 1..(n - 1) : s[k] = revs[n][k]
      BY <3>1, <3>3, Beginning DEF Docs
    <3>7. Front(revs[n]) = s
      BY <3>1 DEF Front
    <3> HIDE DEF s
    <3>8. s = revs[n - 1]
      BY <3>4, <3>5, <3>6, SameSeq DEF Docs
    <3>9. QED
      BY <3>3, <3>7, <3>8
  <2>2. \A n \in Present : Len(revs[n]) = n
    BY DEF IInv, RevsOK
  <2>3. QED
    BY <2>1, <2>2 DEF IInv, Chain, MirrorOK
<1>2. QED
  BY <1>1, Invariance, PTL

\* Once a command has been acknowledged, all it was to leave behind is part of
\* the authoritative document, for any races and failures of other commands.
THEOREM AcknowledgedStays == Spec => []AckedStays
<1>1. IInv /\ HeadIs => AckedStays
  <2> SUFFICES ASSUME IInv, HeadIs, NEW p \in Procs, out[p].res = "ok"
               PROVE  IsPrefix(out[p].goal, HeadDoc)
    BY DEF AckedStays
  <2> DEFINE g == out[p].goal
             n == Len(g)
  <2>1. g \in Docs /\ n \in Present /\ revs[n] = g
    BY OutShape DEF IInv, OutcomeOK
  <2>2. PICK last \in 0..MaxRev : Present = 1..last /\ HeadDoc = IF last = 0 THEN <<>> ELSE revs[last]
    BY DEF HeadIs
  <2>3. last \in Present /\ HeadDoc = revs[last] /\ n \in 1..last /\ n \in Nat /\ n <= last
    BY <2>1, <2>2, BoundAssumption
  <2>4. HeadDoc \in Docs /\ Len(HeadDoc) = last
    BY <2>3, RevShape DEF IInv, RevsOK
  <2>5. \A k \in 1..n : g[k] = HeadDoc[k]
    BY <2>1, <2>3 DEF IInv, RevsOK
  <2> DEFINE s == SubSeq(g, 1, n)
             t == SubSeq(HeadDoc, 1, n)
  <2>6. s \in Docs /\ Len(s) = n /\ \A k \in 1..n : s[k] = g[k]
    BY <2>1, <2>3, Beginning DEF Docs
  <2>7. t \in Docs /\ Len(t) = n /\ \A k \in 1..n : t[k] = HeadDoc[k]
    BY <2>3, <2>4, Beginning DEF Docs
  <2> HIDE DEF s, t
  <2>8. s = t
    BY <2>5, <2>6, <2>7, SameSeq DEF Docs
  <2>9. QED
    BY <2>3, <2>4, <2>8 DEF IsPrefix, s, t
<1>2. QED
  BY <1>1, HeadOK, Invariance, PTL

\* A create or an update that was refused left nothing in the ledger, then or
\* later.
THEOREM RefusalChangesNothing == Spec => []RefusedChangesNothing
<1>1. IInv /\ HeadIs => RefusedChangesNothing
  <2> SUFFICES ASSUME IInv, HeadIs, NEW p \in Procs, out[p].res \in {"stale", "exists"},
                      out[p].op # "import"
               PROVE  Last(out[p].goal) \notin Range(HeadDoc)
    BY DEF RefusedChangesNothing
  <2>1. Last(out[p].goal) = <<p, ops[p]>> /\ Fresh(p)
    BY DEF IInv, OutcomeOK, Last
  <2>2. PICK last \in 0..MaxRev : Present = 1..last /\ HeadDoc = IF last = 0 THEN <<>> ELSE revs[last]
    BY DEF HeadIs
  <2>3. CASE last = 0
    BY <2>2, <2>3 DEF Range
  <2>4. CASE last # 0
    <3>1. last \in Present /\ HeadDoc = revs[last]
      BY <2>2, <2>4, BoundAssumption
    <3>2. HeadDoc \in Docs /\ Len(HeadDoc) = last
      BY <3>1, RevShape DEF IInv, RevsOK
    <3>3. DOMAIN HeadDoc = 1..last
      BY <3>2 DEF Docs
    <3>4. QED
      BY <2>1, <3>1, <3>3 DEF Fresh, Range
  <2>5. QED
    BY <2>3, <2>4
<1>2. QED
  BY <1>1, HeadOK, Invariance, PTL

\* The directory implements an append-only log: the one step that a reader can
\* see is that a change which was never there is added to the last document.
THEOREM Refinement == Spec => Implements
<1>1. Init => Log!LInit
  BY DEF Init, Log!LInit, HeadDoc, Present
<1>2. IInv /\ HeadIs /\ HeadIs' /\ [Next]_vars => [\E c \in Changes : Log!LAppend(c)]_HeadDoc
  <2> SUFFICES ASSUME IInv, HeadIs, HeadIs', [Next]_vars
               PROVE  [\E c \in Changes : Log!LAppend(c)]_HeadDoc
    OBVIOUS
  <2>1. CASE revs' = revs
    BY <2>1 DEF HeadDoc, Latest, Present
  <2>2. ASSUME NEW p \in Procs, Link(p), revs' # revs
        PROVE  \E c \in Changes : Log!LAppend(c)
    <3> DEFINE d == proc[p].doc
               n == Len(d)
               c == d[n]
    <3>1. proc[p].pc = "link" /\ revs[n] = None /\ revs' = [revs EXCEPT ![n] = d]
      BY <2>2 DEF Link, files
    <3>2. /\ d \in Docs /\ n \in 1..MaxRev /\ Present = 1..(n - 1)
          /\ \A m \in 1..(n - 1) : \A k \in 1..m : revs[m][k] = d[k]
      BY <3>1, Taken
    <3>3. Present' = 1..n /\ revs'[n] = d
      BY <3>1, <3>2, LinkedRevs
    <3>4. HeadDoc' = d
      <4>1. PICK last \in 0..MaxRev : Present' = 1..last /\ HeadDoc' = IF last = 0 THEN <<>> ELSE revs'[last]
        BY DEF HeadIs
      <4>2. last = n /\ n # 0
        BY <3>2, <3>3, <4>1, BoundAssumption
      <4>3. QED
        BY <3>3, <4>1, <4>2
    <3>5. HeadDoc \in Docs /\ Len(HeadDoc) = n - 1 /\ \A k \in 1..(n - 1) : HeadDoc[k] = d[k]
      <4>1. PICK last \in 0..MaxRev : Present = 1..last /\ HeadDoc = IF last = 0 THEN <<>> ELSE revs[last]
        BY DEF HeadIs
      <4>2. last = n - 1
        BY <3>2, <4>1, BoundAssumption
      <4>3. CASE n = 1
        BY <4>1, <4>2, <4>3 DEF Docs
      <4>4. CASE n # 1
        <5> HIDE DEF d, n
        <5>1. n - 1 \in Present /\ HeadDoc = revs[n - 1] /\ n - 1 \in 1..(n - 1)
          BY <3>2, <4>1, <4>2, <4>4, BoundAssumption
        <5>2. QED
          BY <3>2, <5>1, RevShape DEF IInv, RevsOK
      <4>5. QED
        BY <4>3, <4>4
    <3>6. c \in Changes
      BY <3>2 DEF Docs
    <3>7. \A i \in 1..(n - 1) : d[i] # c
      <4>1. CASE proc[p].op = "import"
        <5>1. PICK b \in Bundles : b = proc[p].goal
          BY <3>1, <4>1 DEF IInv, CommitOK, Committing
        <5>2. n <= Len(b) /\ \A k \in 1..n : d[k] = b[k]
          BY <3>1, <5>1 DEF IInv, CommitOK, Committing
        <5>3. Len(b) \in 1..MaxRev /\ \A j, k \in 1..Len(b) : b[j] = b[k] => j = k
          BY BundleShape
        <5>4. d[n] = c
          OBVIOUS
        <5> HIDE DEF d, n, c
        <5>5. n \in 1..Len(b) /\ \A i \in 1..(n - 1) : i \in 1..Len(b) /\ i \in 1..n /\ i # n
          BY <3>2, <5>2, <5>3, BoundAssumption
        <5>6. QED
          BY <3>2, <5>2, <5>3, <5>4, <5>5
      <4>2. CASE proc[p].op # "import"
        <5>1. c = <<p, ops[p]>> /\ Fresh(p)
          BY <3>1, <4>2 DEF IInv, CommitOK, Committing
        <5>2. ASSUME NEW i \in 1..(n - 1) PROVE d[i] # c
          <6>1. n - 1 \in Present /\ n - 1 \in 1..(n - 1) /\ revs[n - 1][i] = d[i]
            BY <3>2
          <6>2. QED
            BY <5>1, <6>1 DEF Fresh
        <5>3. QED
          BY <5>2
      <4>3. QED
        BY <4>1, <4>2
    <3> HIDE DEF d, n, c
    <3>8. d = Append(HeadDoc, c)
      <4>1. n \in Nat /\ n >= 1 /\ Len(d) = n /\ d[n] = c
        BY <3>2, BoundAssumption DEF n, c
      <4> DEFINE a == Append(HeadDoc, c)
      <4>2. /\ a \in Docs /\ Len(a) = n /\ a[n] = c
            /\ \A k \in 1..(n - 1) : a[k] = HeadDoc[k]
        BY <3>5, <3>6, <4>1, Appended DEF Docs
      <4> HIDE DEF a
      <4>3. \A k \in 1..n : d[k] = a[k]
        BY <3>5, <4>1, <4>2
      <4>4. d = a
        BY <3>2, <4>1, <4>2, <4>3, SameSeq DEF Docs
      <4>5. QED
        BY <4>4 DEF a
    <3>9. \A i \in DOMAIN HeadDoc : HeadDoc[i] # c
      BY <3>5, <3>7 DEF Docs
    <3>10. QED
      BY <3>4, <3>6, <3>8, <3>9 DEF Log!LAppend
  <2>3. ASSUME NEW p \in Procs,
               \/ Create(p) \/ Scan(p) \/ (\E b \in Bundles : ImportBundle(p, b))
               \/ (\E found \in SUBSET Present, expected \in Revisions : Run(p, found, expected))
               \/ ImportRevisions(p) \/ Mkdir(p) \/ Mirror(p) \/ Fail(p) \/ FailEarly(p)
        PROVE  revs' = revs
    BY <2>3 DEF Create, Scan, ImportBundle, Run, ImportRevisions, Mkdir, Mirror, Fail, FailEarly, files
  <2>4. UNCHANGED vars => revs' = revs
    BY DEF vars, files
  <2>5. QED
    BY <2>1, <2>2, <2>3, <2>4 DEF Next, Step
<1>3. QED
  BY <1>1, <1>2, HeadOK, Invariance, PTL DEF Spec, Implements, Log!LSpec

---------------------------------------------------------------------------
(* The documents *)

\* What an issue can be about, ask for and cite.
Boundaries == UNION {Range(Nodes[r]) \ {NoBoundary} : r \in Records}
Wanted == {Requirements(operations) : operations \in Required}
          \cup {BoundaryIssue(r, b, 0).requirements : r \in Records, b \in Boundaries}
Actions == {"create", "add-question", "add-unknowns", "observe", "infer", "support",
            "contradict", "resolve"}
Citations == SUBSET Records
Resolutions == [evidence : Citations, revision : Nat]
Issues == [id : Texts \cup Boundaries, source : Records \cup {"analyst"},
           state : {"open", "answered", "withdrawn", "out_of_scope"},
           supporting : Citations, contradicting : Citations, requirements : Wanted,
           resolution : Resolutions, created : Nat, updated : Nat]
Documents == [revision : Nat, issues : Seq(Issues), observations : Seq(Citations),
              inferences : Seq(Citations), history : Seq(Actions)]

\* An issue asks for what it came from.
Asks(issue) ==
  \/ /\ issue.source = "analyst"
     /\ \E operations : issue.requirements = Requirements(operations)
  \/ /\ issue.source \in Records /\ issue.id \in Boundaries
     /\ issue.requirements = BoundaryIssue(issue.source, issue.id, 0).requirements

\* What validate_document() asks of one issue, and what the issue asks for.
Sound(issue) ==
  /\ Asks(issue)
  /\ Closed(issue) <=> issue.resolution # Unresolved
  /\ issue.state = "answered" => issue.resolution.evidence # {}

DInv ==
  /\ doc \in Documents /\ held \subseteq Records
  /\ Len(doc.history) = doc.revision
  /\ \A i, j \in DOMAIN doc.issues : doc.issues[i].id = doc.issues[j].id => i = j
  /\ \A i \in DOMAIN doc.issues : Sound(doc.issues[i])

LEMMA DocShape ==
  ASSUME DInv
  PROVE  /\ doc.revision \in Nat /\ doc.issues \in Seq(Issues)
         /\ doc.observations \in Seq(Citations) /\ doc.inferences \in Seq(Citations)
         /\ doc.history \in Seq(Actions)
         /\ Len(doc.issues) \in Nat /\ DOMAIN doc.issues = 1..Len(doc.issues)
         /\ \A i \in DOMAIN doc.issues : doc.issues[i] \in Issues
<1>1. /\ doc.revision \in Nat /\ doc.issues \in Seq(Issues)
      /\ doc.observations \in Seq(Citations) /\ doc.inferences \in Seq(Citations)
      /\ doc.history \in Seq(Actions)
  BY DEF DInv, Documents
<1> QED
  BY <1>1

\* What Commit leaves of a change: the fields, the next number, one more entry.
LEMMA Committed ==
  ASSUME DInv, NEW action \in Actions, NEW changed \in Documents, Commit(action, changed)
  PROVE  /\ doc' \in Documents /\ held' = held
         /\ doc'.revision = doc.revision + 1 /\ Len(doc'.history) = doc'.revision
         /\ doc'.issues = changed.issues
         /\ doc'.observations = changed.observations
         /\ doc'.inferences = changed.inferences
<1> DEFINE log == Append(doc.history, action)
<1>1. /\ doc' = [changed EXCEPT !.revision = doc.revision + 1, !.history = log]
      /\ held' = held
  BY DEF Commit
<1>2. doc.revision \in Nat /\ doc.history \in Seq(Actions) /\ Len(doc.history) = doc.revision
  BY DocShape DEF DInv
<1>3. log \in Seq(Actions) /\ Len(log) = doc.revision + 1
  BY <1>2
<1> DEFINE n == doc.revision + 1
<1>4. n \in Nat
  BY <1>2
<1> HIDE DEF log, n
<1>5. doc' = [changed EXCEPT !.revision = n, !.history = log]
  BY <1>1 DEF n
<1>6. /\ doc'.revision = n /\ doc'.history = log /\ doc'.issues = changed.issues
      /\ doc'.observations = changed.observations /\ doc'.inferences = changed.inferences
  BY <1>5 DEF Documents
<1>7. doc' \in Documents
  BY <1>3, <1>4, <1>5 DEF Documents
<1> QED
  BY <1>1, <1>3, <1>6, <1>7 DEF n

\* A step that keeps the ids of the issues there are and adds issues with
\* other ids, each sound, keeps the document valid.
LEMMA StaysValid ==
  ASSUME DInv, doc' \in Documents, held' \subseteq Records,
         Len(doc'.history) = doc'.revision,
         NEW n, n = Len(doc.issues), n <= Len(doc'.issues),
         \A i \in 1..n : doc'.issues[i].id = doc.issues[i].id,
         \A i \in 1..Len(doc'.issues) : i > n =>
            /\ \A j \in 1..n : doc'.issues[i].id # doc.issues[j].id
            /\ \A j \in 1..Len(doc'.issues) : j > n /\ doc'.issues[i].id = doc'.issues[j].id => i = j,
         \A i \in 1..Len(doc'.issues) : Sound(doc'.issues[i])
  PROVE  DInv'
<1>1. n \in Nat /\ DOMAIN doc.issues = 1..n
  BY DocShape
<1>2. doc'.issues \in Seq(Issues) /\ Len(doc'.issues) \in Nat /\ DOMAIN doc'.issues = 1..Len(doc'.issues)
  BY DEF Documents
<1> DEFINE m == Len(doc'.issues)
<1>3. ASSUME NEW i \in 1..m, NEW j \in 1..m, doc'.issues[i].id = doc'.issues[j].id
      PROVE  i = j
  <2>1. CASE i <= n /\ j <= n
    <3>1. i \in 1..n /\ j \in 1..n
      BY <1>1, <1>2, <2>1
    <3>2. doc.issues[i].id = doc.issues[j].id
      BY <1>3, <3>1
    <3> QED
      BY <1>1, <3>1, <3>2 DEF DInv
  <2>2. CASE i > n /\ j <= n
    <3>1. j \in 1..n
      BY <1>1, <1>2, <2>2
    <3> QED
      BY <1>3, <2>2, <3>1
  <2>3. CASE i <= n /\ j > n
    <3>1. i \in 1..n
      BY <1>1, <1>2, <2>3
    <3> QED
      BY <1>3, <2>3, <3>1
  <2>4. CASE i > n /\ j > n
    BY <1>3, <2>4
  <2> QED
    BY <1>1, <1>2, <2>1, <2>2, <2>3, <2>4
<1>4. \A i \in 1..m : Sound(doc.issues[i])'
  BY DEF Sound, Asks, Closed, Unresolved, Requirements, BoundaryIssue, Issue
<1> QED
  BY <1>2, <1>3, <1>4 DEF DInv

\* What a step may do to an issue that is there already: NothingForgotten and
\* AnswersFit, of one issue.
Remembers(old, new) ==
  /\ new.id = old.id /\ new.created = old.created
  /\ old.supporting \subseteq new.supporting
  /\ old.contradicting \subseteq new.contradicting
  /\ Closed(old) => new.state = old.state /\ new.resolution = old.resolution

Backed(old, new) ==
  old.state # "answered" /\ new.state = "answered" =>
    LET evidence == new.resolution.evidence IN
    /\ old.supporting \subseteq evidence /\ evidence \subseteq held
    /\ \E r \in evidence : Fits(r, old)

Carried ==
  /\ Len(doc.issues) <= Len(doc'.issues)
  /\ \A i \in DOMAIN doc.issues :
       Remembers(doc.issues[i], doc'.issues[i]) /\ Backed(doc.issues[i], doc'.issues[i])
  /\ IsPrefix(doc.observations, doc'.observations)
  /\ IsPrefix(doc.inferences, doc'.inferences)

LEMMA SameRemembered ==
  ASSUME NEW issue
  PROVE  Remembers(issue, issue) /\ Backed(issue, issue)
BY DEF Remembers, Backed

LEMMA PrefixOfItself ==
  ASSUME NEW S, NEW s \in Seq(S)
  PROVE  IsPrefix(s, s)
BY DEF IsPrefix

LEMMA PrefixOfAppend ==
  ASSUME NEW S, NEW s \in Seq(S), NEW e \in S
  PROVE  IsPrefix(s, Append(s, e)) /\ Append(s, e) \in Seq(S)
<1> DEFINE t == Append(s, e)
           n == Len(s)
<1>1. /\ t \in Seq(S) /\ n \in Nat /\ Len(t) = n + 1 /\ \A k \in 1..n : t[k] = s[k]
      /\ \A k \in 1..n : s[k] \in S
  OBVIOUS
<1> HIDE DEF t
<1>2. SubSeq(s, 1, n) = SubSeq(t, 1, n)
  BY <1>1
<1> QED
  BY <1>1, <1>2 DEF IsPrefix, t

\* --support, --contradict, --resolve: one issue becomes another.
LEMMA AmendStep ==
  ASSUME DInv, NEW action \in Actions, NEW i \in DOMAIN doc.issues, NEW new \in Issues,
         Commit(action, [doc EXCEPT !.issues[i] = new]),
         Sound(new), Remembers(doc.issues[i], new), Backed(doc.issues[i], new)
  PROVE  DInv' /\ Carried
<1> DEFINE issues == [doc.issues EXCEPT ![i] = new]
           changed == [doc EXCEPT !.issues = issues]
<1>1. /\ doc.issues \in Seq(Issues) /\ Len(doc.issues) \in Nat
      /\ DOMAIN doc.issues = 1..Len(doc.issues) /\ doc \in Documents
      /\ doc.observations \in Seq(Citations) /\ doc.inferences \in Seq(Citations)
  BY DocShape DEF DInv
<1>2. /\ issues \in Seq(Issues) /\ Len(issues) = Len(doc.issues) /\ issues[i] = new
      /\ \A j \in 1..Len(doc.issues) : j # i => issues[j] = doc.issues[j]
  BY <1>1
<1>3. [doc EXCEPT !.issues[i] = new] = changed
  BY <1>1 DEF Documents
<1> HIDE DEF issues
<1>4. /\ changed \in Documents /\ changed.issues = issues
      /\ changed.observations = doc.observations /\ changed.inferences = doc.inferences
  BY <1>1, <1>2 DEF Documents
<1> HIDE DEF changed
<1>5. Commit(action, changed)
  BY <1>3
<1>6. /\ doc' \in Documents /\ held' = held /\ Len(doc'.history) = doc'.revision
      /\ doc'.issues = issues
      /\ doc'.observations = doc.observations /\ doc'.inferences = doc.inferences
  BY <1>4, <1>5, Committed
<1>7. DInv'
  <2>1. \A j \in 1..Len(doc.issues) : doc'.issues[j].id = doc.issues[j].id
    BY <1>1, <1>2, <1>6 DEF Remembers
  <2>2. \A j \in 1..Len(doc.issues) : Sound(doc'.issues[j])
    BY <1>1, <1>2, <1>6 DEF DInv
  <2>3. held' \subseteq Records
    BY <1>6 DEF DInv
  <2> QED
    BY <1>1, <1>2, <1>6, <2>1, <2>2, <2>3, StaysValid
<1>8. Carried
  <2>1. ASSUME NEW j \in DOMAIN doc.issues
        PROVE  Remembers(doc.issues[j], doc'.issues[j]) /\ Backed(doc.issues[j], doc'.issues[j])
    BY <1>1, <1>2, <1>6, SameRemembered
  <2> QED
    BY <1>1, <1>2, <1>6, <2>1, PrefixOfItself DEF Carried
<1> QED
  BY <1>7, <1>8

\* Issues that are not tracked yet, each under an id of its own.
Untracked(added) ==
  /\ added \in Seq(Issues)
  /\ \A k \in 1..Len(added) : Sound(added[k]) /\ added[k].id \notin IssueIds(doc.issues)
  /\ \A k, j \in 1..Len(added) : added[k].id = added[j].id => k = j

Grown(added, changed) == changed = [doc EXCEPT !.issues = doc.issues \o added]

\* --add-question, --add-unknowns: issues with ids of their own are added.
LEMMA GrowStep ==
  ASSUME DInv, NEW action, action \in Actions, NEW added, Untracked(added),
         NEW changed, Grown(added, changed), Commit(action, changed)
  PROVE  DInv' /\ Carried
<1> DEFINE issues == doc.issues \o added
<1>0. /\ added \in Seq(Issues)
      /\ \A k \in 1..Len(added) : Sound(added[k]) /\ added[k].id \notin IssueIds(doc.issues)
      /\ \A k, j \in 1..Len(added) : added[k].id = added[j].id => k = j
      /\ changed = [doc EXCEPT !.issues = issues]
  BY DEF Untracked, Grown
<1> DEFINE n == Len(doc.issues)
<1>1. /\ doc.issues \in Seq(Issues) /\ n \in Nat /\ DOMAIN doc.issues = 1..n
      /\ doc \in Documents
      /\ doc.observations \in Seq(Citations) /\ doc.inferences \in Seq(Citations)
  BY DocShape DEF DInv
<1>2. /\ issues \in Seq(Issues) /\ Len(issues) = n + Len(added) /\ Len(added) \in Nat
      /\ \A j \in 1..n : issues[j] = doc.issues[j]
      /\ \A j \in 1..Len(issues) : j > n => j - n \in 1..Len(added) /\ issues[j] = added[j - n]
  BY <1>0, <1>1
<1> HIDE DEF issues
<1>3. /\ changed \in Documents /\ changed.issues = issues
      /\ changed.observations = doc.observations /\ changed.inferences = doc.inferences
  BY <1>0, <1>1, <1>2 DEF Documents
<1>4. Commit(action, changed)
  OBVIOUS
<1>5. /\ doc' \in Documents /\ held' = held /\ Len(doc'.history) = doc'.revision
      /\ doc'.issues = issues
      /\ doc'.observations = doc.observations /\ doc'.inferences = doc.inferences
  BY <1>3, <1>4, Committed
<1>6. DInv'
  <2>1. \A j \in 1..n : doc'.issues[j].id = doc.issues[j].id
    BY <1>2, <1>5
  <2>2. ASSUME NEW i \in 1..Len(issues), i > n
        PROVE  /\ \A j \in 1..n : doc'.issues[i].id # doc.issues[j].id
               /\ \A j \in 1..Len(issues) : j > n /\ doc'.issues[i].id = doc'.issues[j].id => i = j
    <3>1. i - n \in 1..Len(added) /\ doc'.issues[i] = added[i - n]
      BY <1>2, <1>5, <2>2
    <3>2. \A j \in 1..n : doc.issues[j].id \in IssueIds(doc.issues)
      BY <1>1 DEF IssueIds
    <3>3. ASSUME NEW j \in 1..Len(issues), j > n, doc'.issues[i].id = doc'.issues[j].id
          PROVE  i = j
      <4>1. j - n \in 1..Len(added) /\ doc'.issues[j] = added[j - n]
        BY <1>2, <1>5, <3>3
      <4>2. i - n = j - n
        BY <1>0, <3>1, <3>3, <4>1
      <4> QED
        BY <1>1, <1>2, <4>2
    <3> QED
      BY <1>0, <3>1, <3>2, <3>3
  <2>3. ASSUME NEW i \in 1..Len(issues) PROVE Sound(doc'.issues[i])
    <3>1. CASE i <= n
      <4>1. i \in 1..n
        BY <1>1, <1>2, <3>1
      <4> QED
        BY <1>1, <1>2, <1>5, <4>1 DEF DInv
    <3>2. CASE i > n
      BY <1>0, <1>2, <1>5, <3>2
    <3> QED
      BY <1>1, <1>2, <3>1, <3>2
  <2>4. held' \subseteq Records /\ n <= Len(doc'.issues)
    BY <1>1, <1>2, <1>5 DEF DInv
  <2> QED
    BY <1>5, <2>1, <2>2, <2>3, <2>4, StaysValid
<1>7. Carried
  <2>1. ASSUME NEW j \in DOMAIN doc.issues
        PROVE  Remembers(doc.issues[j], doc'.issues[j]) /\ Backed(doc.issues[j], doc'.issues[j])
    BY <1>1, <1>2, <1>5, SameRemembered
  <2>2. n <= Len(doc'.issues)
    BY <1>1, <1>2, <1>5
  <2> QED
    BY <1>1, <1>5, <2>1, <2>2, PrefixOfItself DEF Carried
<1> QED
  BY <1>6, <1>7

\* --observe, --infer: the issues stay as they are.
LEMMA NoteStep ==
  ASSUME DInv, NEW action \in Actions, NEW changed \in Documents, Commit(action, changed),
         changed.issues = doc.issues,
         IsPrefix(doc.observations, changed.observations),
         IsPrefix(doc.inferences, changed.inferences)
  PROVE  DInv' /\ Carried
<1> DEFINE n == Len(doc.issues)
<1>1. /\ doc' \in Documents /\ held' = held /\ Len(doc'.history) = doc'.revision
      /\ doc'.issues = doc.issues /\ doc'.observations = changed.observations
      /\ doc'.inferences = changed.inferences
  BY Committed
<1>2. n \in Nat /\ DOMAIN doc.issues = 1..n /\ held \subseteq Records
  BY DocShape DEF DInv
<1>3. \A i \in 1..n : Sound(doc'.issues[i])
  BY <1>1, <1>2 DEF DInv
<1>4. DInv'
  BY <1>1, <1>2, <1>3, StaysValid
<1>5. Carried
  BY <1>1, <1>2, SameRemembered DEF Carried
<1> QED
  BY <1>4, <1>5

LEMMA NewIssue ==
  ASSUME NEW id \in Texts \cup Boundaries, NEW source \in Records \cup {"analyst"},
         NEW requirements \in Wanted, NEW n \in Nat,
         \/ source = "analyst" /\ \E operations : requirements = Requirements(operations)
         \/ /\ source \in Records /\ id \in Boundaries
            /\ requirements = BoundaryIssue(source, id, 0).requirements
  PROVE  LET new == Issue(id, source, requirements, n) IN
         new \in Issues /\ Sound(new) /\ new.id = id
<1>1. {} \in Citations /\ Unresolved \in Resolutions
  BY DEF Citations, Unresolved, Resolutions
<1> DEFINE new == Issue(id, source, requirements, n)
<1>2. /\ new.id = id /\ new.state = "open" /\ new.resolution = Unresolved
      /\ new.source = source /\ new.requirements = requirements
      /\ new = [id |-> id, source |-> source, state |-> "open",
                supporting |-> {}, contradicting |-> {},
                requirements |-> requirements, resolution |-> Unresolved,
                created |-> n, updated |-> n]
  BY DEF Issue
<1> HIDE DEF new
<1>3. new \in Issues
  BY <1>1, <1>2 DEF Issues
<1>4. Asks(new)
  BY <1>2 DEF Asks
<1>5. Sound(new)
  BY <1>2, <1>4 DEF Sound, Closed
<1> QED
  BY <1>2, <1>3, <1>5 DEF new

LEMMA AddQuestionStep ==
  ASSUME DInv, NEW text \in Texts, NEW operations \in Required, AddQuestion(text, operations)
  PROVE  DInv' /\ Carried
<1> DEFINE new == QuestionIssue(text, operations, doc.revision + 1)
           issues == Append(doc.issues, new)
<1>1. doc.revision + 1 \in Nat /\ doc.issues \in Seq(Issues) /\ doc \in Documents
  BY DocShape DEF DInv
<1>2. new \in Issues /\ Sound(new) /\ new.id = text
  <2>1. Requirements(operations) \in Wanted
    BY DEF Wanted
  <2> QED
    BY <1>1, <2>1, NewIssue DEF QuestionIssue
<1>3. text \notin IssueIds(doc.issues) /\ Commit("add-question", [doc EXCEPT !.issues = issues])
  BY DEF AddQuestion
<1> HIDE DEF new
<1>4. issues = doc.issues \o <<new>> /\ <<new>> \in Seq(Issues)
  BY <1>1, <1>2
<1> HIDE DEF issues
<1> DEFINE added == <<new>>
           changed == [doc EXCEPT !.issues = issues]
<1>5. /\ \A k \in 1..Len(added) : Sound(added[k]) /\ added[k].id \notin IssueIds(doc.issues)
      /\ \A k, j \in 1..Len(added) : added[k].id = added[j].id => k = j
  BY <1>2, <1>3
<1>6. Untracked(added)
  BY <1>4, <1>5 DEF Untracked
<1>7. Grown(added, changed)
  BY <1>4, Zenon DEF Grown
<1>8. Commit("add-question", changed)
  BY <1>3, Zenon
<1>9. "add-question" \in Actions
  BY DEF Actions
<1> HIDE DEF added, changed
<1> QED
  BY <1>6, <1>7, <1>8, <1>9, GrowStep, Zenon

LEMMA AddUnknownsStep ==
  ASSUME DInv, NEW r \in held, NEW nodes, AddUnknowns(r, nodes),
         nodes = <<>> \/ \E i, j \in DOMAIN Nodes[r] : nodes = <<i, j>>
  PROVE  DInv' /\ Carried
<1>1. /\ r \in Records /\ doc.revision + 1 \in Nat /\ doc.issues \in Seq(Issues)
  BY DocShape DEF DInv
<1>2. PICK selected \in Selected(r, nodes) :
        LET boundaries == [k \in DOMAIN selected |-> Nodes[r][selected[k]]] IN
        /\ \A k \in DOMAIN selected :
             selected[k] \in DOMAIN Nodes[r] /\ boundaries[k] # NoBoundary
        /\ \E new \in Ascending({k \in DOMAIN selected : PushNew(boundaries, k)}) :
             /\ new # <<>>
             /\ Commit("add-unknowns",
                  [doc EXCEPT !.issues = @ \o
                     [k \in DOMAIN new |-> BoundaryIssue(r, boundaries[new[k]], doc.revision + 1)]])
  BY DEF AddUnknowns
<1> DEFINE boundaries == [k \in DOMAIN selected |-> Nodes[r][selected[k]]]
           S == {k \in DOMAIN selected : PushNew(boundaries, k)}
<1>3. PICK new \in Ascending(S) :
        Commit("add-unknowns",
          [doc EXCEPT !.issues = doc.issues \o
             [k \in DOMAIN new |-> BoundaryIssue(r, boundaries[new[k]], doc.revision + 1)]])
  BY <1>2
<1>4. \E n \in Nat : DOMAIN selected = 1..n
  <2>1. CASE nodes = <<>>
    <3> DEFINE B == {i \in DOMAIN Nodes[r] : Nodes[r][i] # NoBoundary}
    <3>1. Nodes[r] \in Seq(Range(Nodes[r]))
      BY <1>1, RecordsAssumption
    <3>2. IsFiniteSet(DOMAIN Nodes[r])
      BY <3>1, FS_Interval
    <3>3. IsFiniteSet(B) /\ selected \in Ascending(B)
      BY <2>1, <3>2, FS_Subset DEF Selected
    <3>4. Cardinality(B) \in Nat
      BY <3>3, FS_CardinalityType
    <3> HIDE DEF B
    <3>5. DOMAIN selected = 1..Cardinality(B)
      BY <3>3 DEF Ascending
    <3> QED
      BY <3>4, <3>5
  <2>2. CASE nodes # <<>>
    <3>1. PICK i \in DOMAIN Nodes[r], j \in DOMAIN Nodes[r] : nodes = <<i, j>>
      BY <2>2
    <3>2. selected = <<i, j>>
      BY <2>2, <3>1 DEF Selected
    <3>3. DOMAIN selected = 1..2
      BY <3>2
    <3> QED
      BY <3>3
  <2> QED
    BY <2>1, <2>2
<1>5. PICK n \in Nat : DOMAIN selected = 1..n
  BY <1>4
<1>6. S \in SUBSET (1..n) /\ IsFiniteSet(S)
  <2>1. S \in SUBSET (1..n)
    BY <1>5
  <2> HIDE DEF S
  <2>2. IsFiniteSet(1..n)
    BY FS_Interval
  <2> QED
    BY <2>1, <2>2, FS_Subset
<1>7. ASSUME NEW k \in 1..n
      PROVE  boundaries[k] \in Boundaries
  <2>1. /\ selected[k] \in DOMAIN Nodes[r] /\ boundaries[k] = Nodes[r][selected[k]]
        /\ boundaries[k] # NoBoundary
    BY <1>2, <1>5
  <2> HIDE DEF boundaries
  <2>2. boundaries[k] \in Range(Nodes[r])
    BY <2>1 DEF Range
  <2>3. boundaries[k] \in Range(Nodes[r]) \ {NoBoundary}
    BY <2>1, <2>2
  <2> QED
    BY <1>1, <2>3, Zenon DEF Boundaries
<1>8. ASSUME NEW k \in S
      PROVE  /\ k \in Nat /\ boundaries[k] \notin IssueIds(doc.issues)
             /\ \A j \in S : j < k => boundaries[j] # boundaries[k]
  <2>1. k \in 1..n /\ PushNew(boundaries, k)
    BY <1>6
  <2>2. /\ boundaries[k] \notin IssueIds(doc.issues)
        /\ \A j \in 1..(k - 1) : boundaries[j] # boundaries[k]
    BY <2>1 DEF PushNew
  <2>3. ASSUME NEW j \in S, j < k PROVE j \in 1..(k - 1)
    BY <1>6, <2>1, <2>3
  <2> HIDE DEF S, boundaries
  <2> QED
    BY <2>1, <2>2, <2>3
<1> HIDE DEF S, boundaries
<1>9. Cardinality(S) \in Nat
  BY <1>6, FS_CardinalityType
<1> DEFINE c == Cardinality(S)
           added == [k \in DOMAIN new |-> BoundaryIssue(r, boundaries[new[k]], doc.revision + 1)]
<1>10. /\ new \in [1..c -> S] /\ DOMAIN new = 1..c
       /\ \A i, j \in 1..c : i < j => new[i] < new[j]
  BY DEF Ascending
<1>11. ASSUME NEW k \in 1..c
       PROVE  /\ added[k] \in Issues /\ Sound(added[k]) /\ added[k].id = boundaries[new[k]]
  <2> DEFINE b == boundaries[new[k]]
  <2>1. new[k] \in 1..n /\ b \in Boundaries
    BY <1>6, <1>7, <1>10
  <2> HIDE DEF b
  <2>2. added[k] = BoundaryIssue(r, b, doc.revision + 1)
    BY <1>10 DEF b
  <2>3. PICK q \in Wanted :
          /\ BoundaryIssue(r, b, doc.revision + 1) = Issue(b, r, q, doc.revision + 1)
          /\ q = BoundaryIssue(r, b, 0).requirements
    <3> DEFINE q == {IF b.limit
                       THEN [operations |-> {"ssa-slice"}, function |-> Func[r]]
                       ELSE [operations |-> {"card", "ssa-slice"}, function |-> b.function]}
    <3>1. BoundaryIssue(r, b, doc.revision + 1) = Issue(b, r, q, doc.revision + 1)
      BY DEF BoundaryIssue
    <3>2. BoundaryIssue(r, b, 0).requirements = q
      BY DEF BoundaryIssue, Issue
    <3> HIDE DEF q
    <3>3. q \in Wanted
      BY <1>1, <2>1, <3>2 DEF Wanted
    <3> QED
      BY <3>1, <3>2, <3>3
  <2>4. added[k] \in Issues /\ Sound(added[k]) /\ added[k].id = b
    BY <1>1, <2>1, <2>2, <2>3, NewIssue
  <2> QED
    BY <2>4 DEF b
<1>12. DOMAIN added = 1..c
  BY <1>10
<1>13. Commit("add-unknowns", [doc EXCEPT !.issues = doc.issues \o added])
  BY <1>3
<1> HIDE DEF added
<1>14. added \in Seq(Issues) /\ Len(added) = c
  <2>1. added \in [1..c -> Issues]
    BY <1>11, <1>12, <1>13 DEF added
  <2> QED
    BY <1>9, <2>1
<1>15. ASSUME NEW k \in 1..c
       PROVE  /\ added[k].id \notin IssueIds(doc.issues)
              /\ \A j \in 1..c : added[k].id = added[j].id => k = j
  <2>1. new[k] \in S /\ added[k].id = boundaries[new[k]]
    BY <1>10, <1>11
  <2>2. ASSUME NEW j \in 1..c, added[k].id = added[j].id PROVE k = j
    <3>1. new[j] \in S /\ boundaries[new[j]] = boundaries[new[k]]
      BY <1>10, <1>11, <2>1, <2>2
    <3>2. ~(new[j] < new[k]) /\ ~(new[k] < new[j])
      BY <1>8, <2>1, <3>1
    <3>3. ~(j < k) /\ ~(k < j)
      BY <1>10, <3>2
    <3> QED
      BY <1>9, <3>3
  <2> QED
    BY <1>8, <2>1, <2>2
<1> DEFINE changed == [doc EXCEPT !.issues = doc.issues \o added]
<1>16. Grown(added, changed) /\ Commit("add-unknowns", changed)
  BY <1>13, Zenon DEF Grown
<1>17. "add-unknowns" \in Actions
  BY DEF Actions
<1> HIDE DEF c, changed
<1>18. Untracked(added)
  BY <1>11, <1>14, <1>15 DEF Untracked
<1> QED
  BY <1>16, <1>17, <1>18, GrowStep, Zenon
LEMMA NoteSteps ==
  ASSUME DInv, NEW cited \in SUBSET held, Observe(cited) \/ Infer(cited)
  PROVE  DInv' /\ Carried
<1>1. /\ doc \in Documents /\ doc.observations \in Seq(Citations)
      /\ doc.inferences \in Seq(Citations) /\ cited \in Citations
  BY DocShape DEF DInv, Citations
<1>2. CASE Observe(cited)
  <2> DEFINE notes == Append(doc.observations, cited)
             changed == [doc EXCEPT !.observations = notes]
  <2>1. Commit("observe", changed)
    BY <1>2, Zenon DEF Observe
  <2>2. notes \in Seq(Citations) /\ IsPrefix(doc.observations, notes)
    BY <1>1, PrefixOfAppend
  <2>3. IsPrefix(doc.inferences, doc.inferences)
    BY <1>1, PrefixOfItself
  <2> HIDE DEF notes
  <2>4. /\ changed \in Documents /\ changed.issues = doc.issues
        /\ changed.observations = notes /\ changed.inferences = doc.inferences
    BY <1>1, <2>2 DEF Documents
  <2>5. "observe" \in Actions
    BY DEF Actions
  <2> HIDE DEF changed
  <2>6. IsPrefix(doc.observations, changed.observations) /\ IsPrefix(doc.inferences, changed.inferences)
    BY <2>2, <2>3, <2>4
  <2> QED
    BY <2>1, <2>4, <2>5, <2>6, NoteStep, Zenon
<1>3. CASE Infer(cited)
  <2> DEFINE notes == Append(doc.inferences, cited)
             changed == [doc EXCEPT !.inferences = notes]
  <2>1. Commit("infer", changed)
    BY <1>3, Zenon DEF Infer
  <2>2. notes \in Seq(Citations) /\ IsPrefix(doc.inferences, notes)
    BY <1>1, PrefixOfAppend
  <2>3. IsPrefix(doc.observations, doc.observations)
    BY <1>1, PrefixOfItself
  <2> HIDE DEF notes
  <2>4. /\ changed \in Documents /\ changed.issues = doc.issues
        /\ changed.inferences = notes /\ changed.observations = doc.observations
    BY <1>1, <2>2 DEF Documents
  <2>5. "infer" \in Actions
    BY DEF Actions
  <2> HIDE DEF changed
  <2>6. IsPrefix(doc.observations, changed.observations) /\ IsPrefix(doc.inferences, changed.inferences)
    BY <2>2, <2>3, <2>4
  <2> QED
    BY <2>1, <2>4, <2>5, <2>6, NoteStep, Zenon
<1> QED
  BY <1>2, <1>3

LEMMA SupportStep ==
  ASSUME DInv, NEW cited \in SUBSET held, NEW i \in DOMAIN doc.issues, Support(i, cited)
  PROVE  DInv' /\ Carried
<1> DEFINE old == doc.issues[i]
           n == doc.revision + 1
           new == [old EXCEPT !.supporting = @ \cup cited, !.updated = n]
<1>1. old \in Issues /\ n \in Nat /\ Sound(old) /\ cited \in Citations
  BY DocShape DEF DInv, Citations
<1>2. Commit("support", [doc EXCEPT !.issues[i].supporting = @ \cup cited, !.issues[i].updated = n])
  BY Zenon DEF Support
<1>3. [doc EXCEPT !.issues[i].supporting = @ \cup cited, !.issues[i].updated = n]
        = [doc EXCEPT !.issues[i] = new]
  BY DocShape DEF DInv, Documents
<1>4. Commit("support", [doc EXCEPT !.issues[i] = new])
  BY <1>2, <1>3, Zenon
<1> HIDE DEF n, old
<1>5. /\ new \in Issues /\ new.id = old.id /\ new.created = old.created /\ new.state = old.state
      /\ new.supporting = old.supporting \cup cited /\ new.contradicting = old.contradicting
      /\ new.resolution = old.resolution
      /\ new.source = old.source /\ new.requirements = old.requirements
  BY <1>1 DEF Issues, Citations
<1>6. "support" \in Actions
  BY DEF Actions
<1> HIDE DEF new
<1>7. Sound(new) /\ Remembers(old, new) /\ Backed(old, new)
  BY <1>1, <1>5 DEF Sound, Asks, Closed, Remembers, Backed
<1> QED
  BY <1>4, <1>5, <1>6, <1>7, AmendStep, Zenon DEF old

LEMMA ContradictStep ==
  ASSUME DInv, NEW cited \in SUBSET held, NEW i \in DOMAIN doc.issues, Contradict(i, cited)
  PROVE  DInv' /\ Carried
<1> DEFINE old == doc.issues[i]
           n == doc.revision + 1
           new == [old EXCEPT !.contradicting = @ \cup cited, !.updated = n]
<1>1. old \in Issues /\ n \in Nat /\ Sound(old) /\ cited \in Citations
  BY DocShape DEF DInv, Citations
<1>2. Commit("contradict", [doc EXCEPT !.issues[i].contradicting = @ \cup cited, !.issues[i].updated = n])
  BY Zenon DEF Contradict
<1>3. [doc EXCEPT !.issues[i].contradicting = @ \cup cited, !.issues[i].updated = n]
        = [doc EXCEPT !.issues[i] = new]
  BY DocShape DEF DInv, Documents
<1>4. Commit("contradict", [doc EXCEPT !.issues[i] = new])
  BY <1>2, <1>3, Zenon
<1> HIDE DEF n, old
<1>5. /\ new \in Issues /\ new.id = old.id /\ new.created = old.created /\ new.state = old.state
      /\ new.contradicting = old.contradicting \cup cited /\ new.supporting = old.supporting
      /\ new.resolution = old.resolution
      /\ new.source = old.source /\ new.requirements = old.requirements
  BY <1>1 DEF Issues, Citations
<1>6. "contradict" \in Actions
  BY DEF Actions
<1> HIDE DEF new
<1>7. Sound(new) /\ Remembers(old, new) /\ Backed(old, new)
  BY <1>1, <1>5 DEF Sound, Asks, Closed, Remembers, Backed
<1> QED
  BY <1>4, <1>5, <1>6, <1>7, AmendStep, Zenon DEF old

\* Evidence that satisfies the requirements of an issue fits what it came from.
LEMMA FitsIfSatisfies ==
  ASSUME NEW issue, Asks(issue), NEW evidence,
         \A requirement \in issue.requirements : \E r \in evidence : Satisfies(requirement, r)
  PROVE  \E r \in evidence : Fits(r, issue)
<1>1. CASE issue.source = "analyst"
  <2>1. PICK operations : issue.requirements = Requirements(operations)
    BY <1>1, RecordsAssumption DEF Asks
  <2> DEFINE q == [operations |-> operations, function |-> AnyFunction]
  <2>2. issue.requirements = {q} /\ q.operations = operations
    BY <2>1 DEF Requirements
  <2>3. PICK r \in evidence : Satisfies(q, r)
    BY <2>2
  <2>4. r \notin Failed /\ (operations = {} \/ Kind[r] \in operations)
    BY <2>2, <2>3 DEF Satisfies
  <2> QED
    BY <1>1, <2>2, <2>4 DEF Fits
<1>2. CASE issue.source # "analyst"
  <2>1. /\ issue.requirements = BoundaryIssue(issue.source, issue.id, 0).requirements
        /\ issue.source \in Records /\ issue.id \in Boundaries
    BY <1>2 DEF Asks
  <2> DEFINE limit == [operations |-> {"ssa-slice"}, function |-> Func[issue.source]]
             call == [operations |-> {"card", "ssa-slice"}, function |-> issue.id.function]
             q == IF issue.id.limit THEN limit ELSE call
  <2>2. issue.requirements = {q}
    BY <2>1 DEF BoundaryIssue, Issue
  <2>3. PICK r \in evidence : Satisfies(q, r)
    BY <2>2
  <2>4. /\ r \notin Failed
        /\ Func[issue.source] # AnyFunction /\ issue.id.function # AnyFunction
    BY <2>1, <2>3, RecordsAssumption DEF Satisfies, Boundaries
  <2>5. CASE issue.id.limit
    <3>1. Kind[r] = "ssa-slice" /\ limit.function \in {AnyFunction, Func[r]}
      BY <2>3, <2>5 DEF Satisfies
    <3> QED
      BY <1>2, <2>4, <2>5, <3>1 DEF Fits
  <2>6. CASE ~issue.id.limit
    BY <1>2, <2>3, <2>4, <2>6 DEF Satisfies, Fits
  <2> QED
    BY <2>5, <2>6
<1> QED
  BY <1>1, <1>2

LEMMA CloseStep ==
  ASSUME DInv, NEW i \in DOMAIN doc.issues, NEW state, NEW evidence \in SUBSET held,
         state \in {"answered", "withdrawn", "out_of_scope"}, Close(i, state, evidence),
         doc.issues[i].state = "open",
         state = "answered" =>
           /\ evidence # {} /\ doc.issues[i].supporting \subseteq evidence
           /\ \A requirement \in doc.issues[i].requirements :
                \E r \in evidence : Satisfies(requirement, r)
  PROVE  DInv' /\ Carried
<1> DEFINE old == doc.issues[i]
           n == doc.revision + 1
           end == [evidence |-> evidence, revision |-> n]
           new == [old EXCEPT !.state = state, !.updated = n, !.resolution = end]
<1>1. old \in Issues /\ n \in Nat /\ n # 0 /\ evidence \in Citations /\ Sound(old)
  BY DocShape DEF DInv, Citations
<1>2. Commit("resolve", [doc EXCEPT !.issues[i].state = state, !.issues[i].updated = n,
                                    !.issues[i].resolution = end])
  BY Zenon DEF Close
<1>3. /\ end \in Resolutions /\ end.evidence = evidence /\ end # Unresolved
  BY <1>1 DEF Resolutions, Unresolved
<1> HIDE DEF end
<1>4. [doc EXCEPT !.issues[i].state = state, !.issues[i].updated = n, !.issues[i].resolution = end]
        = [doc EXCEPT !.issues[i] = new]
  <2>1. doc \in Documents /\ doc.issues \in Seq(Issues) /\ old \in Issues
    BY <1>1, DocShape DEF DInv
  <2> HIDE DEF n
  <2>2. [doc EXCEPT !.issues[i].state = state, !.issues[i].updated = n]
          = [doc EXCEPT !.issues[i] = [old EXCEPT !.state = state, !.updated = n]]
    BY <2>1 DEF Documents
  <2> DEFINE x == [old EXCEPT !.state = state, !.updated = n]
             y == [doc EXCEPT !.issues[i] = x]
  <2>3. [doc EXCEPT !.issues[i].state = state, !.issues[i].updated = n, !.issues[i].resolution = end]
          = [y EXCEPT !.issues[i].resolution = end]
    BY <2>2, Zenon
  <2>4. new = [x EXCEPT !.resolution = end]
    BY Zenon
  <2> HIDE DEF x
  <2>5. [y EXCEPT !.issues[i].resolution = end] = [doc EXCEPT !.issues[i] = [x EXCEPT !.resolution = end]]
    BY <2>1 DEF Documents
  <2> QED
    BY <2>3, <2>4, <2>5, Zenon
<1>5. Commit("resolve", [doc EXCEPT !.issues[i] = new])
  BY <1>2, <1>4, Zenon
<1>6. /\ old.state = "open"
      /\ state = "answered" =>
           /\ evidence # {} /\ old.supporting \subseteq evidence
           /\ \A requirement \in old.requirements : \E r \in evidence : Satisfies(requirement, r)
  OBVIOUS
<1> HIDE DEF n, old
<1>7. /\ new \in Issues /\ new.id = old.id /\ new.created = old.created /\ new.state = state
      /\ new.supporting = old.supporting /\ new.contradicting = old.contradicting
      /\ new.resolution = end
      /\ new.source = old.source /\ new.requirements = old.requirements
  BY <1>1, <1>3 DEF Issues
<1>8. "resolve" \in Actions
  BY DEF Actions
<1> HIDE DEF new
<1>9. Sound(new)
  BY <1>1, <1>3, <1>6, <1>7 DEF Sound, Asks, Closed
<1>10. Remembers(old, new)
  BY <1>6, <1>7 DEF Remembers, Closed
<1>11. Backed(old, new)
  <2>1. state = "answered" => \E r \in evidence : Fits(r, old)
    BY <1>1, <1>6, FitsIfSatisfies DEF Sound
  <2> QED
    BY <1>3, <1>6, <1>7, <2>1, Zenon DEF Backed
<1> QED
  BY <1>5, <1>7, <1>8, <1>9, <1>10, <1>11, AmendStep, Zenon DEF old

LEMMA ResolveStep ==
  ASSUME DInv, NEW cited \in SUBSET held, NEW i \in DOMAIN doc.issues,
         Answer(i, cited) \/ \E state \in {"withdrawn", "out_of_scope"} : Dismiss(i, state, cited)
  PROVE  DInv' /\ Carried
<1>1. CASE Answer(i, cited)
  <2> DEFINE evidence == cited \cup doc.issues[i].supporting
  <2>1. /\ doc.issues[i].state = "open" /\ evidence \in SUBSET held /\ evidence # {}
        /\ doc.issues[i].supporting \subseteq evidence
        /\ \A requirement \in doc.issues[i].requirements :
             \E r \in evidence : Satisfies(requirement, r)
        /\ Close(i, "answered", evidence)
    BY <1>1 DEF Answer
  <2> HIDE DEF evidence
  <2> QED
    BY <2>1, CloseStep
<1>2. ASSUME NEW state \in {"withdrawn", "out_of_scope"}, Dismiss(i, state, cited)
      PROVE  DInv' /\ Carried
  <2>1. doc.issues[i].state = "open" /\ Close(i, state, cited) /\ state # "answered"
    BY <1>2 DEF Dismiss
  <2> QED
    BY <2>1, CloseStep
<1> QED
  BY <1>1, <1>2

\* Evidence comes and goes; the document stays.
LEMMA SameDocument ==
  ASSUME DInv, doc' = doc, held' \subseteq Records
  PROVE  DInv' /\ Carried
<1>1. Len(doc.issues) \in Nat
  BY DocShape
<1>2. DInv'
  BY DEF DInv, Sound, Asks, Closed, Unresolved, Requirements, BoundaryIssue, Issue
<1>3. IsPrefix(doc.observations, doc.observations) /\ IsPrefix(doc.inferences, doc.inferences)
  BY DocShape, PrefixOfItself
<1> QED
  BY <1>1, <1>2, <1>3, SameRemembered DEF Carried

LEMMA DStep ==
  ASSUME DInv, [DNext]_dvars
  PROVE  DInv' /\ Carried
<1>1. CASE \E text \in Texts, operations \in Required : AddQuestion(text, operations)
  BY <1>1, AddQuestionStep
<1>2. ASSUME NEW r \in held, NEW nodes \in NodeFlags(r), AddUnknowns(r, nodes)
      PROVE  DInv' /\ Carried
  <2>1. nodes = <<>> \/ \E i, j \in DOMAIN Nodes[r] : nodes = <<i, j>>
    BY DEF NodeFlags
  <2> QED
    BY <1>2, <2>1, AddUnknownsStep
<1> DEFINE Cites(cited) ==
             \/ Observe(cited) \/ Infer(cited)
             \/ \E i \in DOMAIN doc.issues :
                  \/ Support(i, cited) \/ Contradict(i, cited) \/ Answer(i, cited)
                  \/ \E state \in {"withdrawn", "out_of_scope"} : Dismiss(i, state, cited)
<1>3. ASSUME NEW cited \in SUBSET held, Cites(cited)
      PROVE  DInv' /\ Carried
  BY <1>3, NoteSteps, SupportStep, ContradictStep, ResolveStep, Zenon
<1>4. ASSUME NEW r \in Records, Record(r) \/ Delete(r)
      PROVE  DInv' /\ Carried
  <2>1. doc' = doc /\ held' \subseteq Records
    BY <1>4 DEF Record, Delete, DInv
  <2> QED
    BY <2>1, SameDocument
<1>5. CASE UNCHANGED dvars
  <2>1. doc' = doc /\ held' \subseteq Records
    BY <1>5 DEF dvars, DInv
  <2> QED
    BY <2>1, SameDocument
<1>6. CASE \E cited \in {c \in SUBSET held : Cardinality(c) <= MaxCited} : Cites(cited)
  <2>1. PICK cited \in {c \in SUBSET held : Cardinality(c) <= MaxCited} : Cites(cited)
    BY <1>6, Zenon
  <2>2. cited \in SUBSET held
    BY <2>1
  <2> QED
    BY <1>3, <2>1, <2>2, Zenon
<1>7. CASE \E r \in Records : Record(r) \/ Delete(r)
  BY <1>4, <1>7, Zenon
<1>8. CASE DNext
  BY <1>1, <1>2, <1>6, <1>7, <1>8, Zenon DEF DNext
<1> QED
  BY <1>5, <1>8

LEMMA DStart ==
  ASSUME DInit
  PROVE  DInv
<1>1. PICK text \in Texts, operations \in Required : doc = Created(text, operations)
  BY DEF DInit
<1> DEFINE new == QuestionIssue(text, operations, 1)
<1>2. new \in Issues /\ Sound(new)
  <2>1. Requirements(operations) \in Wanted /\ 1 \in Nat
    BY DEF Wanted
  <2> QED
    BY <2>1, NewIssue DEF QuestionIssue
<1>3. doc = [revision |-> 1, issues |-> <<new>>, observations |-> <<>>, inferences |-> <<>>,
             history |-> <<"create">>]
  BY <1>1 DEF Created
<1> HIDE DEF new
<1>4. /\ <<new>> \in Seq(Issues) /\ <<"create">> \in Seq(Actions)
      /\ <<>> \in Seq(Citations) /\ Len(<<"create">>) = 1
  BY <1>2 DEF Actions
<1>5. doc \in Documents /\ doc.issues = <<new>> /\ Len(doc.history) = doc.revision
  BY <1>3, <1>4 DEF Documents
<1>6. DOMAIN doc.issues = {1} /\ doc.issues[1] = new
  BY <1>5
<1> QED
  BY <1>2, <1>5, <1>6 DEF DInv, DInit

\* validate_document() accepts every document the update actions build.
THEOREM DocumentsValid == DSpec => []AlwaysValid
<1>1. DInit => DInv
  BY DStart
<1>2. DInv /\ [DNext]_dvars => DInv'
  BY DStep
<1>3. DInv => AlwaysValid
  <2> SUFFICES ASSUME DInv PROVE AlwaysValid
    OBVIOUS
  <2>1. \A i \in DOMAIN doc.issues :
          doc.issues[i].state \in {"open", "answered", "withdrawn", "out_of_scope"}
    BY DocShape DEF Issues
  <2> QED
    BY <2>1 DEF DInv, AlwaysValid, Sound
<1> QED
  BY <1>1, <1>2, <1>3, PTL DEF DSpec

\* --add-unknowns and --resolve answered: whatever happened to the document and
\* to the store in between, an issue is answered by evidence about what it came
\* from, all of it available at that moment.
THEOREM AnswersHaveEvidence == DSpec => AnswersFit
<1>1. DInit => DInv
  BY DStart
<1>2. DInv /\ [DNext]_dvars => DInv'
  BY DStep
<1>3. DInv /\ [DNext]_dvars =>
        [\A i \in DOMAIN doc.issues :
           doc.issues[i].state # "answered" /\ doc'.issues[i].state = "answered" =>
             LET evidence == doc'.issues[i].resolution.evidence IN
             /\ doc.issues[i].supporting \subseteq evidence /\ evidence \subseteq held
             /\ \E r \in evidence : Fits(r, doc.issues[i])]_dvars
  BY DStep DEF Carried, Backed
<1> QED
  BY <1>1, <1>2, <1>3, PTL DEF DSpec, AnswersFit

\* run(): nothing of an earlier revision is dropped, and what is closed stays so.
THEOREM UpdatesKeepTheDocument == DSpec => NothingForgotten
<1>1. DInit => DInv
  BY DStart
<1>2. DInv /\ [DNext]_dvars => DInv'
  BY DStep
<1>3. DInv /\ [DNext]_dvars =>
        [/\ \A i \in DOMAIN doc.issues :
              /\ doc'.issues[i].id = doc.issues[i].id
              /\ doc'.issues[i].created = doc.issues[i].created
              /\ doc.issues[i].supporting \subseteq doc'.issues[i].supporting
              /\ doc.issues[i].contradicting \subseteq doc'.issues[i].contradicting
              /\ Closed(doc.issues[i]) =>
                   /\ doc'.issues[i].state = doc.issues[i].state
                   /\ doc'.issues[i].resolution = doc.issues[i].resolution
         /\ IsPrefix(doc.observations, doc'.observations)
         /\ IsPrefix(doc.inferences, doc'.inferences)]_dvars
  BY DStep DEF Carried, Remembers
<1> QED
  BY <1>1, <1>2, <1>3, PTL DEF DSpec, NothingForgotten
=============================================================================
