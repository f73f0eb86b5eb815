------------------------------- MODULE Ledger -------------------------------
(***************************************************************************)
(* The storage protocol of an investigation directory                      *)
(* (rsleigh-cli/src/cli/agent/investigation.rs): create, run, import,      *)
(* revisions/load and commit, executed by any number of processes on one   *)
(* directory without a lock.                                               *)
(*                                                                         *)
(* A document is abstracted to its "history": the sequence of changes that *)
(* led to it, whose length is its revision number.  What a change does to  *)
(* the questions and the evidence is module Investigation.                 *)
(***************************************************************************)
EXTENDS Naturals, Sequences, FiniteSets, SequencesExt

CONSTANTS Procs,        \* processes that run a command on the directory
          Bundles,      \* final documents of bundles that can be imported
          MaxOps,       \* bound: commands per process
          MaxRev,       \* bound: revisions in the directory
          MayFail,      \* whether an I/O call may fail or a process be killed
          None          \* no such file

ASSUME BoundAssumption == MaxOps \in Nat /\ MaxRev \in Nat \ {0} /\ MayFail \in BOOLEAN

\* The change made by the k-th command of process p, and those in bundles.
OwnChanges == Procs \X (1..MaxOps)
BundledChanges == UNION {Range(b) : b \in Bundles}
Changes == OwnChanges \cup BundledChanges
Docs == Seq(Changes)

ASSUME BundleAssumption ==
  /\ \A b \in Bundles :
       b \in Seq(BundledChanges) /\ Len(b) \in 1..MaxRev /\ IsInjective(b)
  /\ BundledChanges \cap OwnChanges = {}
  /\ None \notin Docs

VARIABLES made,         \* the directory revisions/ exists
          revs,         \* revs[n]: the document in revisions/NNNNNN.json
          mirror,       \* the document in investigation.json
          proc,         \* what each process is doing
          out,          \* how the last command of each process ended
          ops           \* commands started by each process

files == <<made, revs, mirror>>
vars == <<files, proc, out, ops>>

Revisions == 1..MaxRev
Present == {n \in Revisions : revs[n] # None}

Idle == [pc |-> "idle"]
NoOutcome == [res |-> "none"]
ProcStates ==
  {Idle}
  \cup [pc : {"copy"}, goal : Docs]
  \cup [pc : {"scan"}, low : SUBSET Revisions]
  \cup [pc : {"mkdir", "link", "mirror"}, op : {"create", "run", "import"}, doc : Docs, goal : Docs]
Outcomes ==
  {NoOutcome}
  \cup [res : {"ok", "stale", "exists", "failed", "unreadable"},
        op : {"create", "run", "import"}, goal : Docs]

Init ==
  /\ made = FALSE
  /\ revs = [n \in Revisions |-> None]
  /\ mirror = None
  /\ proc = [p \in Procs |-> Idle]
  /\ out = [p \in Procs |-> NoOutcome]
  /\ ops = [p \in Procs |-> 0]

---------------------------------------------------------------------------
MyChange(p) == <<p, ops[p]>>

Starts(p) ==
  /\ proc[p].pc = "idle"
  /\ ops[p] < MaxOps
  /\ ops' = [ops EXCEPT ![p] = @ + 1]

Ends(p, res, op, goal) ==
  /\ proc' = [proc EXCEPT ![p] = Idle]
  /\ out' = [out EXCEPT ![p] = [res |-> res, op |-> op, goal |-> goal]]

Commits(p, op, doc, goal) ==
  /\ proc' = [proc EXCEPT ![p] = [pc |-> "mkdir", op |-> op, doc |-> doc, goal |-> goal]]
  /\ out' = [out EXCEPT ![p] = NoOutcome]

\* create(): refuse if revisions/ exists, else commit revision 1.
Create(p) ==
  /\ Starts(p)
  /\ LET doc == <<<<p, ops'[p]>>>> IN
       \/ /\ made
          /\ Ends(p, "exists", "create", doc)
       \/ /\ ~made
          /\ Commits(p, "create", doc, doc)
  /\ UNCHANGED files

\* bundle::import(): refuse if revisions/ exists; then the bundle is read and
\* its evidence records are copied.
ImportBundle(p, b) ==
  /\ Starts(p)
  /\ \/ /\ made
        /\ Ends(p, "exists", "import", b)
     \/ /\ ~made
        /\ proc' = [proc EXCEPT ![p] = [pc |-> "copy", goal |-> b]]
        /\ out' = [out EXCEPT ![p] = NoOutcome]
  /\ UNCHANGED files

\* investigation::import(): the same check again, then one commit() for every
\* revision of the bundle, oldest first.
ImportRevisions(p) ==
  /\ proc[p].pc = "copy"
  /\ LET b == proc[p].goal IN
       \/ /\ made
          /\ Ends(p, "exists", "import", b)
       \/ /\ ~made
          /\ Commits(p, "import", <<b[1]>>, b)
  /\ UNCHANGED <<files, ops>>

\* run(), first half: read_dir starts listing revisions/.
Scan(p) ==
  /\ made
  /\ Starts(p)
  /\ proc' = [proc EXCEPT ![p] = [pc |-> "scan", low |-> Present]]
  /\ out' = [out EXCEPT ![p] = NoOutcome]
  /\ UNCHANGED files

\* revisions(): the numbers found must be 1..n, n > 0.
Contiguous(found) == found # {} /\ found = 1..Cardinality(found)

\* run(), second half: a listing holds every entry that was there when it
\* started and may or may not hold one that was added meanwhile.  The last
\* document must be the revision the caller expects; one change is applied to
\* it.  (Without an action the document is only shown.)
Run(p, found, expected) ==
  /\ proc[p].pc = "scan"
  /\ proc[p].low \subseteq found /\ found \subseteq Present
  /\ LET n == Cardinality(found) IN
       \/ /\ ~Contiguous(found)
          /\ Ends(p, "unreadable", "run", <<>>)
       \/ /\ Contiguous(found) /\ n # expected
          /\ Ends(p, "stale", "run", <<MyChange(p)>>)
       \/ /\ Contiguous(found) /\ n = expected /\ n < MaxRev
          /\ LET doc == Append(revs[n], MyChange(p)) IN Commits(p, "run", doc, doc)
  /\ UNCHANGED <<files, ops>>

---------------------------------------------------------------------------
(* commit() *)

Goto(p, step) == proc' = [proc EXCEPT ![p].pc = step]

\* create_dir_all(revisions/), then the pending file, private to this call.
Mkdir(p) ==
  /\ proc[p].pc = "mkdir"
  /\ made' = TRUE
  /\ Goto(p, "link")
  /\ UNCHANGED <<revs, mirror, out, ops>>

\* Variant: the pending file is renamed over the revision instead of linked.
LinkByRename(p) ==
  /\ proc[p].pc = "link"
  /\ revs' = [revs EXCEPT ![Len(proc[p].doc)] = proc[p].doc]
  /\ Goto(p, "mirror")
  /\ UNCHANGED <<made, mirror, out, ops>>

\* Variant: a taken number is answered by taking the next free one.
LinkNextNumber(p) ==
  /\ proc[p].pc = "link"
  /\ LET free == {n \in Revisions : revs[n] = None /\ n >= Len(proc[p].doc)} IN
     /\ free # {}
     /\ revs' = [revs EXCEPT ![CHOOSE n \in free : \A m \in free : n <= m] = proc[p].doc]
  /\ Goto(p, "mirror")
  /\ UNCHANGED <<made, mirror, out, ops>>

\* Variant: the link is tried again although the first try succeeded.
LinkTwice(p) ==
  /\ proc[p].pc = "link"
  /\ LET n == Len(proc[p].doc) IN
     revs' = [revs EXCEPT ![n] = IF @ = None THEN proc[p].doc ELSE @]
  /\ Ends(p, "stale", proc[p].op, proc[p].goal)
  /\ UNCHANGED <<made, mirror, ops>>

\* Variant: a taken number is waited for.
LinkWaiting(p) ==
  /\ proc[p].pc = "link"
  /\ revs[Len(proc[p].doc)] = None
  /\ revs' = [revs EXCEPT ![Len(proc[p].doc)] = proc[p].doc]
  /\ Goto(p, "mirror")
  /\ UNCHANGED <<made, mirror, out, ops>>

\* hard_link(pending, revisions/NNNNNN.json) claims the number, or fails
\* because it is taken.  The pending file is removed either way.
Link(p) ==
  /\ proc[p].pc = "link"
  /\ LET doc == proc[p].doc IN
       \/ /\ revs[Len(doc)] = None
          /\ revs' = [revs EXCEPT ![Len(doc)] = doc]
          /\ Goto(p, "mirror")
          /\ UNCHANGED <<made, mirror, out, ops>>
       \/ /\ revs[Len(doc)] # None
          /\ Ends(p, "stale", proc[p].op, proc[p].goal)
          /\ UNCHANGED <<files, ops>>

\* The copy is renamed onto investigation.json; an import goes on with the
\* next revision of the bundle.
Mirror(p) ==
  /\ proc[p].pc = "mirror"
  /\ LET doc == proc[p].doc
         goal == proc[p].goal
     IN /\ mirror' = doc
        /\ \/ /\ Len(doc) = Len(goal)
              /\ Ends(p, "ok", proc[p].op, goal)
           \/ /\ Len(doc) < Len(goal)
              /\ Commits(p, proc[p].op, SubSeq(goal, 1, Len(doc) + 1), goal)
  /\ UNCHANGED <<made, revs, ops>>

\* An I/O error, or the process is killed, anywhere.  Nothing is undone.
Fail(p) ==
  /\ MayFail
  /\ proc[p].pc \in {"mkdir", "link", "mirror"}
  /\ Ends(p, "failed", proc[p].op, proc[p].goal)
  /\ UNCHANGED <<files, ops>>

FailEarly(p) ==
  /\ MayFail
  /\ proc[p].pc \in {"scan", "copy"}
  /\ Ends(p, "failed", IF proc[p].pc = "scan" THEN "run" ELSE "import", <<>>)
  /\ UNCHANGED <<files, ops>>

---------------------------------------------------------------------------
Step(p) ==
  \/ \E found \in SUBSET Present, expected \in Revisions : Run(p, found, expected)
  \/ ImportRevisions(p)
  \/ Mkdir(p) \/ Link(p) \/ Mirror(p)

Next ==
  \E p \in Procs :
    \/ Create(p) \/ Scan(p) \/ (\E b \in Bundles : ImportBundle(p, b))
    \/ Step(p) \/ Fail(p) \/ FailEarly(p)

Spec == Init /\ [][Next]_vars

\* A live process keeps executing; commands are straight lines of system calls.
FairSpec == Spec /\ \A p \in Procs : WF_vars(Step(p))

---------------------------------------------------------------------------
TypeOK ==
  /\ made \in BOOLEAN
  /\ revs \in [Revisions -> Docs \cup {None}]
  /\ mirror \in Docs \cup {None}
  /\ proc \in [Procs -> ProcStates]
  /\ out \in [Procs -> Outcomes]
  /\ ops \in [Procs -> 0..MaxOps]

\* revisions(), commit(): the numbers in revisions/ are 1..n, and the document
\* in file n extends the one in file n - 1 by exactly one change.  No update is
\* ever built on anything but the revision it replaces: none is lost, whatever
\* creates, updates and imports race.  investigation.json is a copy of one of
\* them, possibly not the latest, never of one that lost the race for its
\* number.
Chain ==
  /\ TypeOK
  /\ \A n \in Present :
       /\ Len(revs[n]) = n
       /\ n > 1 => n - 1 \in Present /\ Front(revs[n]) = revs[n - 1]
  /\ mirror # None => Len(mirror) \in Present /\ mirror = revs[Len(mirror)]

Latest == CHOOSE n \in Present : \A m \in Present : m <= n
HeadDoc == IF Present = {} THEN <<>> ELSE revs[Latest]

\* commit() returned Ok: from then on the change, or every revision of the
\* imported bundle, is part of the authoritative document.
AckedStays == \A p \in Procs : out[p].res = "ok" => IsPrefix(out[p].goal, HeadDoc)

\* "A stale revision fails with stale_revision and changes nothing": neither a
\* refused create nor a refused update is part of the ledger.
RefusedChangesNothing ==
  \A p \in Procs :
    out[p].res \in {"stale", "exists"} /\ out[p].op # "import"
      => Last(out[p].goal) \notin Range(HeadDoc)

\* Every command returns.
CommandsReturn == \A p \in Procs : proc[p].pc # "idle" ~> proc[p].pc = "idle"

\* The directory as a whole behaves as one append-only log.
Log == INSTANCE RevisionLog WITH log <- HeadDoc
Implements == Log!LSpec
=============================================================================
