------------------------------ MODULE Evidence ------------------------------
(***************************************************************************)
(* Evidence stores and the bundles that carry records between them         *)
(* (rsleigh-cli/src/cli/agent/evidence.rs and bundle.rs): preflight,       *)
(* finish, store, list, load, export and import, by processes that share   *)
(* directories without a lock.                                             *)
(*                                                                         *)
(* A record is abstracted to its content ID, which fixes everything but    *)
(* the execution (time, argv, exit code) it was recorded by; IDs are       *)
(* numbered in the order a BTreeMap lists them.  Publication of a bundle   *)
(* is one step (IndexPublish shows that it is), and so is an update of an  *)
(* investigation (Ledger).                                                 *)
(***************************************************************************)
EXTENDS Naturals, Sequences, FiniteSets, Orders

CONSTANTS Procs,        \* processes that run a command
          Stores,       \* directories used as evidence store or investigation
          Refs,         \* Refs[id]: the records that record id was derived from
          SplitStores,  \* whether --evidence-store and --investigation may differ
          MaxOps,       \* bound: commands started
          MayFail,      \* whether an I/O call may fail or a process be killed
          None

Ids == DOMAIN Refs

\* A content ID covers the references, so they form no cycle.
ASSUME RefsAssumption ==
  /\ IsFiniteSet(Ids) /\ Ids = 1..Cardinality(Ids)
  /\ \A id \in Ids : Refs[id] \subseteq Ids
  /\ \A S \in SUBSET Ids : S # {} => \E id \in S : Refs[id] \cap S = {}

ASSUME OtherAssumption ==
  MaxOps \in Nat /\ SplitStores \in BOOLEAN /\ MayFail \in BOOLEAN /\ None \notin Procs

VARIABLES disk,         \* disk[s][id]: the execution of the record s/records/id
          cited,        \* cited[s]: evidence cited by the investigation at s
          bundle,       \* the bundle directory: records, investigation
          proc,         \* what each process is doing
          ops,          \* commands started
          halfway       \* history: stores where an import stopped halfway

files == <<disk, cited, bundle>>
vars == <<files, proc, ops, halfway>>

\* An execution is told apart by the process that ran it.
Executions == Procs
Held(s) == {id \in Ids : disk[s][id] # None}
Open(s) == cited[s] # None
Idle == [pc |-> "idle"]
Importing(p) == proc[p].pc \in {"store", "rename"} /\ proc[p].cmd = "import"

Init ==
  /\ disk = [s \in Stores |-> [id \in Ids |-> None]]
  /\ cited = [s \in Stores |-> None]
  /\ bundle = None
  /\ proc = [p \in Procs |-> Idle]
  /\ ops = 0
  /\ halfway = {}

---------------------------------------------------------------------------
Starts(p) ==
  /\ proc[p].pc = "idle"
  /\ ops < MaxOps
  /\ ops' = ops + 1

Becomes(p, state) == proc' = [proc EXCEPT ![p] = state]

\* Variant: the references are not checked before the analysis.
PreflightUnchecked(p, s, id) ==
  /\ Starts(p)
  /\ Becomes(p, [pc |-> "store", cmd |-> "observe", dir |-> s, todo |-> <<<<id, p>>>>,
                 into |-> None, cites |-> None])
  /\ UNCHANGED <<files, halfway>>

\* preflight(): every --derived-from record must be in the store.  Then the
\* operation runs, and finish() stores its record.
Preflight(p, s, id) ==
  /\ Starts(p)
  /\ Refs[id] \subseteq Held(s)
  /\ Becomes(p, [pc |-> "store", cmd |-> "observe", dir |-> s, todo |-> <<<<id, p>>>>,
                 into |-> None, cites |-> None])
  /\ UNCHANGED <<files, halfway>>

\* store() half: a record whose path exists is kept.
StoreExisting(p) ==
  /\ proc[p].pc = "store" /\ proc[p].todo # <<>>
  /\ Head(proc[p].todo)[1] \in Held(proc[p].dir)
  /\ proc' = [proc EXCEPT ![p].todo = Tail(@)]
  /\ UNCHANGED <<files, ops, halfway>>

StoreMissing(p) ==
  /\ proc[p].pc = "store" /\ proc[p].todo # <<>>
  /\ Head(proc[p].todo)[1] \notin Held(proc[p].dir)
  /\ proc' = [proc EXCEPT ![p].pc = "rename"]
  /\ UNCHANGED <<files, ops, halfway>>

\* store(), second half: the pending file is renamed onto the path.
StoreRename(p) ==
  /\ proc[p].pc = "rename"
  /\ LET s == proc[p].dir
         id == Head(proc[p].todo)[1]
         execution == Head(proc[p].todo)[2]
     IN disk' = [disk EXCEPT ![s][id] = execution]
  /\ proc' = [proc EXCEPT ![p].pc = "store", ![p].todo = Tail(@)]
  /\ UNCHANGED <<cited, bundle, ops, halfway>>

\* Nothing is left to store.  An import then attaches the investigation,
\* unless one has appeared there meanwhile.
Stored(p) ==
  /\ proc[p].pc = "store" /\ proc[p].todo = <<>>
  /\ cited' = LET d == proc[p].into IN
       IF d # None /\ proc[p].cites # None /\ ~Open(d)
         THEN [cited EXCEPT ![d] = proc[p].cites] ELSE cited
  /\ Becomes(p, Idle)
  /\ UNCHANGED <<disk, bundle, ops, halfway>>

\* An error or a kill before the last record is in place.
Fail(p) ==
  /\ MayFail
  /\ proc[p].pc # "idle"
  /\ halfway' = IF Importing(p) THEN halfway \cup {proc[p].dir} ELSE halfway
  /\ Becomes(p, Idle)
  /\ UNCHANGED <<files, ops>>

---------------------------------------------------------------------------
\* investigate, and the actions that cite records held by the investigation's
\* own store (cite()).
Investigate(p, s) ==
  /\ Starts(p)
  /\ ~Open(s)
  /\ cited' = [cited EXCEPT ![s] = {}]
  /\ UNCHANGED <<disk, bundle, proc, halfway>>

Cite(p, s, id) ==
  /\ Starts(p)
  /\ Open(s)
  /\ id \in Held(s)
  /\ cited' = [cited EXCEPT ![s] = @ \cup {id}]
  /\ UNCHANGED <<disk, bundle, proc, halfway>>

---------------------------------------------------------------------------
\* export() half: attachment() reads the investigation, if one is named.
ExportInvestigation(p, s, inv, records) ==
  /\ Starts(p)
  /\ inv # None => Open(inv) /\ (SplitStores \/ s = inv)
  /\ Becomes(p, [pc |-> "export", dir |-> s, records |-> records,
                 cites |-> IF inv = None THEN None ELSE cited[inv]])
  /\ UNCHANGED <<files, halfway>>

\* Variant: only direct references are followed.
ClosureOneStep(roots) == roots \cup UNION {Refs[id] : id \in roots}

\* closure(): the records reachable from roots, the least set that holds
\* the references of its members.
Closure(roots) ==
  {id \in Ids : \A S \in SUBSET Ids :
     roots \subseteq S /\ (\A r \in S : Refs[r] \subseteq S) => id \in S}

\* Without --record the roots are every record of the store.
Roots(p) ==
  IF proc[p].records = {}
    THEN Held(proc[p].dir)
    ELSE proc[p].records \cup (IF proc[p].cites = None THEN {} ELSE proc[p].cites)

\* export(), second half: closure() fails on a missing record; the bundle is
\* published.
ExportRecords(p) ==
  /\ proc[p].pc = "export"
  /\ LET all == Closure(Roots(p)) IN
     bundle' = IF Roots(p) # {} /\ all \subseteq Held(proc[p].dir)
                 THEN [records |-> [id \in all |-> disk[proc[p].dir][id]],
                       cites |-> proc[p].cites]
                 ELSE bundle
  /\ Becomes(p, Idle)
  /\ UNCHANGED <<disk, cited, ops, halfway>>

\* read() and validate_bundle(): references are closed and the investigation
\* cites only records of the bundle.
Verifies(b) ==
  /\ \A id \in DOMAIN b.records : Refs[id] \subseteq DOMAIN b.records
  /\ b.cites # None => b.cites \subseteq DOMAIN b.records

\* Variant: the investigation is attached before its records are copied.
ImportAttachesFirst(p, s, inv) ==
  /\ Starts(p)
  /\ inv # None => ~Open(inv) /\ (SplitStores \/ s = inv)
  /\ bundle # None
  /\ Verifies(bundle)
  /\ cited' = IF inv = None THEN cited ELSE [cited EXCEPT ![inv] = bundle.cites]
  /\ \E order \in Ascending(DOMAIN bundle.records) :
       Becomes(p, [pc |-> "store", cmd |-> "import", dir |-> s,
          todo |-> [i \in DOMAIN order |-> <<order[i], bundle.records[order[i]]>>],
          into |-> None, cites |-> None])
  /\ UNCHANGED <<disk, bundle, halfway>>

\* import(): refuse an existing investigation, verify, copy the records in the
\* order of their IDs, then attach the investigation.
Import(p, s, inv) ==
  /\ Starts(p)
  /\ inv # None => ~Open(inv) /\ (SplitStores \/ s = inv)
  /\ bundle # None
  /\ Verifies(bundle)
  /\ \E order \in Ascending(DOMAIN bundle.records) :
       Becomes(p, [pc |-> "store", cmd |-> "import", dir |-> s,
          todo |-> [i \in DOMAIN order |-> <<order[i], bundle.records[order[i]]>>],
          into |-> inv, cites |-> bundle.cites])
  /\ UNCHANGED <<files, halfway>>

---------------------------------------------------------------------------
Step(p) ==
  StoreExisting(p) \/ StoreMissing(p) \/ StoreRename(p) \/ Stored(p) \/ ExportRecords(p)

Next ==
  \E p \in Procs :
    \/ \E s \in Stores, id \in Ids : Preflight(p, s, id) \/ Cite(p, s, id)
    \/ \E s \in Stores : Investigate(p, s)
    \/ \E s \in Stores, inv \in Stores \cup {None}, records \in {{}} \cup {{id} : id \in Ids} :
         ExportInvestigation(p, s, inv, records)
    \/ \E s \in Stores, inv \in Stores \cup {None} : Import(p, s, inv)
    \/ Step(p) \/ Fail(p)

Spec == Init /\ [][Next]_vars

---------------------------------------------------------------------------
Bundled ==
  [records : UNION {[S -> Executions] : S \in SUBSET Ids}, cites : (SUBSET Ids) \cup {None}]

TypeOK ==
  /\ disk \in [Stores -> [Ids -> Executions \cup {None}]]
  /\ cited \in [Stores -> (SUBSET Ids) \cup {None}]
  /\ bundle = None \/ bundle \in Bundled
  /\ \A p \in Procs : proc[p].pc \in {"idle", "store", "rename", "export"}
  /\ ops \in 0..MaxOps

\* preflight() and import(): every record of a store finds the records it was
\* derived from in the same store, except where a bundle is being imported, or
\* its import stopped, between two records.
RefsResolve ==
  /\ TypeOK
  /\ \A s \in Stores :
       \/ \A id \in Held(s) : Refs[id] \subseteq Held(s)
       \/ s \in halfway
       \/ \E p \in Procs : Importing(p) /\ proc[p].dir = s

\* cite() and import(): an investigation never cites a record that its own
\* directory does not hold, not even while it is being imported.
CitedHeld == \A s \in Stores : Open(s) => cited[s] \subseteq Held(s)

\* export(): a bundle that was published passes --verify-bundle, whatever was
\* recorded, cited or imported while it was being put together.
ExportVerifies == bundle # None => Verifies(bundle)
=============================================================================
