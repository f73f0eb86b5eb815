------------------------- MODULE AnalysisCache_proofs -------------------------
(***************************************************************************)
(* Proofs about the analysis cache, for any number of processes, requests  *)
(* and rewrites.  That only complete analyses are stored needs no          *)
(* hypothesis.  That an entry matches its identity needs two that the code *)
(* makes without saying so: a rebuilt file never gets an earlier content   *)
(* back between two looks at it, and its length and modification time do   *)
(* not come back once they were others.                                    *)
(***************************************************************************)
EXTENDS AnalysisCache, TLAPS

Jobs == [pc : Steps, kind : {"card", "slice"}, data : Versions,
         id : Identities \cup {None}, found : Analyses \cup {None},
         file : Files, key : Stamps \cup {None}, stopped : BOOLEAN]

\* What a process knows at each step of its work.
Storing == {"recheckDebug", "recheckBinary", "publish"}
Keyed == {"load"} \cup Storing
Reading == {"key", "parse"}
Done == Reading \cup {"check"} \cup Storing

JobOK(q) ==
  /\ q.pc \in Keyed => q.id \in Identities
  /\ q.pc \in Done => q.found \in Analyses
  /\ q.pc \in Storing => q.found.complete
  /\ q.pc = "parse" => q.key \in Stamps

\* The slot of parse_dwarf_from_path was filled from the binary.
SlotsOK == \A p \in Procs : memo[p]["binary"] # None => memo[p]["binary"].binary \in Versions

IInv ==
  /\ TypeOK
  /\ SlotsOK
  /\ \A p \in Procs : proc[p] \in Jobs => JobOK(proc[p])
  /\ OnlyCompleteStored

---------------------------------------------------------------------------
\* The step a process is at says what its record is.
LEMMA StateKinds ==
  ASSUME NEW q \in ProcStates
  PROVE  /\ q.pc \in Steps => q \in Jobs
         /\ q.pc = "idle" => q \notin Jobs
         /\ q.pc # "idle" => q \in Jobs
BY DEF ProcStates, Jobs, Idle, Steps

\* A process whose record becomes q.
LEMMA Moved ==
  ASSUME NEW p \in Procs, NEW q, TypeOK, Become(p, q), q \in ProcStates
  PROVE  /\ proc' \in [Procs -> ProcStates] /\ proc'[p] = q
         /\ \A r \in Procs : r = p \/ proc'[r] = proc[r]
BY DEF TypeOK, Become

\* A process that answers or ends has no job left.
LEMMA Answered ==
  ASSUME NEW p \in Procs, TypeOK, Answer(p)
  PROVE  /\ proc' \in [Procs -> ProcStates] /\ proc'[p] \notin Jobs
         /\ \A r \in Procs : r = p \/ proc'[r] = proc[r]
<1>1. Idle \in ProcStates /\ Idle.pc = "idle"
  BY DEF ProcStates, Idle
<1> QED
  BY <1>1, Moved, StateKinds DEF Answer

\* A job that goes on to another step.
LEMMA Continued ==
  ASSUME NEW p \in Procs, TypeOK, NEW q \in Jobs, Become(p, q)
  PROVE  /\ proc' \in [Procs -> ProcStates] /\ proc'[p] = q
         /\ \A r \in Procs : r = p \/ proc'[r] = proc[r]
<1>1. q \in ProcStates
  BY DEF Jobs, ProcStates
<1> QED
  BY <1>1, Moved

\* Goto changes the step and nothing else.
LEMMA Went ==
  ASSUME NEW p \in Procs, TypeOK, proc[p] \in Jobs, NEW pc \in Steps, Goto(p, pc)
  PROVE  /\ proc' \in [Procs -> ProcStates] /\ proc'[p] \in Jobs
         /\ proc'[p].pc = pc /\ proc'[p].kind = proc[p].kind /\ proc'[p].data = proc[p].data
         /\ proc'[p].id = proc[p].id /\ proc'[p].found = proc[p].found
         /\ proc'[p].file = proc[p].file /\ proc'[p].key = proc[p].key
         /\ proc'[p].stopped = proc[p].stopped
         /\ \A r \in Procs : r = p \/ proc'[r] = proc[r]
<1> DEFINE q == [proc[p] EXCEPT !.pc = pc]
<1>1. q \in Jobs /\ q.pc = pc /\ q.kind = proc[p].kind /\ q.data = proc[p].data
      /\ q.id = proc[p].id /\ q.found = proc[p].found /\ q.file = proc[p].file
      /\ q.key = proc[p].key /\ q.stopped = proc[p].stopped
  BY DEF Jobs
<1>2. Become(p, q)
  BY DEF Goto
<1> HIDE DEF q
<1> QED
  BY <1>1, <1>2, Continued

\* The steps that start a job or give it a mark, an identity, a finding or a
\* key.
NewJob(p, kind) ==
  [pc |-> "fingerprint", kind |-> kind, data |-> input["binary"],
   id |-> None, found |-> None, file |-> "binary", key |-> None, stopped |-> FALSE]
IdOf(p) == [binary |-> proc[p].data, debug |-> IF Card(p) THEN input["debug"] ELSE None]

LEMMA ReadIs ==
  ASSUME NEW p \in Procs, TypeOK, NEW kind \in {"card", "slice"}, Read(p, kind)
  PROVE  /\ proc' \in [Procs -> ProcStates] /\ proc'[p] = NewJob(p, kind)
         /\ NewJob(p, kind) \in Jobs
         /\ \A r \in Procs : r = p \/ proc'[r] = proc[r]
<1>1. NewJob(p, kind) \in Jobs
  BY DEF TypeOK, Files, NewJob, Jobs, Steps
<1>2. Become(p, NewJob(p, kind))
  BY DEF Read, NewJob
<1> QED
  BY <1>1, <1>2, Continued

LEMMA StopIs ==
  ASSUME NEW p \in Procs, TypeOK, Stop(p)
  PROVE  /\ proc' \in [Procs -> ProcStates] /\ proc[p] \in Jobs /\ proc'[p] \in Jobs
         /\ proc'[p].pc = proc[p].pc /\ proc'[p].kind = proc[p].kind
         /\ proc'[p].data = proc[p].data /\ proc'[p].id = proc[p].id
         /\ proc'[p].found = proc[p].found
         /\ proc'[p].file = proc[p].file /\ proc'[p].key = proc[p].key
         /\ proc'[p].stopped
         /\ \A r \in Procs : r = p \/ proc'[r] = proc[r]
<1> DEFINE q == [proc[p] EXCEPT !.stopped = TRUE]
<1>1. proc[p] \in Jobs
  BY StateKinds DEF Stop, At, TypeOK
<1>2. q \in Jobs /\ q.pc = proc[p].pc /\ q.kind = proc[p].kind /\ q.data = proc[p].data
      /\ q.id = proc[p].id /\ q.found = proc[p].found /\ q.file = proc[p].file
      /\ q.key = proc[p].key /\ q.stopped
  BY <1>1 DEF Jobs
<1>3. Become(p, q)
  BY DEF Stop
<1> HIDE DEF q
<1> QED
  BY <1>1, <1>2, <1>3, Continued

LEMMA NamedIs ==
  ASSUME NEW p \in Procs, TypeOK, proc[p] \in Jobs,
         Become(p, [proc[p] EXCEPT !.pc = "load", !.id = IdOf(p)])
  PROVE  /\ proc' \in [Procs -> ProcStates] /\ proc'[p] \in Jobs
         /\ IdOf(p) \in Identities
         /\ proc'[p].pc = "load" /\ proc'[p].kind = proc[p].kind
         /\ proc'[p].data = proc[p].data /\ proc'[p].id = IdOf(p)
         /\ \A r \in Procs : r = p \/ proc'[r] = proc[r]
<1> DEFINE q == [proc[p] EXCEPT !.pc = "load", !.id = IdOf(p)]
<1>1. IdOf(p) \in Identities
  BY DEF IdOf, Identities, TypeOK, Files, Jobs
<1>2. q \in Jobs /\ q.pc = "load" /\ q.kind = proc[p].kind /\ q.data = proc[p].data
      /\ q.id = IdOf(p)
  BY <1>1 DEF Jobs, Steps
<1> HIDE DEF q
<1> QED
  BY <1>1, <1>2, Continued DEF q

LEMMA AnalyzedIs ==
  ASSUME NEW p \in Procs, TypeOK, proc[p] \in Jobs, NEW ok \in BOOLEAN, Analyze(p, ok)
  PROVE  LET f == Own(p, ok /\ ~proc[p].stopped) IN
         /\ f \in Analyses /\ f.from.binary = proc[p].data /\ f.from.debug = None
         /\ f.reread = proc[p].data /\ f.complete = (ok /\ ~proc[p].stopped)
         /\ proc' \in [Procs -> ProcStates] /\ proc'[p] \in Jobs
         /\ proc'[p].pc = IF Card(p) /\ ~proc[p].stopped THEN "key" ELSE "check"
         /\ proc'[p].kind = proc[p].kind /\ proc'[p].data = proc[p].data
         /\ proc'[p].id = proc[p].id /\ proc'[p].found = f
         /\ proc'[p].file = proc[p].file /\ proc'[p].stopped = proc[p].stopped
         /\ \A r \in Procs : r = p \/ proc'[r] = proc[r]
<1> DEFINE f == Own(p, ok /\ ~proc[p].stopped)
           pc == IF Card(p) /\ ~proc[p].stopped THEN "key" ELSE "check"
           q == [proc[p] EXCEPT !.pc = pc, !.found = f]
<1>1. proc[p].data \in Versions /\ proc[p].stopped \in BOOLEAN
  BY DEF Jobs
<1>2. /\ f \in Analyses /\ f.from.binary = proc[p].data /\ f.from.debug = None
      /\ f.reread = proc[p].data /\ f.complete = (ok /\ ~proc[p].stopped)
  BY <1>1 DEF Own, Analyses, Identities
<1>3. pc \in Steps
  BY DEF Steps
<1>4. Become(p, q)
  BY DEF Analyze
<1> HIDE DEF f, pc
<1>5. q \in Jobs /\ q.pc = pc /\ q.kind = proc[p].kind /\ q.data = proc[p].data
      /\ q.id = proc[p].id /\ q.found = f /\ q.file = proc[p].file
      /\ q.stopped = proc[p].stopped
  BY <1>2, <1>3 DEF Jobs
<1> HIDE DEF q
<1>6. /\ proc' \in [Procs -> ProcStates] /\ proc'[p] = q
      /\ \A r \in Procs : r = p \/ proc'[r] = proc[r]
  BY <1>4, <1>5, Continued
<1> QED
  BY <1>2, <1>5, <1>6 DEF f, pc

LEMMA KeyedIs ==
  ASSUME NEW p \in Procs, TypeOK, proc[p] \in Jobs,
         Become(p, [proc[p] EXCEPT !.pc = "parse", !.key = Stamp(input[proc[p].file])])
  PROVE  /\ proc' \in [Procs -> ProcStates] /\ proc'[p] \in Jobs
         /\ proc'[p].pc = "parse" /\ proc'[p].kind = proc[p].kind
         /\ proc'[p].data = proc[p].data /\ proc'[p].id = proc[p].id
         /\ proc'[p].found = proc[p].found /\ proc'[p].file = proc[p].file
         /\ proc'[p].key = Stamp(input[proc[p].file]) /\ proc'[p].key \in Stamps
         /\ proc'[p].stopped = proc[p].stopped
         /\ \A r \in Procs : r = p \/ proc'[r] = proc[r]
<1> DEFINE k == Stamp(input[proc[p].file])
           q == [proc[p] EXCEPT !.pc = "parse", !.key = k]
<1>1. k \in Stamps
  <2>1. input[proc[p].file] \in Versions
    BY DEF TypeOK, Jobs
  <2> QED
    BY <2>1 DEF Stamps
<1> HIDE DEF k
<1>2. q \in Jobs /\ q.pc = "parse" /\ q.kind = proc[p].kind /\ q.data = proc[p].data
      /\ q.id = proc[p].id /\ q.found = proc[p].found /\ q.file = proc[p].file
      /\ q.key = k /\ q.stopped = proc[p].stopped
  BY <1>1 DEF Jobs, Steps
<1> HIDE DEF q
<1> QED
  BY <1>1, <1>2, Continued DEF q, k

\* What a parse, or the slot it finds, adds to the finding.
Finding(p) ==
  [from |-> [binary |-> proc[p].data, debug |-> Got(p).debug],
   reread |-> IF Dwarf(p) THEN Got(p).binary ELSE proc[p].found.reread,
   parsed |-> proc[p].found.parsed /\ ~Cached(p), complete |-> proc[p].found.complete]

LEMMA ParsedIs ==
  ASSUME NEW p \in Procs, IInv, Parse(p)
  PROVE  /\ proc[p] \in Jobs /\ proc[p].pc = "parse" /\ JobOK(proc[p])
         /\ Got(p) \in Slots /\ (Dwarf(p) => Got(p).binary \in Versions)
         /\ Finding(p) \in Analyses
         /\ proc' \in [Procs -> ProcStates] /\ proc'[p] \in Jobs
         /\ proc'[p].pc = IF More(p) THEN "key" ELSE "check"
         /\ proc'[p].kind = proc[p].kind /\ proc'[p].data = proc[p].data
         /\ proc'[p].id = proc[p].id /\ proc'[p].found = Finding(p)
         /\ proc'[p].file = IF More(p) THEN "debug" ELSE "binary"
         /\ proc'[p].stopped = proc[p].stopped
         /\ \A r \in Procs : r = p \/ proc'[r] = proc[r]
<1> DEFINE pc == IF More(p) THEN "key" ELSE "check"
           file == IF More(p) THEN "debug" ELSE "binary"
           f == Finding(p)
           q == [proc[p] EXCEPT !.pc = pc, !.file = file, !.key = None, !.found = f]
<1>0. TypeOK /\ proc[p].pc = "parse" /\ proc[p] \in ProcStates
  BY DEF IInv, TypeOK, Parse, At
<1>1. proc[p] \in Jobs /\ JobOK(proc[p])
  BY <1>0, StateKinds DEF IInv
<1>2. /\ proc[p].data \in Versions /\ proc[p].file \in Files /\ proc[p].key \in Stamps
      /\ proc[p].found \in Analyses
  BY <1>0, <1>1 DEF Jobs, JobOK, Done, Reading
<1>3. Slot(p) \in Slots \cup {None} /\ input["binary"] \in Versions /\ input["debug"] \in Versions
  BY <1>0, <1>2 DEF TypeOK, Slot, Files
<1>4. Got(p) \in Slots
  <2>1. Current(p) \in Slots
    BY <1>2, <1>3 DEF Current, Slots
  <2> QED
    BY <1>3, <2>1 DEF Got, Cached
<1>5. Dwarf(p) => Got(p).binary \in Versions
  <2>1. Dwarf(p) /\ Slot(p) # None => Slot(p).binary \in Versions
    BY DEF Dwarf, Slot, IInv, SlotsOK
  <2>2. Dwarf(p) => Current(p).binary \in Versions
    BY <1>3 DEF Current
  <2> QED
    BY <2>1, <2>2 DEF Got, Cached
<1>6. Finding(p) \in Analyses
  <2>1. Got(p).debug \in Versions \cup {None}
    BY <1>4 DEF Slots
  <2>2. proc[p].found.reread \in Versions /\ proc[p].found.parsed \in BOOLEAN
        /\ proc[p].found.complete \in BOOLEAN
    BY <1>2 DEF Analyses
  <2> QED
    BY <1>2, <1>5, <2>1, <2>2 DEF Finding, Analyses, Identities
<1>7. Become(p, q)
  BY DEF Parse, Finding
<1>8. pc \in Steps /\ file \in Files
  BY DEF Steps, Files
<1> HIDE DEF pc, file, f
<1>9. q \in Jobs /\ q.pc = pc /\ q.kind = proc[p].kind /\ q.data = proc[p].data
      /\ q.id = proc[p].id /\ q.found = f /\ q.file = file
      /\ q.stopped = proc[p].stopped
  BY <1>1, <1>6, <1>8 DEF Jobs, f
<1> HIDE DEF q
<1>10. /\ proc' \in [Procs -> ProcStates] /\ proc'[p] = q
       /\ \A r \in Procs : r = p \/ proc'[r] = proc[r]
  BY <1>0, <1>7, <1>9, Continued
<1> QED
  BY <1>0, <1>1, <1>4, <1>5, <1>6, <1>9, <1>10 DEF pc, file, f

---------------------------------------------------------------------------
\* The work of one process: every step is one of these.
Works(p) ==
  \/ \E kind \in {"card", "slice"} : Read(p, kind)
  \/ Stop(p) \/ Fingerprint(p) \/ Load(p)
  \/ \E ok \in BOOLEAN : Analyze(p, ok)
  \/ Key(p) \/ Parse(p)
  \/ Check(p) \/ RecheckDebug(p) \/ RecheckBinary(p)
  \/ \E written \in BOOLEAN : Publish(p, written)
  \/ Exit(p)

\* A process changes only its own record; and where that is still a job, it is
\* what the step made of the old one.
LEMMA Working ==
  ASSUME IInv, NEW p \in Procs, Works(p)
  PROVE  /\ proc' \in [Procs -> ProcStates]
         /\ \A r \in Procs : r = p \/ proc'[r] = proc[r]
         /\ proc'[p] \in Jobs => JobOK(proc'[p])
<1> USE DEF Keyed, Done, Storing, Reading
<1>0. TypeOK /\ (proc[p] \in Jobs => JobOK(proc[p])) /\ proc[p] \in ProcStates
  BY DEF IInv, TypeOK
<1>1. CASE \E kind \in {"card", "slice"} : Read(p, kind)
  <2>1. PICK kind \in {"card", "slice"} : Read(p, kind)
    BY <1>1
  <2>2. JobOK(NewJob(p, kind))
    BY DEF NewJob, JobOK
  <2> QED
    BY <1>0, <2>1, <2>2, ReadIs
<1>2. CASE Stop(p)
  BY <1>0, <1>2, StopIs DEF JobOK
<1>3. ASSUME NEW pc \in Steps, At(p, pc) PROVE proc[p] \in Jobs /\ proc[p].pc = pc /\ JobOK(proc[p])
  BY <1>0, <1>3, StateKinds DEF At
<1>4. CASE Fingerprint(p)
  <2>1. proc[p] \in Jobs /\ proc[p].pc = "fingerprint"
    BY <1>3, <1>4 DEF Fingerprint, Steps
  <2>2. CASE Goto(p, "analyze")
    BY <1>0, <2>1, <2>2, Went DEF Steps, JobOK
  <2>3. CASE Answer(p)
    BY <1>0, <2>3, Answered
  <2>4. CASE Become(p, [proc[p] EXCEPT !.pc = "load", !.id = IdOf(p)])
    BY <1>0, <2>1, <2>4, NamedIs DEF JobOK
  <2> QED
    BY <1>4, <2>2, <2>3, <2>4 DEF Fingerprint, IdOf
<1>5. CASE Load(p)
  <2>1. proc[p] \in Jobs
    BY <1>3, <1>5 DEF Load, Steps
  <2>2. Answer(p) \/ Goto(p, "analyze")
    BY <1>5 DEF Load
  <2> QED
    BY <1>0, <2>1, <2>2, Went, Answered DEF Steps, JobOK
<1>6. CASE \E ok \in BOOLEAN : Analyze(p, ok)
  <2>1. PICK ok \in BOOLEAN : Analyze(p, ok)
    BY <1>6
  <2>2. proc[p] \in Jobs
    BY <1>3, <2>1 DEF Analyze, Steps
  <2> HIDE <1>6
  <2> QED
    BY <1>0, <2>1, <2>2, AnalyzedIs DEF JobOK
<1>7. CASE Key(p)
  <2>1. proc[p] \in Jobs /\ JobOK(proc[p]) /\ proc[p].pc = "key"
    BY <1>3, <1>7 DEF Key, Steps
  <2>2. CASE Goto(p, "check")
    BY <1>0, <2>1, <2>2, Went DEF Steps, JobOK
  <2>3. CASE Become(p, [proc[p] EXCEPT !.pc = "parse", !.key = Stamp(input[proc[p].file])])
    BY <1>0, <2>1, <2>3, KeyedIs DEF JobOK
  <2> QED
    BY <1>7, <2>2, <2>3 DEF Key
<1>8. CASE Parse(p)
  BY <1>8, ParsedIs DEF JobOK
<1>9. CASE Check(p)
  <2>1. proc[p] \in Jobs /\ JobOK(proc[p]) /\ proc[p].pc = "check"
    BY <1>3, <1>9 DEF Check, Steps
  <2>2. CASE proc[p].id # None /\ proc[p].found.complete /\ ~proc[p].stopped
    <3>1. proc[p].id \in Identities
      BY <2>1, <2>2 DEF Jobs
    <3>2. PICK pc \in {"recheckDebug", "publish"} : Goto(p, pc)
      BY <1>9, <2>2 DEF Check
    <3> QED
      BY <1>0, <2>1, <2>2, <3>1, <3>2, Went DEF Steps, JobOK
  <2>3. CASE Answer(p)
    BY <1>0, <2>3, Answered
  <2> QED
    BY <1>9, <2>2, <2>3 DEF Check
<1>10. CASE RecheckDebug(p) \/ RecheckBinary(p)
  <2>1. /\ proc[p] \in Jobs /\ JobOK(proc[p]) /\ proc[p].pc \in {"recheckDebug", "recheckBinary"}
    BY <1>3, <1>10 DEF RecheckDebug, RecheckBinary, Steps
  <2>2. CASE Answer(p)
    BY <1>0, <2>2, Answered
  <2>3. CASE \E pc \in {"recheckBinary", "publish"} : Goto(p, pc)
    BY <1>0, <2>1, <2>3, Went DEF Steps, JobOK
  <2> QED
    BY <1>10, <2>2, <2>3 DEF RecheckDebug, RecheckBinary
<1>11. CASE (\E written \in BOOLEAN : Publish(p, written)) \/ Exit(p)
  BY <1>0, <1>11, Answered DEF Publish, Exit, Answer
<1> QED
  BY <1>1, <1>2, <1>4, <1>5, <1>6, <1>7, <1>8, <1>9, <1>10, <1>11 DEF Works

\* What a step of p leaves alone, and what it does to the cache and to the
\* parsed debug info.
LEMMA Keeping ==
  ASSUME IInv, NEW p \in Procs, Works(p)
  PROVE  /\ input' = input /\ debugKind' = debugKind /\ changes' = changes
         /\ reads' \in 0..MaxReads
         /\ cache' \in [Identities -> Analyses \cup {None}]
         /\ \/ cache' = cache
            \/ /\ proc[p].pc = "publish" /\ proc[p] \in Jobs
               /\ proc[p].id \in Identities /\ proc[p].found \in Analyses
               /\ proc[p].found.complete
               /\ cache' = [cache EXCEPT ![proc[p].id] = proc[p].found]
         /\ memo' \in [Procs -> [Files -> Slots \cup {None}]]
         /\ \A r \in Procs : r = p \/ memo'[r] = memo[r]
         /\ \/ memo' = memo
            \/ memo'[p] = NoSlots
            \/ /\ Parse(p) /\ proc[p].file \in Files /\ Got(p) \in Slots
               /\ memo'[p] = [memo[p] EXCEPT ![proc[p].file] = Got(p)]
<1>0. /\ TypeOK /\ (proc[p] \in Jobs => JobOK(proc[p])) /\ proc[p] \in ProcStates
      /\ cache \in [Identities -> Analyses \cup {None}]
      /\ memo \in [Procs -> [Files -> Slots \cup {None}]]
      /\ reads \in 0..MaxReads
  BY DEF IInv, TypeOK
<1>1. CASE Parse(p)
  <2>1. proc[p].file \in Files /\ Got(p) \in Slots
    BY <1>1, ParsedIs DEF Jobs
  <2>2. memo' = [memo EXCEPT ![p][proc[p].file] = Got(p)]
    BY <1>1 DEF Parse
  <2> HIDE DEF Slots
  <2> QED
    BY <1>0, <1>1, <2>1, <2>2 DEF Parse
<1>2. ASSUME NEW written \in BOOLEAN, Publish(p, written)
      PROVE  /\ cache' \in [Identities -> Analyses \cup {None}] /\ memo' = memo
             /\ UNCHANGED <<input, debugKind, changes, reads>>
             /\ \/ cache' = cache
                \/ /\ proc[p].pc = "publish" /\ proc[p] \in Jobs
                   /\ proc[p].id \in Identities /\ proc[p].found \in Analyses
                   /\ proc[p].found.complete
                   /\ cache' = [cache EXCEPT ![proc[p].id] = proc[p].found]
  <2>1. proc[p] \in Jobs /\ proc[p].pc = "publish"
    BY <1>0, <1>2, StateKinds DEF Publish, At, Steps
  <2>2. proc[p].id \in Identities /\ proc[p].found \in Analyses /\ proc[p].found.complete
    BY <1>0, <2>1 DEF JobOK, Keyed, Done, Storing
  <2>3. cache' = cache \/ cache' = [cache EXCEPT ![proc[p].id] = proc[p].found]
    BY <1>2 DEF Publish
  <2> QED
    BY <1>0, <1>2, <2>1, <2>2, <2>3 DEF Publish
<1>3. CASE Exit(p)
  <2>1. NoSlots \in [Files -> Slots \cup {None}]
    BY DEF NoSlots
  <2> HIDE DEF NoSlots
  <2> QED
    BY <1>0, <1>3, <2>1 DEF Exit
<1>4. CASE UNCHANGED <<input, debugKind, changes, reads, cache, memo>>
  BY <1>0, <1>4
<1>5. ASSUME NEW kind \in {"card", "slice"}, Read(p, kind)
      PROVE  /\ reads' \in 0..MaxReads
             /\ UNCHANGED <<input, debugKind, changes, cache, memo>>
  BY <1>0, <1>5, CacheAssumption DEF Read
<1>6. CASE Stop(p) \/ Fingerprint(p) \/ Load(p) \/ Key(p)
  BY <1>4, <1>6 DEF Stop, Fingerprint, Load, Key
<1>7. CASE Check(p) \/ RecheckDebug(p) \/ RecheckBinary(p)
  BY <1>4, <1>7 DEF Check, RecheckDebug, RecheckBinary
<1>8. CASE \E ok \in BOOLEAN : Analyze(p, ok)
  BY <1>4, <1>8 DEF Analyze
<1>9. CASE \E written \in BOOLEAN : Publish(p, written)
  BY <1>0, <1>2, <1>9
<1>10. CASE \E kind \in {"card", "slice"} : Read(p, kind)
  BY <1>0, <1>5, <1>10
<1> QED
  BY <1>1, <1>3, <1>6, <1>7, <1>8, <1>9, <1>10 DEF Works

\* What every process knows holds initially and every step keeps it.
THEOREM Invariance == Spec => []IInv
<1>1. Init => IInv
  <2> SUFFICES ASSUME Init PROVE IInv
    OBVIOUS
  <2>1. Idle \in ProcStates /\ Idle \notin Jobs
    BY DEF ProcStates, Idle, Jobs, Steps
  <2>2. /\ changes \in 0..MaxChanges /\ reads \in 0..MaxReads
        /\ input \in [Files -> Versions] /\ debugKind \in {"pdb", "dsym"}
        /\ cache \in [Identities -> Analyses \cup {None}]
        /\ memo \in [Procs -> [Files -> Slots \cup {None}]]
        /\ proc \in [Procs -> ProcStates]
        /\ \A p \in Procs : proc[p] = Idle
        /\ \A p \in Procs : memo[p]["binary"] = None
        /\ \A id \in Identities : cache[id] = None
    BY <2>1, CacheAssumption DEF Init, NoSlots, Files
  <2> QED
    BY <2>1, <2>2 DEF IInv, TypeOK, SlotsOK, OnlyCompleteStored
<1>2. IInv /\ [Next]_vars => IInv'
  <2> SUFFICES ASSUME IInv, [Next]_vars PROVE IInv'
    OBVIOUS
  <2>1. ASSUME NEW f \in Files, NEW v \in Versions, Rewrite(f, v) PROVE IInv'
    <3>1. input' \in [Files -> Versions] /\ changes' \in 0..MaxChanges
      BY <2>1, CacheAssumption DEF Rewrite, IInv, TypeOK
    <3> QED
      BY <2>1, <3>1 DEF Rewrite, IInv, TypeOK, SlotsOK, OnlyCompleteStored
  <2>2. ASSUME NEW p \in Procs, Works(p) PROVE IInv'
    <3>1. TypeOK'
      BY <2>2, Working, Keeping DEF IInv, TypeOK
    <3>2. \A r \in Procs : proc'[r] \in Jobs => JobOK(proc'[r])
      BY <2>2, Working DEF IInv
    <3>3. OnlyCompleteStored'
      <4>1. CASE cache' = cache
        BY <4>1 DEF IInv, OnlyCompleteStored
      <4>2. CASE /\ proc[p].found \in Analyses /\ proc[p].found.complete
                 /\ proc[p].id \in Identities
                 /\ cache' = [cache EXCEPT ![proc[p].id] = proc[p].found]
        BY <4>2 DEF IInv, TypeOK, OnlyCompleteStored
      <4> QED
        BY <2>2, <4>1, <4>2, Keeping
    <3>4. SlotsOK'
      <4> SUFFICES ASSUME memo'[p]["binary"] # None PROVE memo'[p]["binary"].binary \in Versions
        BY <2>2, Keeping DEF IInv, SlotsOK
      <4>1. CASE memo' = memo
        BY <4>1 DEF IInv, SlotsOK
      <4>2. CASE memo'[p] = NoSlots
        BY <4>2 DEF NoSlots, Files
      <4>3. CASE /\ Parse(p) /\ proc[p].file \in Files
                 /\ memo'[p] = [memo[p] EXCEPT ![proc[p].file] = Got(p)]
        <5>1. memo[p] \in [Files -> Slots \cup {None}]
          BY DEF IInv, TypeOK
        <5>2. CASE proc[p].file = "binary"
          <6>1. Got(p).binary \in Versions
            BY <4>3, <5>2, ParsedIs DEF Dwarf
          <6> QED
            BY <4>3, <5>1, <5>2, <6>1 DEF Files
        <5>3. CASE proc[p].file # "binary"
          <6>1. memo'[p]["binary"] = memo[p]["binary"]
            BY <4>3, <5>1, <5>3 DEF Files
          <6> QED
            BY <6>1 DEF IInv, SlotsOK
        <5> QED
          BY <5>2, <5>3
      <4> QED
        BY <2>2, <4>1, <4>2, <4>3, Keeping
    <3> QED
      BY <3>1, <3>2, <3>3, <3>4 DEF IInv
  <2>3. CASE UNCHANGED vars
    BY <2>3 DEF vars, IInv, TypeOK, SlotsOK, OnlyCompleteStored
  <2> QED
    BY <2>1, <2>2, <2>3 DEF Next, Works
<1> QED
  BY <1>1, <1>2, PTL DEF Spec

\* "Completed immutable generation": what a budget stopped or a panic cut
\* short is never stored.
THEOREM StoredComplete == Spec => []OnlyCompleteStored
<1>1. IInv => OnlyCompleteStored
  BY DEF IInv
<1> QED
  BY <1>1, Invariance, PTL

---------------------------------------------------------------------------
\* A rebuilt file gets bytes that it never had (contents are numbered in the
\* order they appear), and its length and modification time, although they
\* may stay, do not come back once they were others.
FreshBytes ==
  /\ Versions \subseteq Nat
  /\ \A v \in Versions : Stamp(v) \in Nat /\ (\A u \in Changes(v) : u > v)
  /\ \A v, u \in Versions : v <= u => Stamp(v) <= Stamp(u)

\* What is parsed was on disk, and its key was taken no later.
SlotMatches(m, in, kind) ==
  /\ m["binary"] # None =>
       /\ m["binary"].binary <= in["binary"] /\ m["binary"].key <= Stamp(m["binary"].binary)
       /\ kind = "dsym" => m["binary"].debug \in Versions /\ m["binary"].debug <= in["debug"]
  /\ m["debug"] # None =>
       /\ m["debug"].debug \in Versions /\ m["debug"].debug <= in["debug"]
       /\ m["debug"].key <= Stamp(m["debug"].debug)

\* How far a job has read its inputs: all of them once it may go on to store.
Ready(q) == q.pc \in Storing \/ (q.pc = "check" /\ ~q.stopped)
Reread(q) == Ready(q) \/ (q.pc \in Reading /\ q.file = "debug")

NameMatches(q, in) ==
  /\ q.data <= in["binary"]
  /\ q.id # None => /\ q.id.binary = q.data
                    /\ IF q.kind = "card" THEN q.id.debug \in Versions /\ q.id.debug <= in["debug"]
                                          ELSE q.id.debug = None
PlaceMatches(q, kind) ==
  /\ q.file = "debug" => kind = "pdb"
  /\ q.pc \in {"fingerprint", "load", "analyze"} => q.file = "binary"
  /\ q.pc \in Reading => q.kind = "card"
KeyMatches(q, in) ==
  q.pc = "parse" =>
    /\ q.key <= Stamp(in[q.file])
    /\ q.file = "binary" => Stamp(q.data) <= q.key
    /\ q.file = "debug" /\ q.id # None => Stamp(q.id.debug) <= q.key
OwnMatches(q) ==
  q.pc \in Done =>
    /\ q.found.from.binary = q.data
    /\ q.kind = "slice" => q.found.from.debug = None /\ q.found.reread = q.data
RereadMatches(q, in) ==
  Reread(q) /\ q.kind = "card" =>
    /\ q.found.reread <= in["binary"] /\ Stamp(q.data) <= Stamp(q.found.reread)
    /\ q.found.parsed => q.data <= q.found.reread
DebugMatches(q, in, kind) ==
  Ready(q) /\ q.kind = "card" =>
    /\ q.found.from.debug \in Versions /\ q.found.from.debug <= in["debug"]
    /\ q.id # None /\ kind = "pdb" => Stamp(q.id.debug) <= Stamp(q.found.from.debug)
    /\ q.id # None /\ q.found.parsed => q.id.debug <= q.found.from.debug
DebugChecked(q, kind) ==
  q.pc \in {"recheckBinary", "publish"} /\ q.kind = "card" =>
    /\ kind = "pdb" => Stamp(q.found.from.debug) = Stamp(q.id.debug)
    /\ q.found.parsed => q.found.from.debug = q.id.debug
BinaryChecked(q) ==
  q.pc = "publish" /\ q.kind = "card" =>
    /\ Stamp(q.found.reread) = Stamp(q.data)
    /\ q.found.parsed => q.found.reread = q.data

MatchOK(q, in, kind) ==
  /\ NameMatches(q, in) /\ PlaceMatches(q, kind) /\ KeyMatches(q, in) /\ OwnMatches(q)
  /\ RereadMatches(q, in) /\ DebugMatches(q, in, kind)
  /\ DebugChecked(q, kind) /\ BinaryChecked(q)

MInv ==
  /\ EntryMatchesIdentity
  /\ \A p \in Procs : SlotMatches(memo[p], input, debugKind)
  /\ \A p \in Procs : proc[p] \in Jobs => MatchOK(proc[p], input, debugKind)

\* Later contents have later lengths and times.
LEMMA Later ==
  ASSUME FreshBytes, NEW u \in Versions, NEW v \in Versions, NEW w \in Versions
  PROVE  /\ u \in Nat /\ Stamp(u) \in Nat
         /\ u <= v => Stamp(u) <= Stamp(v)
         /\ u <= v /\ v <= w => u <= w
         /\ u <= v /\ v <= u => u = v
BY DEF FreshBytes

\* What a job has read of the files stays so when they are rewritten.
LEMMA Grown ==
  ASSUME NEW q \in Jobs, NEW in \in [Files -> Versions], NEW new \in [Files -> Versions],
         NEW kind, JobOK(q), FreshBytes, MatchOK(q, in, kind),
         \A f \in Files : in[f] <= new[f]
  PROVE  MatchOK(q, new, kind)
<1>1. /\ in["binary"] \in Versions /\ in["debug"] \in Versions
      /\ new["binary"] \in Versions /\ new["debug"] \in Versions
      /\ in["binary"] <= new["binary"] /\ in["debug"] <= new["debug"]
      /\ q.file \in Files /\ q.data \in Versions
  BY DEF Files, Jobs
<1>2. /\ \A v \in Versions : v <= in["debug"] => v <= new["debug"]
      /\ \A v \in Versions : v <= in["binary"] => v <= new["binary"]
  BY <1>1, Later
<1>3. q.pc \in Done => q.found.reread \in Versions
  BY DEF JobOK, Analyses
<1>4. NameMatches(q, new)
  BY <1>1, <1>2 DEF MatchOK, NameMatches
<1>5. KeyMatches(q, new)
  <2> SUFFICES ASSUME q.pc = "parse" PROVE KeyMatches(q, new)
    BY DEF KeyMatches
  <2>1. q.key \in Stamps /\ q.key <= Stamp(in[q.file])
    BY DEF JobOK, MatchOK, KeyMatches
  <2>2. q.key \in Nat
    BY <2>1 DEF Stamps, FreshBytes
  <2>3. Stamp(in[q.file]) \in Nat /\ Stamp(new[q.file]) \in Nat
        /\ Stamp(in[q.file]) <= Stamp(new[q.file])
    BY <1>1, Later
  <2>4. q.key <= Stamp(new[q.file])
    BY <2>1, <2>2, <2>3
  <2> QED
    BY <2>4 DEF MatchOK, KeyMatches
<1>6. RereadMatches(q, new)
  <2>1. Reread(q) => q.found.reread \in Versions
    BY <1>3 DEF Reread, Ready, Done
  <2> QED
    BY <1>2, <2>1 DEF MatchOK, RereadMatches
<1>7. DebugMatches(q, new, kind)
  BY <1>2 DEF MatchOK, DebugMatches
<1> QED
  BY <1>4, <1>5, <1>6, <1>7 DEF MatchOK

\* What Cache::get returns, to a job whose key and slots match, was on disk.
LEMMA GotMatches ==
  ASSUME IInv, MInv, FreshBytes, NEW p \in Procs, Parse(p)
  PROVE  /\ proc[p].key \in Nat
         /\ Dwarf(p) => /\ Got(p).binary \in Versions /\ Got(p).binary <= input["binary"]
                        /\ proc[p].key <= Stamp(Got(p).binary)
                        /\ ~Cached(p) => Got(p).binary = input["binary"]
         /\ ~More(p) => /\ Got(p).debug \in Versions /\ Got(p).debug <= input["debug"]
                        /\ ~Cached(p) => Got(p).debug = input["debug"]
         /\ ~Dwarf(p) => proc[p].key <= Stamp(Got(p).debug)
         /\ Got(p).key = proc[p].key
<1>1. /\ proc[p] \in Jobs /\ proc[p].pc = "parse" /\ proc[p].file \in Files
      /\ proc[p].key \in Stamps /\ MatchOK(proc[p], input, debugKind)
      /\ Dwarf(p) => Got(p).binary \in Versions
  BY ParsedIs DEF MInv, Jobs, JobOK
<1>2. /\ input["binary"] \in Versions /\ input["debug"] \in Versions
      /\ SlotMatches(memo[p], input, debugKind) /\ debugKind \in {"pdb", "dsym"}
  BY DEF IInv, TypeOK, MInv, Files
<1>3. proc[p].key <= Stamp(input[proc[p].file])
  BY <1>1 DEF MatchOK, KeyMatches
<1>4. input["binary"] <= input["binary"] /\ input["debug"] <= input["debug"]
  <2>1. input["binary"] \in Nat /\ input["debug"] \in Nat
    BY <1>2, Later
  <2> QED
    BY <2>1
<1>5. proc[p].key \in Nat
  BY <1>1 DEF Stamps, FreshBytes
<1>6. CASE Cached(p)
  <2>1. Got(p) = Slot(p) /\ Slot(p) # None /\ Slot(p).key = proc[p].key
    BY <1>6 DEF Got, Cached
  <2>2. CASE Dwarf(p)
    <3>1. Slot(p) = memo[p]["binary"]
      BY <2>2 DEF Dwarf, Slot
    <3> QED
      BY <1>1, <1>2, <1>5, <1>6, <2>1, <2>2, <3>1 DEF SlotMatches, More
  <2>3. CASE ~Dwarf(p)
    <3>1. Slot(p) = memo[p]["debug"]
      BY <1>1, <2>3 DEF Dwarf, Slot, Files
    <3> QED
      BY <1>2, <1>5, <1>6, <2>1, <2>3, <3>1 DEF SlotMatches
  <2> QED
    BY <2>2, <2>3
<1>7. CASE ~Cached(p)
  <2>1. Got(p) = Current(p)
    BY <1>7 DEF Got
  <2>2. CASE Dwarf(p)
    BY <1>2, <1>3, <1>4, <1>5, <2>1, <2>2 DEF Dwarf, Current
  <2>3. CASE ~Dwarf(p)
    <3>1. proc[p].file = "debug" /\ ~More(p)
      BY <1>1, <2>3 DEF Dwarf, Files, More
    <3> QED
      BY <1>2, <1>3, <1>4, <1>5, <2>1, <2>3, <3>1 DEF Current
  <2> QED
    BY <2>2, <2>3
<1> QED
  BY <1>6, <1>7

\* A job that only goes to another step, and has read no more for it.
LEMMA WentMatches ==
  ASSUME IInv, MInv, NEW p \in Procs, proc[p] \in Jobs, NEW pc \in Steps, Goto(p, pc),
         \/ pc = "analyze" /\ proc[p].pc \in {"fingerprint", "load"}
         \/ pc = "check" /\ proc[p].pc = "key" /\ proc[p].stopped
         \/ pc = "recheckDebug" /\ proc[p].pc = "check" /\ ~proc[p].stopped
         \/ pc = "publish" /\ proc[p].pc = "check" /\ ~proc[p].stopped /\ ~Card(p)
  PROVE  MatchOK(proc'[p], input, debugKind)
<1>1. /\ proc'[p] \in Jobs
      /\ proc'[p].pc = pc /\ proc'[p].kind = proc[p].kind /\ proc'[p].data = proc[p].data
      /\ proc'[p].id = proc[p].id /\ proc'[p].found = proc[p].found
      /\ proc'[p].file = proc[p].file /\ proc'[p].stopped = proc[p].stopped
  BY Went DEF IInv
<1>2. MatchOK(proc[p], input, debugKind)
  BY DEF MInv
<1>3. /\ NameMatches(proc'[p], input) /\ PlaceMatches(proc'[p], debugKind)
      /\ KeyMatches(proc'[p], input) /\ OwnMatches(proc'[p])
  BY <1>1, <1>2 DEF MatchOK, NameMatches, PlaceMatches, KeyMatches, OwnMatches, Done, Reading,
                    Storing
<1>4. RereadMatches(proc'[p], input) /\ DebugMatches(proc'[p], input, debugKind)
  BY <1>1, <1>2 DEF MatchOK, RereadMatches, DebugMatches, Reread, Ready, Reading, Storing
<1>5. DebugChecked(proc'[p], debugKind) /\ BinaryChecked(proc'[p])
  BY <1>1 DEF DebugChecked, BinaryChecked, Card
<1> QED
  BY <1>3, <1>4, <1>5 DEF MatchOK

\* A key is no older than the fingerprints: it is taken after them.
LEMMA KeyedMatches ==
  ASSUME IInv, MInv, FreshBytes, NEW p \in Procs, proc[p] \in Jobs, proc[p].pc = "key",
         Become(p, [proc[p] EXCEPT !.pc = "parse", !.key = Stamp(input[proc[p].file])])
  PROVE  MatchOK(proc'[p], input, debugKind)
<1>1. /\ proc'[p] \in Jobs
      /\ proc'[p].pc = "parse" /\ proc'[p].kind = proc[p].kind
      /\ proc'[p].data = proc[p].data /\ proc'[p].id = proc[p].id
      /\ proc'[p].found = proc[p].found /\ proc'[p].file = proc[p].file
      /\ proc'[p].key = Stamp(input[proc[p].file])
  BY KeyedIs DEF IInv
<1>2. /\ MatchOK(proc[p], input, debugKind) /\ input \in [Files -> Versions]
      /\ proc[p].file \in Files /\ proc[p].data \in Versions
  BY DEF MInv, IInv, TypeOK, Jobs
<1>3. NameMatches(proc'[p], input) /\ PlaceMatches(proc'[p], debugKind) /\ OwnMatches(proc'[p])
  BY <1>1, <1>2 DEF MatchOK, NameMatches, PlaceMatches, OwnMatches, Done, Reading
<1>4. KeyMatches(proc'[p], input)
  <2>1. input[proc[p].file] \in Versions /\ input["binary"] \in Versions /\ input["debug"] \in Versions
    BY <1>2 DEF Files
  <2>2. Stamp(input[proc[p].file]) <= Stamp(input[proc[p].file])
    <3>1. Stamp(input[proc[p].file]) \in Nat
      BY <2>1, Later
    <3> QED
      BY <3>1
  <2>3. Stamp(proc[p].data) <= Stamp(input["binary"])
    BY <1>2, <2>1, Later DEF MatchOK, NameMatches
  <2>4. proc[p].id # None => Stamp(proc[p].id.debug) <= Stamp(input["debug"])
    BY <1>2, <2>1, Later DEF MatchOK, NameMatches, PlaceMatches, Reading
  <2> QED
    BY <1>1, <2>2, <2>3, <2>4 DEF KeyMatches
<1>5. /\ RereadMatches(proc'[p], input) /\ DebugMatches(proc'[p], input, debugKind)
      /\ DebugChecked(proc'[p], debugKind) /\ BinaryChecked(proc'[p])
  BY <1>1, <1>2 DEF MatchOK, RereadMatches, DebugMatches, DebugChecked, BinaryChecked,
                    Reread, Ready, Reading, Storing
<1> QED
  BY <1>3, <1>4, <1>5 DEF MatchOK

\* What a parse or its slot gives is no older than the fingerprints, as far as
\* the key can tell.
LEMMA ParsedMatches ==
  ASSUME IInv, MInv, FreshBytes, NEW p \in Procs, Parse(p)
  PROVE  MatchOK(proc'[p], input, debugKind)
<1>1. /\ proc[p] \in Jobs /\ proc[p].pc = "parse" /\ JobOK(proc[p])
      /\ Finding(p) \in Analyses /\ proc'[p] \in Jobs
      /\ proc'[p].pc = IF More(p) THEN "key" ELSE "check"
      /\ proc'[p].kind = proc[p].kind /\ proc'[p].data = proc[p].data
      /\ proc'[p].id = proc[p].id /\ proc'[p].found = Finding(p)
      /\ proc'[p].file = IF More(p) THEN "debug" ELSE "binary"
      /\ proc'[p].stopped = proc[p].stopped
  BY ParsedIs
<1>2. /\ MatchOK(proc[p], input, debugKind)
      /\ input["binary"] \in Versions /\ input["debug"] \in Versions
      /\ proc[p].file \in Files /\ proc[p].data \in Versions
      /\ proc[p].found \in Analyses /\ proc[p].kind = "card"
  BY <1>1 DEF MInv, IInv, TypeOK, Jobs, Files, JobOK, Done, Reading, MatchOK, PlaceMatches
<1>3. /\ Finding(p).from.binary = proc[p].data /\ Finding(p).from.debug = Got(p).debug
      /\ Finding(p).reread = IF Dwarf(p) THEN Got(p).binary ELSE proc[p].found.reread
      /\ Finding(p).parsed => proc[p].found.parsed /\ ~Cached(p)
  BY <1>2 DEF Finding, Analyses
<1> HIDE DEF Finding
<1>4. NameMatches(proc'[p], input)
  BY <1>1, <1>2 DEF MatchOK, NameMatches
<1>5. PlaceMatches(proc'[p], debugKind) /\ KeyMatches(proc'[p], input) /\ OwnMatches(proc'[p])
  BY <1>1, <1>2, <1>3 DEF PlaceMatches, KeyMatches, OwnMatches, More
<1>6. RereadMatches(proc'[p], input)
  <2>1. CASE Dwarf(p)
    <3>1. /\ Got(p).binary \in Versions /\ Got(p).binary <= input["binary"]
          /\ proc[p].key \in Nat /\ proc[p].key <= Stamp(Got(p).binary)
          /\ ~Cached(p) => Got(p).binary = input["binary"]
      BY <2>1, GotMatches
    <3>2. Stamp(proc[p].data) <= proc[p].key /\ proc[p].data <= input["binary"]
      BY <1>1, <1>2, <2>1 DEF MatchOK, KeyMatches, NameMatches, Dwarf
    <3>3. Stamp(proc[p].data) <= Stamp(Got(p).binary)
      <4>1. Stamp(proc[p].data) \in Nat /\ Stamp(Got(p).binary) \in Nat
        BY <1>2, <3>1, Later
      <4> QED
        BY <3>1, <3>2, <4>1
    <3> QED
      BY <1>1, <1>3, <2>1, <3>1, <3>2, <3>3 DEF RereadMatches
  <2>2. CASE ~Dwarf(p)
    <3>1. Reread(proc[p])
      BY <1>1, <1>2, <2>2 DEF Dwarf, Files, Reread, Reading
    <3> QED
      BY <1>1, <1>2, <1>3, <2>2, <3>1 DEF MatchOK, RereadMatches
  <2> QED
    BY <2>1, <2>2
<1>7. DebugMatches(proc'[p], input, debugKind)
  <2> SUFFICES ASSUME ~More(p) PROVE DebugMatches(proc'[p], input, debugKind)
    BY <1>1 DEF DebugMatches, Ready, Storing
  <2>1. /\ Got(p).debug \in Versions /\ Got(p).debug <= input["debug"]
        /\ proc[p].key \in Nat
        /\ ~Cached(p) => Got(p).debug = input["debug"]
        /\ ~Dwarf(p) => proc[p].key <= Stamp(Got(p).debug)
    BY GotMatches
  <2>2. debugKind = "pdb" => ~Dwarf(p) /\ proc[p].file = "debug"
    BY <1>2 DEF More, Dwarf, Files
  <2>3. proc[p].id # None => proc[p].id.debug \in Versions /\ proc[p].id.debug <= input["debug"]
    BY <1>2 DEF MatchOK, NameMatches
  <2>4. proc[p].id # None /\ debugKind = "pdb" => Stamp(proc[p].id.debug) <= Stamp(Got(p).debug)
    <3> SUFFICES ASSUME proc[p].id # None, debugKind = "pdb"
                 PROVE  Stamp(proc[p].id.debug) <= Stamp(Got(p).debug)
      OBVIOUS
    <3>1. Stamp(proc[p].id.debug) <= proc[p].key
      BY <1>1, <1>2, <2>2 DEF MatchOK, KeyMatches
    <3>2. Stamp(proc[p].id.debug) \in Nat /\ Stamp(Got(p).debug) \in Nat
      BY <2>1, <2>3, Later
    <3> QED
      BY <2>1, <2>2, <3>1, <3>2
  <2> QED
    BY <1>1, <1>3, <2>1, <2>3, <2>4 DEF DebugMatches
<1>8. DebugChecked(proc'[p], debugKind) /\ BinaryChecked(proc'[p])
  BY <1>1 DEF DebugChecked, BinaryChecked
<1> QED
  BY <1>4, <1>5, <1>6, <1>7, <1>8 DEF MatchOK

\* Between the fingerprint and an equal one, the files did not change.
LEMMA DebugRechecked ==
  ASSUME IInv, MInv, FreshBytes, NEW p \in Procs, proc[p] \in Jobs,
         proc[p].pc = "recheckDebug", Goto(p, "recheckBinary"), input["debug"] = proc[p].id.debug
  PROVE  MatchOK(proc'[p], input, debugKind)
<1>1. /\ proc'[p].pc = "recheckBinary" /\ proc'[p].kind = proc[p].kind
      /\ proc'[p].data = proc[p].data /\ proc'[p].id = proc[p].id
      /\ proc'[p].found = proc[p].found /\ proc'[p].file = proc[p].file
  BY Went DEF IInv, Steps
<1>2. /\ MatchOK(proc[p], input, debugKind) /\ proc[p].id \in Identities
      /\ input["debug"] \in Versions
  BY DEF MInv, IInv, TypeOK, Files, JobOK, Keyed, Storing
<1>3. proc[p].id # None /\ Ready(proc[p]) /\ Reread(proc[p])
  BY <1>2, CacheAssumption DEF Ready, Reread, Storing
<1>4. /\ NameMatches(proc'[p], input) /\ PlaceMatches(proc'[p], debugKind)
      /\ KeyMatches(proc'[p], input) /\ OwnMatches(proc'[p])
  BY <1>1, <1>2 DEF MatchOK, NameMatches, PlaceMatches, KeyMatches, OwnMatches, Done, Reading,
                    Storing
<1>5. RereadMatches(proc'[p], input) /\ DebugMatches(proc'[p], input, debugKind)
  BY <1>1, <1>2, <1>3 DEF MatchOK, RereadMatches, DebugMatches
<1>6. DebugChecked(proc'[p], debugKind) /\ BinaryChecked(proc'[p])
  <2> SUFFICES ASSUME proc[p].kind = "card"
               PROVE  /\ debugKind = "pdb" =>
                           Stamp(proc[p].found.from.debug) = Stamp(proc[p].id.debug)
                      /\ proc[p].found.parsed => proc[p].found.from.debug = proc[p].id.debug
    BY <1>1 DEF DebugChecked, BinaryChecked
  <2>1. /\ proc[p].found.from.debug \in Versions /\ proc[p].found.from.debug <= proc[p].id.debug
        /\ debugKind = "pdb" => Stamp(proc[p].id.debug) <= Stamp(proc[p].found.from.debug)
        /\ proc[p].found.parsed => proc[p].id.debug <= proc[p].found.from.debug
    BY <1>2, <1>3 DEF MatchOK, DebugMatches
  <2>2. /\ Stamp(proc[p].found.from.debug) <= Stamp(proc[p].id.debug)
        /\ Stamp(proc[p].found.from.debug) \in Nat /\ Stamp(proc[p].id.debug) \in Nat
        /\ proc[p].found.from.debug \in Nat /\ proc[p].id.debug \in Nat
    BY <1>2, <2>1, Later
  <2> QED
    BY <2>1, <2>2
<1> QED
  BY <1>4, <1>5, <1>6 DEF MatchOK

LEMMA BinaryRechecked ==
  ASSUME IInv, MInv, FreshBytes, NEW p \in Procs, proc[p] \in Jobs,
         proc[p].pc = "recheckBinary", Goto(p, "publish"), input["binary"] = proc[p].id.binary
  PROVE  MatchOK(proc'[p], input, debugKind)
<1>1. /\ proc'[p].pc = "publish" /\ proc'[p].kind = proc[p].kind
      /\ proc'[p].data = proc[p].data /\ proc'[p].id = proc[p].id
      /\ proc'[p].found = proc[p].found /\ proc'[p].file = proc[p].file
  BY Went DEF IInv, Steps
<1>2. /\ MatchOK(proc[p], input, debugKind) /\ proc[p].id \in Identities
      /\ proc[p].data \in Versions /\ proc[p].found \in Analyses
  BY DEF MInv, IInv, Jobs, JobOK, Keyed, Storing, Done
<1>3. proc[p].id # None /\ Ready(proc[p]) /\ Reread(proc[p])
  BY <1>2, CacheAssumption DEF Ready, Reread, Storing
<1>4. /\ NameMatches(proc'[p], input) /\ PlaceMatches(proc'[p], debugKind)
      /\ KeyMatches(proc'[p], input) /\ OwnMatches(proc'[p])
  BY <1>1, <1>2 DEF MatchOK, NameMatches, PlaceMatches, KeyMatches, OwnMatches, Done, Reading,
                    Storing
<1>5. /\ RereadMatches(proc'[p], input) /\ DebugMatches(proc'[p], input, debugKind)
      /\ DebugChecked(proc'[p], debugKind)
  BY <1>1, <1>2, <1>3 DEF MatchOK, RereadMatches, DebugMatches, DebugChecked
<1>6. BinaryChecked(proc'[p])
  <2> SUFFICES ASSUME proc[p].kind = "card"
               PROVE  /\ Stamp(proc[p].found.reread) = Stamp(proc[p].data)
                      /\ proc[p].found.parsed => proc[p].found.reread = proc[p].data
    BY <1>1 DEF BinaryChecked
  <2>1. /\ proc[p].found.reread \in Versions /\ proc[p].found.reread <= proc[p].data
        /\ Stamp(proc[p].data) <= Stamp(proc[p].found.reread)
        /\ proc[p].found.parsed => proc[p].data <= proc[p].found.reread
    BY <1>2, <1>3 DEF MatchOK, RereadMatches, NameMatches, Analyses
  <2>2. /\ Stamp(proc[p].found.reread) <= Stamp(proc[p].data)
        /\ Stamp(proc[p].found.reread) \in Nat /\ Stamp(proc[p].data) \in Nat
        /\ proc[p].found.reread \in Nat /\ proc[p].data \in Nat
    BY <1>2, <2>1, Later
  <2> QED
    BY <2>1, <2>2
<1> QED
  BY <1>4, <1>5, <1>6 DEF MatchOK

\* A job that is still one after a step of its process matches.
LEMMA Matching ==
  ASSUME IInv, MInv, FreshBytes, NEW p \in Procs, Works(p), proc'[p] \in Jobs
  PROVE  MatchOK(proc'[p], input, debugKind)
<1>0. /\ TypeOK /\ proc[p] \in ProcStates
      /\ proc[p] \in Jobs => JobOK(proc[p]) /\ MatchOK(proc[p], input, debugKind)
      /\ input["binary"] \in Versions /\ input["debug"] \in Versions
  BY DEF IInv, MInv, TypeOK, Files
<1>1. input["binary"] <= input["binary"] /\ input["debug"] <= input["debug"]
  <2>1. input["binary"] \in Nat /\ input["debug"] \in Nat
    BY <1>0, Later
  <2> QED
    BY <2>1
<1>2. ASSUME NEW pc \in Steps, At(p, pc) PROVE proc[p] \in Jobs /\ proc[p].pc = pc
  BY <1>0, <1>2, StateKinds DEF At
<1>3. ~Answer(p)
  BY <1>0, Answered
<1>4. ASSUME NEW kind \in {"card", "slice"}, Read(p, kind)
      PROVE  MatchOK(proc'[p], input, debugKind)
  <2>1. proc'[p] = NewJob(p, kind)
    BY <1>0, <1>4, ReadIs
  <2>2. MatchOK(NewJob(p, kind), input, debugKind)
    BY <1>1 DEF NewJob, MatchOK, NameMatches, PlaceMatches, KeyMatches, OwnMatches,
                RereadMatches, DebugMatches, DebugChecked, BinaryChecked, Reread, Ready,
                Done, Reading, Storing
  <2> QED
    BY <2>1, <2>2
<1>5. CASE Stop(p)
  <2>1. /\ proc[p] \in Jobs /\ proc'[p].pc = proc[p].pc /\ proc'[p].kind = proc[p].kind
        /\ proc'[p].data = proc[p].data /\ proc'[p].id = proc[p].id
        /\ proc'[p].found = proc[p].found
        /\ proc'[p].file = proc[p].file /\ proc'[p].key = proc[p].key
    BY <1>0, <1>5, StopIs
  <2>2. MatchOK(proc[p], input, debugKind)
    BY <1>0, <2>1
  <2>3. /\ NameMatches(proc'[p], input) /\ PlaceMatches(proc'[p], debugKind)
        /\ KeyMatches(proc'[p], input) /\ OwnMatches(proc'[p])
        /\ DebugChecked(proc'[p], debugKind) /\ BinaryChecked(proc'[p])
    BY <2>1, <2>2 DEF MatchOK, NameMatches, PlaceMatches, KeyMatches, OwnMatches, DebugChecked,
                      BinaryChecked
  <2>4. RereadMatches(proc'[p], input) /\ DebugMatches(proc'[p], input, debugKind)
    <3>1. (Ready(proc'[p]) => Ready(proc[p])) /\ (Reread(proc'[p]) => Reread(proc[p]))
      <4>1. proc'[p].stopped
        BY <1>0, <1>5, StopIs
      <4> QED
        BY <2>1, <4>1 DEF Ready, Reread
    <3> QED
      BY <2>1, <2>2, <3>1 DEF MatchOK, RereadMatches, DebugMatches
  <2> QED
    BY <2>3, <2>4 DEF MatchOK
<1>6. CASE Fingerprint(p)
  <2>1. /\ proc[p] \in Jobs /\ proc[p].pc = "fingerprint" /\ proc[p].file = "binary"
        /\ MatchOK(proc[p], input, debugKind)
    BY <1>0, <1>2, <1>6 DEF Fingerprint, Steps, MatchOK, PlaceMatches
  <2>2. CASE Goto(p, "analyze")
    BY <2>1, <2>2, WentMatches DEF Steps
  <2>3. CASE Become(p, [proc[p] EXCEPT !.pc = "load", !.id = IdOf(p)])
    <3> DEFINE q == [proc[p] EXCEPT !.pc = "load", !.id = IdOf(p)]
    <3>1. /\ IdOf(p).binary = proc[p].data
          /\ IF proc[p].kind = "card" THEN IdOf(p).debug = input["debug"] ELSE IdOf(p).debug = None
      BY DEF IdOf, Card
    <3>2. proc'[p] = q
      BY <1>0, <2>3 DEF Become, TypeOK
    <3>3. /\ q.pc = "load" /\ q.kind = proc[p].kind /\ q.data = proc[p].data
          /\ q.id = IdOf(p) /\ q.file = "binary"
      BY <2>1 DEF Jobs
    <3> HIDE DEF q
    <3>4. NameMatches(q, input)
      BY <1>0, <1>1, <2>1, <3>1, <3>3 DEF MatchOK, NameMatches
    <3> QED
      BY <3>2, <3>3, <3>4 DEF MatchOK, PlaceMatches, KeyMatches, OwnMatches, RereadMatches,
         DebugMatches, DebugChecked, BinaryChecked, Reread, Ready, Done, Reading, Storing
  <2> QED
    BY <1>3, <1>6, <2>2, <2>3 DEF Fingerprint, IdOf
<1>7. CASE Load(p)
  BY <1>2, <1>3, <1>7, WentMatches DEF Load, Steps
<1>8. ASSUME NEW ok \in BOOLEAN, Analyze(p, ok) PROVE MatchOK(proc'[p], input, debugKind)
  <2>1. /\ proc[p] \in Jobs /\ proc[p].pc = "analyze" /\ proc[p].file = "binary"
        /\ MatchOK(proc[p], input, debugKind) /\ proc[p].kind \in {"card", "slice"}
    BY <1>0, <1>2, <1>8 DEF Analyze, Steps, MatchOK, PlaceMatches, Jobs
  <2> DEFINE f == Own(p, ok /\ ~proc[p].stopped)
  <2>2. /\ f.from.binary = proc[p].data /\ f.from.debug = None /\ f.reread = proc[p].data
        /\ proc'[p].pc = IF Card(p) /\ ~proc[p].stopped THEN "key" ELSE "check"
        /\ proc'[p].kind = proc[p].kind /\ proc'[p].data = proc[p].data
        /\ proc'[p].id = proc[p].id /\ proc'[p].found = f
        /\ proc'[p].file = proc[p].file /\ proc'[p].stopped = proc[p].stopped
    BY <1>0, <1>8, <2>1, AnalyzedIs
  <2> HIDE DEF f
  <2>3. /\ NameMatches(proc'[p], input) /\ PlaceMatches(proc'[p], debugKind)
        /\ KeyMatches(proc'[p], input) /\ OwnMatches(proc'[p])
        /\ DebugChecked(proc'[p], debugKind) /\ BinaryChecked(proc'[p])
    BY <2>1, <2>2 DEF MatchOK, NameMatches, PlaceMatches, KeyMatches, OwnMatches, DebugChecked,
                      BinaryChecked, Reading, Card
  <2>4. proc[p].kind = "card" => ~Ready(proc'[p]) /\ ~Reread(proc'[p])
    BY <2>1, <2>2 DEF Ready, Reread, Storing, Card
  <2> QED
    BY <2>2, <2>3, <2>4 DEF MatchOK, RereadMatches, DebugMatches
<1>9. CASE Key(p)
  <2>1. proc[p] \in Jobs /\ proc[p].pc = "key"
    BY <1>2, <1>9 DEF Key, Steps
  <2>2. CASE proc[p].stopped
    <3>1. Goto(p, "check")
      BY <1>9, <2>2 DEF Key
    <3> QED
      BY <2>1, <2>2, <3>1, WentMatches DEF Steps
  <2>3. CASE ~proc[p].stopped
    BY <1>9, <2>1, <2>3, KeyedMatches DEF Key
  <2> QED
    BY <2>2, <2>3
<1>10. CASE Parse(p)
  BY <1>10, ParsedMatches
<1>11. CASE Check(p)
  <2>1. proc[p] \in Jobs /\ proc[p].pc = "check" /\ ~proc[p].stopped
    BY <1>2, <1>3, <1>11 DEF Check, Steps
  <2>2. Goto(p, "recheckDebug") \/ (Goto(p, "publish") /\ ~Card(p))
    BY <1>3, <1>11 DEF Check
  <2> QED
    BY <2>1, <2>2, WentMatches DEF Steps
<1>12. CASE RecheckDebug(p)
  BY <1>2, <1>3, <1>12, DebugRechecked DEF RecheckDebug, Steps
<1>13. CASE RecheckBinary(p)
  BY <1>2, <1>3, <1>13, BinaryRechecked DEF RecheckBinary, Steps
<1>14. ~(\E written \in BOOLEAN : Publish(p, written)) /\ ~Exit(p)
  BY <1>3 DEF Publish, Exit, Answer
<1> QED
  BY <1>4, <1>5, <1>6, <1>7, <1>8, <1>9, <1>10, <1>11, <1>12, <1>13, <1>14 DEF Works

\* The slots of a process match after its step.
LEMMA SlotsMatch ==
  ASSUME IInv, MInv, FreshBytes, NEW p \in Procs, Works(p)
  PROVE  SlotMatches(memo'[p], input, debugKind)
<1>0. /\ SlotMatches(memo[p], input, debugKind) /\ memo[p] \in [Files -> Slots \cup {None}]
      /\ debugKind \in {"pdb", "dsym"}
  BY DEF MInv, IInv, TypeOK
<1>1. CASE memo' = memo
  BY <1>0, <1>1
<1>2. CASE memo'[p] = NoSlots
  BY <1>2 DEF NoSlots, SlotMatches, Files
<1>3. CASE /\ Parse(p) /\ proc[p].file \in Files
           /\ memo'[p] = [memo[p] EXCEPT ![proc[p].file] = Got(p)]
  <2>1. /\ Dwarf(p) => /\ Got(p).binary <= input["binary"] /\ Got(p).key <= Stamp(Got(p).binary)
        /\ ~More(p) => Got(p).debug \in Versions /\ Got(p).debug <= input["debug"]
        /\ ~Dwarf(p) => Got(p).key <= Stamp(Got(p).debug)
    BY <1>3, GotMatches
  <2>2. CASE Dwarf(p)
    <3>1. memo'[p]["binary"] = Got(p) /\ memo'[p]["debug"] = memo[p]["debug"]
      BY <1>0, <1>3, <2>2 DEF Dwarf, Files
    <3> QED
      BY <1>0, <2>1, <2>2, <3>1 DEF SlotMatches, More
  <2>3. CASE ~Dwarf(p)
    <3>1. memo'[p]["debug"] = Got(p) /\ memo'[p]["binary"] = memo[p]["binary"] /\ ~More(p)
      BY <1>0, <1>3, <2>3 DEF Dwarf, Files, More
    <3> QED
      BY <1>0, <2>1, <2>3, <3>1 DEF SlotMatches
  <2> QED
    BY <2>2, <2>3
<1> QED
  BY <1>1, <1>2, <1>3, Keeping

\* A matching job that is about to be published is a matching entry.
LEMMA Published ==
  ASSUME IInv, MInv, NEW p \in Procs, proc[p] \in Jobs, proc[p].pc = "publish"
  PROVE  LET a == proc[p].found
             id == proc[p].id IN
         /\ a.from.binary = id.binary /\ (a.from.debug = None) = (id.debug = None)
         /\ Stamp(a.reread) = Stamp(id.binary)
         /\ id.debug # None /\ debugKind = "pdb" => Stamp(a.from.debug) = Stamp(id.debug)
         /\ a.parsed => a.from = id /\ a.reread = id.binary
<1>1. /\ proc[p].id \in Identities /\ proc[p].found \in Analyses
      /\ proc[p].kind \in {"card", "slice"} /\ MatchOK(proc[p], input, debugKind)
  BY DEF IInv, MInv, Jobs, JobOK, Keyed, Storing, Done
<1>2. proc[p].id # None /\ Ready(proc[p]) /\ proc[p].pc \in Done
  BY <1>1, CacheAssumption DEF Ready, Done, Storing
<1>3. /\ proc[p].found.from.binary = proc[p].id.binary /\ proc[p].id.binary = proc[p].data
      /\ proc[p].found.from \in Identities
  BY <1>1, <1>2 DEF MatchOK, NameMatches, OwnMatches, Analyses
<1>4. ASSUME proc[p].found.from.debug = proc[p].id.debug PROVE proc[p].found.from = proc[p].id
  BY <1>1, <1>3, <1>4 DEF Identities
<1>5. CASE proc[p].kind = "slice"
  <2>1. /\ proc[p].found.from.debug = None /\ proc[p].id.debug = None
        /\ proc[p].found.reread = proc[p].data
    BY <1>1, <1>2, <1>5 DEF MatchOK, NameMatches, OwnMatches
  <2> QED
    BY <1>3, <1>4, <2>1
<1>6. CASE proc[p].kind = "card"
  <2>1. proc[p].found.from.debug \in Versions /\ proc[p].id.debug \in Versions
    BY <1>1, <1>2, <1>6 DEF MatchOK, NameMatches, DebugMatches
  <2>2. proc[p].found.from.debug # None /\ proc[p].id.debug # None
    BY <2>1, CacheAssumption
  <2>3. /\ Stamp(proc[p].found.reread) = Stamp(proc[p].data)
        /\ proc[p].found.parsed => proc[p].found.reread = proc[p].data
        /\ debugKind = "pdb" => Stamp(proc[p].found.from.debug) = Stamp(proc[p].id.debug)
        /\ proc[p].found.parsed => proc[p].found.from.debug = proc[p].id.debug
    BY <1>1, <1>6 DEF MatchOK, DebugChecked, BinaryChecked
  <2> QED
    BY <1>3, <1>4, <2>2, <2>3
<1> QED
  BY <1>1, <1>5, <1>6

\* Every step keeps slots, jobs and entries matching; publication is the only
\* one that changes the cache.
LEMMA MatchStep ==
  ASSUME IInv, MInv, IInv', [Next]_vars, FreshBytes
  PROVE  MInv'
<1>0. /\ TypeOK /\ TypeOK' /\ EntryMatchesIdentity /\ input \in [Files -> Versions]
      /\ \A p \in Procs : proc[p] \in Jobs => JobOK(proc[p]) /\ MatchOK(proc[p], input, debugKind)
      /\ \A p \in Procs : SlotMatches(memo[p], input, debugKind)
  BY DEF IInv, MInv, TypeOK
<1>1. ASSUME NEW f \in Files, NEW v \in Versions, Rewrite(f, v) PROVE MInv'
  <2>1. v > input[f] /\ input[f] \in Nat /\ v \in Nat
    BY <1>0, <1>1 DEF Rewrite, FreshBytes
  <2>2. \A g \in Files : input[g] <= input'[g]
    <3> SUFFICES ASSUME NEW g \in Files PROVE input[g] <= input'[g]
      OBVIOUS
    <3>1. input[g] \in Nat /\ input'[g] = IF g = f THEN v ELSE input[g]
      BY <1>0, <1>1 DEF Rewrite, FreshBytes
    <3> QED
      BY <2>1, <3>1
  <2>3. proc' = proc /\ memo' = memo /\ cache' = cache /\ debugKind' = debugKind
        /\ input' \in [Files -> Versions]
    BY <1>0, <1>1 DEF Rewrite, TypeOK
  <2>4. ASSUME NEW p \in Procs, proc[p] \in Jobs PROVE MatchOK(proc[p], input', debugKind)
    BY <1>0, <2>2, <2>3, <2>4, Grown
  <2>5. ASSUME NEW p \in Procs PROVE SlotMatches(memo[p], input', debugKind)
    <3>1. /\ \A u \in Versions : u <= input["binary"] => u <= input'["binary"]
          /\ \A u \in Versions : u <= input["debug"] => u <= input'["debug"]
      <4>1. /\ input["binary"] \in Versions /\ input'["binary"] \in Versions
            /\ input["debug"] \in Versions /\ input'["debug"] \in Versions
            /\ input["binary"] <= input'["binary"] /\ input["debug"] <= input'["debug"]
        BY <1>0, <2>2, <2>3 DEF Files
      <4> QED
        BY <4>1, Later
    <3>2. memo[p]["binary"] # None => memo[p]["binary"].binary \in Versions
      BY DEF IInv, SlotsOK
    <3>3. SlotMatches(memo[p], input, debugKind)
      BY <1>0
    <3> QED
      BY <3>1, <3>2, <3>3 DEF SlotMatches
  <2>6. EntryMatchesIdentity'
    BY <1>0, <2>3 DEF EntryMatchesIdentity
  <2> QED
    BY <2>3, <2>4, <2>5, <2>6 DEF MInv
<1>2. ASSUME NEW p \in Procs, Works(p) PROVE MInv'
  <2>1. /\ input' = input /\ debugKind' = debugKind
        /\ \A r \in Procs : r = p \/ proc'[r] = proc[r]
        /\ \A r \in Procs : r = p \/ memo'[r] = memo[r]
    BY <1>2, Working, Keeping
  <2>2. \A r \in Procs : proc'[r] \in Jobs => MatchOK(proc'[r], input', debugKind')
    BY <1>0, <1>2, <2>1, Matching
  <2>3. \A r \in Procs : SlotMatches(memo'[r], input', debugKind')
    BY <1>0, <1>2, <2>1, SlotsMatch
  <2>4. EntryMatchesIdentity'
    <3>1. CASE cache' = cache
      BY <1>0, <2>1, <3>1 DEF EntryMatchesIdentity
    <3>2. CASE /\ proc[p].pc = "publish" /\ proc[p] \in Jobs
               /\ proc[p].id \in Identities /\ proc[p].found \in Analyses
               /\ cache' = [cache EXCEPT ![proc[p].id] = proc[p].found]
      <4> DEFINE Fits(a, id) ==
            /\ a.from.binary = id.binary /\ (a.from.debug = None) = (id.debug = None)
            /\ Stamp(a.reread) = Stamp(id.binary)
            /\ id.debug # None /\ debugKind = "pdb" => Stamp(a.from.debug) = Stamp(id.debug)
            /\ a.parsed => a.from = id /\ a.reread = id.binary
      <4>1. Fits(proc[p].found, proc[p].id)
        BY <3>2, Published
      <4>2. \A id \in Identities : cache[id] # None => Fits(cache[id], id)
        BY <1>0 DEF EntryMatchesIdentity
      <4> HIDE DEF Fits
      <4>3. \A id \in Identities : cache'[id] # None => Fits(cache'[id], id)
        BY <1>0, <3>2, <4>1, <4>2 DEF TypeOK
      <4> QED
        BY <1>0, <2>1, <4>3 DEF Fits, EntryMatchesIdentity
    <3> QED
      BY <1>2, <3>1, <3>2, Keeping
  <2> QED
    BY <2>2, <2>3, <2>4 DEF MInv
<1>3. CASE UNCHANGED vars
  BY <1>0, <1>3 DEF vars, MInv, EntryMatchesIdentity
<1> QED
  BY <1>1, <1>2, <1>3 DEF Next, Works

\* publish_bytes, over a process cache whose key is a length and a time: when
\* rebuilt files get new bytes, an entry was computed from the bytes of its
\* identity and, as far as that key can tell, from its debug info, whatever
\* was rewritten during the analysis; exactly so if the process parsed it all.
THEOREM EntriesMatch ==
  ASSUME FreshBytes
  PROVE  Spec => []EntryMatchesIdentity
<1>1. Init /\ IInv => MInv
  <2> SUFFICES ASSUME Init, IInv PROVE MInv
    OBVIOUS
  <2>1. Idle \notin Jobs
    BY DEF Idle, Jobs, Steps
  <2>2. /\ \A p \in Procs : memo[p] = NoSlots /\ proc[p] = Idle
        /\ \A id \in Identities : cache[id] = None
    BY DEF Init
  <2>3. SlotMatches(NoSlots, input, debugKind)
    BY DEF NoSlots, SlotMatches, Files
  <2> QED
    BY <2>1, <2>2, <2>3 DEF IInv, MInv, EntryMatchesIdentity
<1>2. IInv /\ IInv' /\ MInv /\ [Next]_vars => MInv'
  BY MatchStep
<1>3. MInv => EntryMatchesIdentity
  BY DEF MInv
<1> QED
  BY <1>1, <1>2, <1>3, Invariance, PTL DEF Spec
=============================================================================
