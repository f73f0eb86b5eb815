---------------------------- MODULE AnalysisCache ----------------------------
(***************************************************************************)
(* The analysis cache of rsleigh-cli/src/cli/agent/cache.rs, as the card   *)
(* command uses it (card/analysis.rs, prepare): processes that analyse the *)
(* same function of a binary whose companion debug file (PDB, dSYM) and    *)
(* whose own file may be rewritten meanwhile, under an execution budget    *)
(* that may stop them at any checkpoint.  Slices (cache.rs, analyze) use   *)
(* no debug file.  An entry is stored and read through the generation      *)
(* store of IndexPublish, whose promise makes both atomic.  A process that *)
(* serves several requests (the MCP server) keeps the parsed debug info of *)
(* rsleigh-decompile/src/binary_cache.rs between them, under a key that is *)
(* the length and the modification time of a file, not its contents.       *)
(***************************************************************************)
EXTENDS Naturals

CONSTANTS Procs,
          Versions,     \* contents a file can have
          Initial,      \* ... and those it can have at first
          Changes(_),   \* contents a file of the given content can be given
          Stamp(_),     \* the length and modification time of that content
          MaxChanges,   \* bound: rewrites of an input
          MaxReads,     \* bound: requests, over all processes
          None

VARIABLES input,        \* the contents of the binary and of its debug file
          debugKind,    \* the debug file is a "pdb" or a "dsym"
          changes,      \* how often an input was rewritten
          reads,        \* how many requests were started
          cache,        \* cache[id]: the analysis stored for an identity
          memo,         \* each process's parsed debug info and its keys
          proc          \* what each process is doing

vars == <<input, debugKind, changes, reads, cache, memo, proc>>

Files == {"binary", "debug"}

\* What an analysis is computed from.  A slice has None where a card has the
\* fingerprint of the debug file, and the two have different profiles, so they
\* never share an entry.
Identities == [binary : Versions, debug : Versions \cup {None}]

ASSUME CacheAssumption ==
  /\ MaxChanges \in Nat /\ MaxReads \in Nat /\ Initial \subseteq Versions
  /\ None \notin Identities \cup Versions

\* An analysis is determined by the contents it read: the bytes the command
\* was given, the debug info, and the binary that parse_dwarf_from_path reads
\* again by its path.  It is complete unless the budget stopped it or decoding
\* or decompiling failed.  History: whether it parsed all of that itself.
Analyses == [from : Identities, reread : Versions, parsed : BOOLEAN, complete : BOOLEAN]

\* The slots of binary_cache.rs: memo[p]["binary"] is that of
\* parse_dwarf_from_path, whose key is the binary's although it falls back to
\* the dSYM, and memo[p]["debug"] that of parse_pdb_file, with the PDB's key.
Stamps == {Stamp(v) : v \in Versions}
Slots == [key : Stamps, binary : Versions \cup {None}, debug : Versions \cup {None}]
NoSlots == [f \in Files |-> None]

Idle == [pc |-> "idle"]
Steps == {"fingerprint", "load", "analyze", "key", "parse", "check",
          "recheckDebug", "recheckBinary", "publish"}
ProcStates ==
  {Idle} \cup [pc : Steps, kind : {"card", "slice"}, data : Versions,
               id : Identities \cup {None}, found : Analyses \cup {None},
               file : Files, key : Stamps \cup {None}, stopped : BOOLEAN]

Init ==
  /\ input \in [Files -> Initial]
  /\ debugKind \in {"pdb", "dsym"}
  /\ changes = 0
  /\ reads = 0
  /\ cache = [id \in Identities |-> None]
  /\ memo = [p \in Procs |-> NoSlots]
  /\ proc = [p \in Procs |-> Idle]

\* Someone rebuilds the binary or its debug file; the new contents may have
\* the length and the modification time of the old ones.
Rewrite(f, v) ==
  /\ changes < MaxChanges
  /\ v \in Changes(input[f])
  /\ input' = [input EXCEPT ![f] = v]
  /\ changes' = changes + 1
  /\ UNCHANGED <<debugKind, reads, cache, memo, proc>>

---------------------------------------------------------------------------
At(p, pc) == proc[p].pc = pc
Card(p) == proc[p].kind = "card"
Become(p, s) == proc' = [proc EXCEPT ![p] = s]
Goto(p, pc) == Become(p, [proc[p] EXCEPT !.pc = pc])

\* The response is written, with what was found or loaded and, if a budget
\* stopped the analysis or its check, a diagnostic that says so; a server goes
\* on with what it has parsed.
Answer(p) == Become(p, Idle)

\* The command reads the binary once; everything later works on those bytes.
Read(p, kind) ==
  /\ At(p, "idle") /\ reads < MaxReads
  /\ Become(p, [pc |-> "fingerprint", kind |-> kind, data |-> input["binary"],
                id |-> None, found |-> None, file |-> "binary", key |-> None,
                stopped |-> FALSE])
  /\ reads' = reads + 1
  /\ UNCHANGED <<input, debugKind, changes, cache, memo>>

\* budget::poll: a stop recorded by this or any earlier checkpoint.  Charges
\* inside the analysis stop it the same way.
Stop(p) ==
  /\ ~At(p, "idle") /\ ~proc[p].stopped
  /\ Become(p, [proc[p] EXCEPT !.stopped = TRUE])
  /\ UNCHANGED <<input, debugKind, changes, reads, cache, memo>>

\* poll("cache"); then the identity is computed.  A stopped slice answers at
\* once, a stopped card goes on without a place in the cache.
Fingerprint(p) ==
  /\ At(p, "fingerprint")
  /\ IF proc[p].stopped
       THEN IF Card(p)
              THEN Goto(p, "analyze")
              ELSE Answer(p)
       ELSE Become(p, [proc[p] EXCEPT !.pc = "load",
              !.id = [binary |-> proc[p].data,
                      debug |-> IF Card(p) THEN input["debug"] ELSE None]])
  /\ UNCHANGED <<input, debugKind, changes, reads, cache, memo>>

\* load_bytes, validate: a valid entry is the answer, anything else a miss.
Load(p) ==
  /\ At(p, "load")
  /\ IF cache[proc[p].id] # None THEN Answer(p) ELSE Goto(p, "analyze")
  /\ UNCHANGED <<input, debugKind, changes, reads, cache, memo>>

\* What an analysis makes of the command's own bytes.
Own(p, ok) == [from |-> [binary |-> proc[p].data, debug |-> None], reread |-> proc[p].data,
               parsed |-> TRUE, complete |-> ok]

\* Decode and decompile; ok says that neither failed.  The decompiler of a
\* card goes on to the debug info, unless a stop keeps it from running.
Analyze(p, ok) ==
  /\ At(p, "analyze")
  /\ Become(p, [proc[p] EXCEPT !.pc = IF Card(p) /\ ~proc[p].stopped THEN "key" ELSE "check",
                               !.found = Own(p, ok /\ ~proc[p].stopped)])
  /\ UNCHANGED <<input, debugKind, changes, reads, cache, memo>>

\* Variant: the path alone is the key.
KeyPath(p) ==
  /\ At(p, "key")
  /\ IF proc[p].stopped
       THEN Goto(p, "check")
       ELSE Become(p, [proc[p] EXCEPT !.pc = "parse", !.key = CHOOSE k \in Stamps : TRUE])
  /\ UNCHANGED <<input, debugKind, changes, reads, cache, memo>>

\* Key::file: the length and time of the file, before it is parsed.  A stop
\* has unwound the decompiler.
Key(p) ==
  /\ At(p, "key")
  /\ IF proc[p].stopped
       THEN Goto(p, "check")
       ELSE Become(p, [proc[p] EXCEPT !.pc = "parse", !.key = Stamp(input[proc[p].file])])
  /\ UNCHANGED <<input, debugKind, changes, reads, cache, memo>>

Slot(p) == memo[p][proc[p].file]
Cached(p) == Slot(p) # None /\ Slot(p).key = proc[p].key

\* parse_dwarf_from_path reads the binary again and then its dSYM; where that
\* finds nothing, parse_pdb_file reads the PDB.
Dwarf(p) == proc[p].file = "binary"
More(p) == Dwarf(p) /\ debugKind = "pdb"
Current(p) == [key |-> proc[p].key,
               binary |-> IF Dwarf(p) THEN input["binary"] ELSE None,
               debug |-> IF More(p) THEN None ELSE input["debug"]]

\* Cache::get: the slot if it has the key, else what the files hold now.
Got(p) == IF Cached(p) THEN Slot(p) ELSE Current(p)

Parse(p) ==
  /\ At(p, "parse")
  /\ Become(p, [proc[p] EXCEPT
       !.pc = IF More(p) THEN "key" ELSE "check",
       !.file = IF More(p) THEN "debug" ELSE "binary",
       !.key = None,
       !.found = [from |-> [binary |-> proc[p].data, debug |-> Got(p).debug],
                  reread |-> IF Dwarf(p) THEN Got(p).binary ELSE @.reread,
                  parsed |-> @.parsed /\ ~Cached(p), complete |-> @.complete]])
  /\ memo' = [memo EXCEPT ![p][proc[p].file] = Got(p)]
  /\ UNCHANGED <<input, debugKind, changes, reads, cache>>

\* Variant: a stop between the analysis and its check goes unnoticed.
CheckLate(p) ==
  /\ At(p, "check")
  /\ IF proc[p].id # None
       THEN Goto(p, IF Card(p) THEN "recheckDebug" ELSE "publish")
       ELSE Answer(p)
  /\ UNCHANGED <<input, debugKind, changes, reads, cache, memo>>

\* Variant: the inputs are not looked at again.
CheckOnly(p) ==
  /\ At(p, "check")
  /\ IF proc[p].id # None /\ proc[p].found.complete /\ ~proc[p].stopped
       THEN Goto(p, "publish")
       ELSE Answer(p)
  /\ UNCHANGED <<input, debugKind, changes, reads, cache, memo>>

\* poll("decompile") / poll("ssa"), then validate: only a complete analysis
\* by a process that was not stopped goes on to the cache.
Check(p) ==
  /\ At(p, "check")
  /\ IF proc[p].id # None /\ proc[p].found.complete /\ ~proc[p].stopped
       THEN Goto(p, IF Card(p) THEN "recheckDebug" ELSE "publish")
       ELSE Answer(p)
  /\ UNCHANGED <<input, debugKind, changes, reads, cache, memo>>

\* auxiliary_inputs(binary_path) == identity["auxiliary_inputs"]
RecheckDebug(p) ==
  /\ At(p, "recheckDebug")
  /\ IF input["debug"] = proc[p].id.debug
       THEN Goto(p, "recheckBinary")
       ELSE Answer(p)
  /\ UNCHANGED <<input, debugKind, changes, reads, cache, memo>>

\* ... && the file still has the fingerprinted bytes
RecheckBinary(p) ==
  /\ At(p, "recheckBinary")
  /\ IF input["binary"] = proc[p].id.binary
       THEN Goto(p, "publish")
       ELSE Answer(p)
  /\ UNCHANGED <<input, debugKind, changes, reads, cache, memo>>

\* publish_bytes: poll("cache"), the size limit, index::publish.  Skipping
\* the write and a failing write only change the metrics.
Publish(p, written) ==
  /\ At(p, "publish")
  /\ cache' = IF written /\ ~proc[p].stopped
                THEN [cache EXCEPT ![proc[p].id] = proc[p].found] ELSE cache
  /\ Answer(p)
  /\ UNCHANGED <<input, debugKind, changes, reads, memo>>

\* The process ends or is killed; another may take its place.
Exit(p) ==
  /\ Become(p, Idle)
  /\ memo' = [memo EXCEPT ![p] = NoSlots]
  /\ UNCHANGED <<input, debugKind, changes, reads, cache>>

Next ==
  \/ \E f \in Files, v \in Versions : Rewrite(f, v)
  \/ \E p \in Procs :
       \/ \E kind \in {"card", "slice"} : Read(p, kind)
       \/ Stop(p) \/ Fingerprint(p) \/ Load(p)
       \/ \E ok \in BOOLEAN : Analyze(p, ok)
       \/ Key(p) \/ Parse(p)
       \/ Check(p) \/ RecheckDebug(p) \/ RecheckBinary(p)
       \/ \E written \in BOOLEAN : Publish(p, written)
       \/ Exit(p)

Spec == Init /\ [][Next]_vars

---------------------------------------------------------------------------
TypeOK ==
  /\ input \in [Files -> Versions]
  /\ debugKind \in {"pdb", "dsym"}
  /\ changes \in 0..MaxChanges
  /\ reads \in 0..MaxReads
  /\ cache \in [Identities -> Analyses \cup {None}]
  /\ memo \in [Procs -> [Files -> Slots \cup {None}]]
  /\ proc \in [Procs -> ProcStates]

\* publish_bytes: although the files may change under the analysis, an entry
\* was computed from the bytes its identity fingerprints, and from exactly the
\* debug info it fingerprints if the process parsed that itself.  What comes
\* out of the process's cache is as good as the key: a binary, or a PDB, of
\* the same length and modification time.  Of a dSYM that cache promises
\* nothing, its key being the binary's, so a server may store the analysis of
\* an older dSYM under the fingerprint of the present one; the fingerprints
\* docs/agent-workflow.md 436-438 promises do not exclude it.
EntryMatchesIdentity ==
  /\ TypeOK
  /\ \A id \in Identities : LET a == cache[id] IN a # None =>
       /\ a.from.binary = id.binary /\ (a.from.debug = None) = (id.debug = None)
       /\ Stamp(a.reread) = Stamp(id.binary)
       /\ id.debug # None /\ debugKind = "pdb" => Stamp(a.from.debug) = Stamp(id.debug)
       /\ a.parsed => a.from = id /\ a.reread = id.binary

\* "Completed immutable generation": what a budget stopped or a panic cut
\* short is never stored, so a later process with a larger budget never hits
\* it.
OnlyCompleteStored == \A id \in Identities : cache[id] # None => cache[id].complete
=============================================================================
