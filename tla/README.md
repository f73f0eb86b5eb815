# Verification of rsleigh

TLA+ models of the stateful parts of rsleigh, checked with TLC and, where the
result should hold for every size, proved with TLAPS. `PROJECT.json` maps each
definition to the source lines it stands for and lists runs, mutants, findings,
hazards and theorems. Paths below are relative to the repository.

## 1. The system

rsleigh turns Ghidra SLEIGH specifications into Rust decoders and decompiles
binaries with them. Three layers:

| Layer | Where | State |
| --- | --- | --- |
| SLEIGH compiler | `src/`, `rsleigh-generate/`, `generated/`, `slaspec/` | none at run time: text in, Rust text out |
| Decompiler | `pcode-ir/`, `rsleigh-api/`, `rsleigh-decompile/`, `rsleigh-fid/` | per-function values; thread-locals of `budget.rs`, process-wide caches and the panic hook |
| CLI and agent tools | `rsleigh-cli/` | worker pool; directories on disk shared by processes: index, analysis cache, evidence store, bundles, investigations; the MCP server |

### Inventory

| Component | State it keeps | Operations | What makes it correct |
| --- | --- | --- | --- |
| Generation store (`agent/index.rs`) | `root/index.json`, `generations/*`, pending files | `publish`, `read_manifest`, `read_artifacts`, `verify` | `index.json` always names a whole generation, also after a power loss; readers never see a mixture |
| Analysis cache (`agent/cache.rs`, `agent/card/analysis.rs`) | one generation store per identity | `identity`, `load_bytes`, `analyze`, `prepare`, `publish_bytes` | an entry is complete and was computed from the inputs its identity fingerprints |
| In-process cache (`binary_cache.rs`, users in `dwarf.rs`, `pdb_info.rs`) | last key and value per kind | `Key::bytes`, `Key::file`, `Cache::get` | a hit is what computing again would give |
| Evidence store (`agent/evidence.rs`) | `records/<id>.json` | `preflight`, `finish`, `store`, `load`, `list` | references resolve; a stored record is never half written |
| Bundles (`agent/bundle.rs`) | a generation store | `closure`, `export`, `read`, `verify`, `import` | what is exported verifies; what is imported is complete |
| Investigation ledger (`agent/investigation.rs`) | `revisions/NNNNNN.json`, `investigation.json` | `create`, `run`, `import`, `revisions`, `load`, `commit` | lock-free append-only log: nothing lost, nothing rewritten |
| Investigation documents (same file) | issues, observations, inferences, history | seven update actions, `validate_document` | an answer rests on available evidence about what the issue came from; closed stays closed |
| Worker pool (`cli.rs`, `for_each_ordered`) | atomic counter, channel, `pending`, `want` | spawn, claim, send, receive, emit, join | same output as the sequential loop |
| Budget (`budget.rs`) | `STATE`, `TRAVERSAL`, guards on the stack | `Scope::new`, `traversal`, `charge`, `decode_step`, `poll`, `work` | no scope over its limits; guards restored by every unwinding |
| Folding (`fold.rs`) | the process's panic hook | `take_hook`, `set_hook` around equality saturation | panics outside it are reported |
| MCP server (`agent/mcp.rs`, `agent.rs`, capture of `evidence.rs`) | the line being handled, capture frames, worker thread | `serve`, `handle`, `call`, `invoke`, `run_selected`, `begin_capture`, `end_capture` | one response per request, in order, with the documents of its own operation |
| Two-pass driver (`cli.rs`, `signatures.rs`) | learned types | pass 1, register, pass 2 | the same C for every `--jobs` |
| Evidence of SSA (`provenance.rs`) | origins and a flag per variable, worklist | `define`, `rewrite`, `propagate` | a list without the flag is complete; a rewrite loses nothing |
| Reaching stores (`memory.rs`, `region.rs`) | block entry and exit states, worklist | `forward` | the stores named for a load are the ones it reads on every path |
| Slices (`slice.rs`, `slice/interprocedural.rs`) | queue, seen set, contexts, counters | `backward_slice`, `backward` | every edge not followed says why; "complete" means closed; limits hold |
| Dominators, structuring (`dominators.rs`, `structure.rs`) | the sweep's tree; emitted blocks, loop stack | `compute_dominators`, `compute_post_dominators`, `recover_structure` | agree with the definition over paths; the printed program does what the graph does |
| Call graph and summaries (`callgraph.rs`, `function_summary.rs`, `cli.rs`) | explored functions, Tarjan's stack, one summary per function | `build_binary_summaries_scoped`, `tarjan_sccs`, `build_summaries_bottom_up` | a summary holds exactly what the function reaches through calls |
| CFG, SSA renaming | per-function graphs | pure algorithms | agree with their definitions |
| SLEIGH front end, generator, printer, parsers of binary formats | none | text transformations | outside what is modelled |

Interactions: cards, slices and bundles are stored through `index::publish`;
bundles carry evidence records and an investigation's revisions; investigations
cite records of a store; every analysis runs under a `budget::Scope` and inside
a `catch_unwind`, either on a thread of the pool or on the agent's worker; the
MCP server keeps one process, and so the in-process caches, alive over many
requests.

Hard behaviours: no locks anywhere on disk, so every pair of system calls of two
processes interleaves; kills and power losses between them; files rewritten
while an analysis reads them; cancellation by unwinding through guards and
through code that catches panics; results arriving out of order; process-wide
state (panic hook, caches) shared by threads. `PROJECT.json` lists these as
hazards, each at its line.

## 2. Plan

Done, in this order (the most widely used component first):

1. `SnapshotStore` (abstract), `IndexPublish`, `IndexPublish_proofs`
2. `RevisionLog` (abstract), `Ledger`, `Ledger_proofs`
3. `Evidence` (store and bundles; uses the promise of 1 and 2: one step each),
   `Evidence_proofs`
4. `Investigation` (documents; uses the promise of `Ledger`; proofs in
   `Ledger_proofs`)
5. `OrderedLoop` (abstract), `OrderedPool`, `OrderedPool_proofs`
6. `Budget`, `Budget_proofs`, `PanicHook`
7. `AnalysisCache` (uses the promise of `SnapshotStore`, the stops of `Budget`),
   `AnalysisCache_proofs`
8. `BinaryCache` (lock, recovered poisoning, colliding keys), `Mcp` (request
   loop, capture frames, worker panics), `Server_proofs` (both)
9. Algorithms of the decompiler against reference definitions or against an
   execution of the program they analyse: `Provenance`, `ReachingStores`,
   `BackwardSlice`, `Interprocedural`, `Dominators`, `Structure`, `Summaries`;
   `Dataflow_proofs` (the first four of them)

Left:

10. Learned types over two passes of `OrderedPool`.
11. CFG construction, SSA renaming, switch recovery.
12. Preprocessor conditionals and pattern intersection of the SLEIGH compiler.
13. Proofs of what is still only model-checked (end of section 5).

## 3. Modules

### IndexPublish — `agent/index.rs`

A process in `publish()` goes through one action per system call: `Mkdir` claims
a name, `CreateFile`/`WriteFile` are the halves of `write_new` for each artifact
and for the generation's own `index.json`, then `SyncGeneration`,
`SyncGenerations`, `CreateTmp`/`WriteTmp`, `Rename`, `SyncRoot`. `RenameFails`
is the cleanup branch, `Abandon` any other error or kill. Readers pin the
manifest (`ReadManifest`), compare the copy in the generation, read each
artifact, answer (`Emit`). Bytes are abstracted to the build that produced them;
checksum and size comparisons are equality of builds. `PowerLoss` drops any set
of directory entries not synced since they were added and shows in `index.json`
any manifest renamed since `root` was last synced. It assumes that a file whose
`sync_all` returned keeps its bytes, and that the entry `generations` of `root`
is on disk no later than a rename in `root` (nothing syncs it before).
`sync_directory` is the one for unix; elsewhere it does nothing, and what the run
and the proofs say about power losses does not hold.

`SnapshotStore` is the promise: one cell, replaced and read atomically.

### Ledger — `agent/investigation.rs`, storage

A document is the sequence of changes that led to it, so its length is its
revision. `Create`, `ImportBundle`/`ImportRevisions` and `Scan`/`Run` are the
commands up to `commit()`, which is `Mkdir`, `Link`, `Mirror`; an import
commits its revisions one after the other. A directory listing contains what
was there when it began and any part of what was added meanwhile. `Fail` stops
a command anywhere, undoing nothing. `RevisionLog` is the promise: an
append-only log.

### Evidence — `agent/evidence.rs`, `agent/bundle.rs`

A record is its content ID; two executions of the same observation differ only
in who ran them. `store()` is the existence test (`StoreExisting`,
`StoreMissing`) and the rename. Export reads the investigation first and the
records later; import checks, copies records in ID order (`Ascending`, of the
small module `Orders`), then attaches. `Preflight` is `preflight` and the
references it checks. `Closure`, what export follows from its
roots, is the least set that holds them and the references of its members.
`SplitStores` says whether `--evidence-store` may be another directory than
`--investigation`.

### Investigation — `agent/investigation.rs`, documents

One action per update flag, with the code's guards in the code's order of
checks. `AlwaysValid` is what `validate_document` checks of a document's past;
the syntax checks of its lines 124-166 are left out. An issue carries the slice
it was found in (`source`), so that `AnswersFit` can compare the evidence of an
answer with what raised the issue, revisions earlier, and not with the
requirement that was stored for it. `--add-unknowns`
pushes the selected boundaries in order (`Ascending`), those that are neither
tracked already nor earlier among the selected ones (`PushNew`). Records are
added and deleted by the environment at any time.

### OrderedPool — `cli.rs`, `for_each_ordered`

The calling thread (`main`) spawns, drops its sender, receives, drains
`pending`, joins; workers claim with `fetch_add`, compute, send. Jobs and
`emit` may panic and a thread may fail to start. `OrderedLoop` is the branch
the code itself takes for one job. A job ends with one of `Results`, which is
where `within_fn_timeout` turns a stop or a panic into a value. `emit` gets an
index and a value, and so does `OrderedLoop`, which emits `(i, job(i))` for the
next `i` only: the jobs may run ahead, their results may not be swapped.

### Budget — `budget.rs`

The Rust stack is the sequence of frames that matter: scope guards, traversal
guards, `catch_unwind`. `DropTo` runs the destructors of all frames above one;
`Work` charges and, when refused, unwinds to the innermost catch. Counters have
the width `MaxU` (u64::MAX, small in the run) so that saturation happens. The
limits and the start kept in a scope's frame are history: `GuardsRestored` uses
them to say whose record `STATE`, and each guard's saved value, is.

### PanicHook — `fold.rs`

The four lines that take, silence and restore the panic hook, per thread.

### AnalysisCache — `agent/cache.rs`, `agent/card/analysis.rs`, `binary_cache.rs`

A command reads the binary, fingerprints, loads, analyses, checks, compares
fingerprints again and publishes, while files are rewritten and the budget
stops it. An analysis is the record of the contents it read. `memo` has the two
slots a process keeps of parsed debug info, that of `parse_dwarf_from_path` and
that of `parse_pdb_file`; `Key` and `Parse` are the two halves of a lookup, and the
key is the length and the modification time (`Stamp`) of the file, so contents may
share one. `debugKind` says whether the debug file is a PDB or a dSYM; a dSYM has
no key of its own. `Changes` says which contents a rewrite may install; the run
uses `Fresh`, which never brings back an old one but may keep the stamp.

`EntryMatchesIdentity` promises no more than the key can: what was parsed in this
request is what the identity names, what came out of `memo` has its stamp.

### BinaryCache — `binary_cache.rs`

A thread stamps the file (`Key::file`: length and modification time), takes the
mutex, and either hits or computes while holding it; the computation reads the
file as it is by then. `Replace` installs a new version that may keep the stamp.
A computation may unwind, by a panic or by the budget, and poison the mutex,
which the next `lock()` recovers. Of the key of a buffer (address, length,
sampled bytes) only "two contents may share a key" is kept.

### Mcp — `agent/mcp.rs`, `agent.rs`, `agent/evidence.rs`

`serve` reads a line, handles it, and writes at most one response. A tool call
spawns a worker thread whose `CAPTURE` is a stack of frames: one for the
response, one more when the operation records evidence. The worker may fail,
panic in any step, or not start. A document carries the number of the line
whose worker emitted it, so that one that leaks into a later response shows.

### Provenance — `provenance.rs`, its callers in `ssa.rs`

`Define`, `Rewrite` and the worklist of `propagate`, with its work ceiling and
the closure that flags what may still have changed. `Reach`, the reference for
completeness, is the least set that is closed under inputs. Not modelled: the `memory`
field that a rewrite inherits, and the copy of an address's origins that a
store's proxy variable takes when it is made.

### ReachingStores — `memory.rs`, `region.rs`

`forward` as it iterates and then walks every block once. The program, over three
blocks, is an input; once analysed it is executed on a byte memory from every
place the frame may have, along every path, and what the analysis told each load
is compared with the bytes it reads. `exact_location` is abstracted to its
answer (`loc`); that rewriting a load may make a later pointer resolve is left
out, so the module analyses one pass. A walk through a block (`Walk`) and
`merge()` are recursive functions over positions; successors are listed in the
order of the terminator, so in any order (`Listings`). A location is relative to
one of `Bases`: addresses, or the value a frame register came in as, of which a
function may have several; `Frames` are the ways these may lie in memory, apart,
on one another or on globals.

`SameBlockFollowed` counts what the block began with: that the stores of the
block alone fit into `MAX_LOCATIONS` is not enough, since a state that is full
when the block begins loses a store to the next one.

### BackwardSlice, Interprocedural — `slice.rs`, `slice/interprocedural.rs`

`BackwardSlice` is the breadth-first walk of one function; `Interprocedural`
runs it for every job, a variable in a calling context, and admits its nodes
one by one, opening a context at a call and going back to the caller's argument
at a parameter. The lists of blocks kept beside the nodes are left out. A budget
that stops the walk in the middle of a node is modelled at the next node. What
the code guarantees of its input is `InterproceduralAssumption`: limits as
`bounded()` leaves them, returns and arguments that are variables of their
function, a parameter that is an input or a load, a call whose target is a
function of the program or one of the three answers that say why not. `Chain` is
the walk up `caller`, `Marked` the last pass over a node's edges.

### Dominators, Structure — `dominators.rs`, `structure.rs`

`Dominators` is the depth-first order and the sweeps of both passes, one action
per block. `Structure` is `recover_structure` as one operator over the result,
followed by executions of the graph and of the structured program under the
same answers to the tests (`MaxTests` of them), which must visit the same
blocks. Not modelled: jump tables and `switch`, `eliminate_gotos`, the naming of
call results (`consumed`), where a self-loop puts its phis, the limit on the
length of a shared tail. An `if` with two empty arms is no effect.

The recovery is a set of patterns, so `BehaviourKept` is stated for the graphs
`Structurable` describes (501 of the run's), not for all. Outside them the model
shows, and the code does: statements of a loop header that is not a self-loop
are printed before the loop, and in a branching do-while both before and inside
it, while those of the block that links back are dropped; nested ifs with early
returns lose the code after them; two loops with one header are mixed up; an
unreachable block that jumps to the entry makes a loop; `can_reach` counts a
block visited twice as two steps of its limit.

### Summaries — `callgraph.rs`, `function_summary.rs`, `cli.rs`

The functions worth exploring, from a scope or from those that call a library
source or sink; the components of the call graph, one action per step of
Tarjan's recursion; then the summaries, callees first. A body is the sequence of
its calls and tainted stores, with what `arg_slots_for_var`,
`detect_tainted_store` and the resolution of targets answer as inputs. A symbol
that decodes to nothing is a function with an empty body.

`SummariesExact` compares with what each function reaches along chains of calls.
A recursive function contributes its own events only, to callers outside its
cycle too. That is what `function_summary.rs` 799-803 says ("their members get
only the intra summary") and does; `callgraph.rs` 19-22 and 235-237 say that a
recursive component has "no summary", which the code does not do.

Two limits of the code are part of the statement. Exploration follows `Call`
operations only, so what lies behind a tail call is reported only when its target
is explored for another reason. And `MAX_PASSES` and `MAX_DEPTH` (`passes` of an
image) may cut exploration short: then everything that many calls away is still
explored (`Near`), and a summary holds what is reached through explored functions.

## 4. Runs

| Run | Instance | Shows |
| --- | --- | --- |
| `index` | 2 writers, 1 reader, 2 generation names, 2 builds, 2 artifacts | whole generations, no rejected reader, durable acknowledgements; refines `SnapshotStore` |
| `ledger` | 2 processes with 3 commands each, 4 revisions, a bundle of 2 | chain, no lost or resurrected update, mirror is a committed revision, nothing rewritten; refines `RevisionLog`; commands return |
| `evidence` | 2 processes, 2 stores, 3 records in a chain, 6 commands; or a document with 3 records, 2 questions, 4 revisions | references resolve, citations are held, exports verify; valid documents, answers that fit their issue, closed issues stay closed, nothing forgotten |
| `pool` | 3 workers, 4 indices | order, completeness, promptness; `emit` gets what the loop of one job gives it (`OrderedLoop`); ends |
| `budget` | depth 3, 2-bit counters, 3 limit sets | limits, each scope's own record restored, traversal flag, accounting |
| `cache` | 2 processes, 3 requests, 2 rewrites, a PDB or a dSYM, 2 of 3 contents with one stamp | entries match their identity as far as the keys tell contents apart, and are complete |
| `server` | sessions of 3 lines of 11 kinds, 2 documents per operation; or 2 threads, 2 files, 2 versions, 2 requests each | one answer per request, in order, own documents only, evidence wrapped; no cached value older than its key; every request ends |
| `dataflow` | 2 lowerings with 3 rewrites; or 4,536 programs of 3 blocks, with globals and two frame bases; or 400 call graphs under 6 sets of limits | unflagged is complete, loads are told the truth, complete slices are closed, limits hold, all three end |
| `structure` | every graph of 3 blocks with two-way branches, the connected ones of 4 that branch to the lower block when the test holds, 189 compiled programs; or 3,888 programs of 3 functions, explored in at most 1 or 4 passes | dominators and post-dominators are exact; structured code behaves as its graph; summaries are exact; the passes end |

Runs that end in a counterexample record where the code does not do what a
comment, message or document of the repository says:

| Run | What happens |
| --- | --- |
| `requirements` | a question with two `--require` flags is answered by a record of one of the two operations (`docs/agent-workflow.md` 567 and 580-582: "satisfies every declared requirement") |
| `hook` | a cancellation in the folding loop, or two threads folding at once, leaves the silent panic hook registered |
| `structure_latch` | in `while (c) { if (d) s1; s2 }` the inner `if` is taken for the loop's latch and the loop is lost |

More of the kind, met while modelling and not kept as runs:

- An import fails with `stale_revision` after copying some revisions
  (`investigation.rs` 1347), where `bundle.rs` 303 says "Refuse before copying
  anything".
- The second of two concurrent stores replaces the record of the first
  execution (`evidence.rs` 467, against its line 446 and
  `docs/agent-workflow.md` line 505).
- With `--evidence-store` in another directory, export drops cited records and
  publishes a bundle that does not verify (`bundle.rs` 134, against
  `contracts.rs` 674 and `docs/agent-workflow.md` line 529). `SplitStores =
  TRUE` in `Evidence.cfg` shows it.
- A server publishes an analysis of the old dSYM under the new fingerprint: its
  debug info is cached under the binary's key (`dwarf.rs` 69, against
  `docs/agent-workflow.md` lines 436-438). The `cache` run reaches such entries
  (`EntryMatchesIdentity` makes no promise for them: drop `debugKind = "pdb"` from
  it and TLC shows one). A PDB replaced by one of the same length and modification
  time does the same.
- `callgraph.rs` 19-22 and 235-237 on recursive components: see Summaries above.
- `docs/agent-workflow.md` line 563 says `investigation.json` mirrors the latest
  revision. Two mirror renames may overtake each other, or a process may stop
  between link and rename; that the mirror is a committed
  revision is what holds, and part of `Chain`.
- A `create` killed between `create_dir_all` and `hard_link` leaves an empty
  `revisions/`, and every later `create` says "already exists".
- A debug file changed and changed back between the two fingerprints of
  `prepare()` goes unnoticed.

### Bounds

Two writers meet every race on one name or rename; with two generation names
a reader can hold one while the other replaces it, and a writer can draw a name
that is taken; two artifacts make a mixture possible. Generations are never
removed, so more names only repeat this (and `IndexPublish_proofs` covers any
number). Three commands per process let one finish before two others
race, and meet every pair of ledger commands at every point; an import of two
revisions can be overtaken in the middle. A chain of three references makes
one-step and full closure differ. Depth 3 on the budget's stack holds a guard
inside a catch inside a guard, and `MaxU = 3` makes sums saturate. Three workers
on four indices let two results wait behind a third. `MaxOps`, `MaxRev`,
`MaxRevisions`, `MaxNow`, `MaxDepth`, `MaxChanges`, `MaxCited`, `MaxLines`, `MaxEmits`,
`MaxVersions`, `MaxGets`, `MaxReads`, `MaxRewrites`, `MaxRefs` and `MaxTests` are the only
bounds and appear in guards. Three lines let a document or a frame of one call
survive an unrelated message and show in the next. The code's own limits are
constants set low enough to be hit: `MaxOrigins = 3` against four origins,
`WorkFactor = 1` and `VisitFactor = 2` so that the worklists stop early,
`MaxStores = MaxLocations = 2`, `MaxInputs = 8`, six sets of slice limits of which
each makes another one bind, and explorations of one pass, which three functions
in a row outrun, beside those of four, which nothing does. Three blocks hold a diamond, a loop and
a store between two loads; four hold an if in a loop. Symmetry (processes, stores, question texts: nothing compares them by order) is used only in runs without liveness or refinement.

Deadlock is checked except where the system may stop: the pool, a session and
an analysis end, and `Ledger`, `Evidence` and `BinaryCache` run out of their
bounded commands.

### Fairness

Weak fairness of each process's own steps: commands are straight lines of
system calls, and a thread that is not blocked is scheduled. Kills and failures
are never forced. `PoolEnds` also relies on jobs ending, which the code gets
from the decompiler's own termination or from the deadline of `--fn-timeout`.
The analyses are loops of one thread: weak fairness of their steps.
`RequestsEnd` has weak fairness of the server's steps and of its worker's, while
the client is free to stop sending (`Answered`), and of each thread that can take
the cache's mutex: with finitely many requests nobody is overtaken for ever
(`EveryGetEnds`). Runs without a liveness
property assume no fairness.

## 5. Proofs

`IndexPublish_proofs`, for any writers, readers, generation names, builds and
number of artifacts (`NAssumption`, `MarkAssumption`, `NothingAssumption`):
`TypeCorrect`, `Published`, `Readable`, `Durable`. None of the three safety
properties is inductive. The strengthening `IInv` says, for each step of
`publish()`, which files of its generation are complete and which entries are
durable (`WriterOK`); that no two writers share a generation (`Exclusive`); and
that every manifest that is or may come back as `index.json`, or that a reader
has pinned, is `Good`: whole, durable, and without a writer. The argument is a
frame: a writer touches only a generation it owns or has just made, no `Good`
manifest names one of those (`Framed`), and what it publishes has become `Good`
by the steps before the rename. A power loss takes only entries outside
`keptGens` and `keptFiles`, which `Good` excludes. `NeverRejected` needs `Good`
of the pinned manifest, not of the current one.

`OrderedPool_proofs`, for any `Count` and set of workers (`CountAssumption`):
`TypeCorrect`, `Ordered`, `Complete`, `Prompt` and `Refinement`: every step is a
step of the sequential loop or changes nothing it shows, where `job` is what the
jobs returned and `out` the pairs given to `emit`. That `Emit` takes the value of
job `want` is where the invariant on `pending` is needed, and that a job is never
run twice where claims are. `IInv` adds where
every index is: claimed by at most one worker, its result in the channel, in
`pending` or emitted, in exactly one of them (`ClaimOK`, `ChannelOK`,
`PendingOK`), and that nothing disappears (`Conserved`) unless its worker died,
in which case `Join` passes the panic on. `Complete` is where conservation is
needed: when all workers are gone and the channel is empty, every index below
`next` was emitted.

`IndexPublish_proofs` also proves `Refinement`: the root manifest, read through
to the artifacts of its generation, is the cell of `SnapshotStore`. Only
`Rename` and `PowerLoss` change it, and only to a snapshot that is whole because
the manifest is `Good`; a reader's answer is the cell it pinned. It needs that
no snapshot is the mark for "nothing" (`SnapshotAssumption`).

`Ledger_proofs`, for any processes, commands, revisions and bundles
(`BoundAssumption`, `BundleAssumption`: a bundle's changes are its own and come
once): `LedgerChain`, `AcknowledgedStays`, `RefusalChangesNothing` and
`Refinement` of `RevisionLog`. `Chain` says nothing of a command between its
scan and its link, where a race is lost or won, so `IInv` says of each command
which revision its document extends (`CommitOK`), and that its change is in no
revision before it links (`Fresh`). `hard_link` fails on a taken number: that a
document of length n was built on revision n - 1 is then enough for the chain.

The second part of `Ledger_proofs` is about the documents, for any records,
boundaries, questions and sequence of updates (`RecordsAssumption`; no bound on
the issues, notes or citations of a document): `DocumentsValid` and the action
properties `AnswersHaveEvidence` and `UpdatesKeepTheDocument`. `DInv` is
`AlwaysValid` with the types of the fields and `Asks`: what an issue requires is
still what it came from calls for, which is why a record that satisfies the
requirement fits the issue (`FitsIfSatisfies`). A step is shown to keep `DInv` and
to carry every issue over (`Carried`: `Remembers` and `Backed` of each issue, the
notes a prefix) in one argument per way a document changes: an issue is amended
(`AmendStep`), issues with ids of their own are added (`GrowStep`), or a note is
(`NoteStep`). That `--add-unknowns` adds no id twice is the part a fold would
hide: the boundaries pushed are in ascending order and each differs from all
selected before it.

`Evidence_proofs`, for any processes, stores and finite acyclic references
(`RefsAssumption`, `OtherAssumption`), commands failing anywhere:
`ReferencesResolve`, and with one directory for an investigation and its
evidence (`SplitStores = FALSE`; section 4 says what happens otherwise)
`CitationsHeld` and `BundlesVerify`. `RefsResolve` excludes stores an import is
filling, so it is not inductive: `RefsOK` says that whatever is missing there is
on the list of an import, `JobOK` that a record about to be stored has its
references held or on the same list. `CiteOK` carries what an import is going to
attach and what an export has read; the records being only added, what an export
collected is still closed when it publishes.

`Budget_proofs`, for any depth, limits and counter width (`WidthAssumption`,
`LimitsAssumption`, `NoneAssumption`, `OptionAssumption`, `BoundAssumption`):
`BudgetWithinLimits`, `BudgetGuardsRestored` and the action property
`BudgetAccounting`. The properties speak of the current state; what makes them
inductive is what each guard on the stack will restore: `ScopesOK` (only the
lowest scope guard holds no record), `OwnersOK` (the record another one holds is
that of the scope below it, by its limits and start),
`WalksOK` for the traversal flag, and `BoundsOK` for every saved state. An unwind
drops any number of frames in one step, so both are stated for every cut of the
stack (`Dropped`).

`AnalysisCache_proofs`, for any processes, versions, stamps and rewrites
(`CacheAssumption`), a PDB or a dSYM: `StoredComplete` without further hypotheses,
and `EntriesMatch` under `FreshBytes`: a rewritten file never gets an earlier
content back, and later contents have no earlier stamp. Section 4 lists what
happens otherwise. The invariant orders the reads of a job, each at the same or a
later content than the one before, so that equal fingerprints at both ends leave
no room for a change in between; of what a slot of `memo` holds it says that it is
no newer than the file and has at least the stamp of its key, which squeezes a hit
between the key and the second fingerprint.

`Server_proofs`, for any threads, paths, versions, messages and lengths of
session (`BinaryCacheAssumption`, `McpAssumption`): `CacheNeverOlder`,
`ServerAnswersOnce`, `ServerOwnDocuments`. For the cache, `SlotOK` compares the
slot with the requests that would still hit it, not only with the file: a thread
may have taken its key before a replacement. For the server, `FramesOK` says
which frames are on `CAPTURE` in each step of the worker and whose documents
they hold, after a panic too; `ResponsesOK` says that the lines answered are
those due among the handled ones.

`Dataflow_proofs`, for every lowering, sequence of rewrites, `MAX_ORIGINS` and
work ceiling (`ProvenanceAssumption`): `EvidenceComplete` and the action property
`EvidenceNeverDropped`. `PInv` adds to the worklist's own invariant
(`WaitingOK`, kept by the closure walk as well) that an unflagged variable holds
its own origin and what its former inputs held (`OwnKept`), that what the second
walk has marked is flagged, and that lists are finite and fit. On return nothing
waits; the unflagged variables whose lists lie within that of `i` are then closed
under reading and so contain `Reach(i)`. The lemmas about `Smallest` (it keeps a
list that fits, and always fits) are proved from the existence of a greatest
element.

`Dataflow_proofs` on reaching stores, for every function, `MAX_STORES`,
`MAX_LOCATIONS`, work ceiling, path, frame bases and placement of them
(`ReachingStoresAssumption`: statements are of the known kinds and the executed
memory holds every location they name): `LoadsAreSound`. `LoadSound` speaks of
the load about to execute; `MInv` ties the two halves together. While the
iteration runs, a block that is not queued was computed from the exits there are
(`Computed`), so at the fixpoint every edge leads to an entry state that knows no
more than the exit it comes from (`Flows`, with the order `Weaker`); at the
ceiling `Flows` holds because every entry state was emptied. While the function runs,
memory is as the state before the next statement says (`Running`): `Holds` of a
state means that each known location was written, as a whole, by one of the
stores named for it. That a statement keeps `Holds`, wherever the frames lie, is
where `MayOverlap` is needed across bases, of which there may be any number. The order of block visits and of
predecessors plays no part. `SameBlockFollowed` is an argument along the
statements from the store to the load, with a count of the locations known.

`Dataflow_proofs` on slices, for every program, set of limits and `MAX_INPUTS`
(`InterproceduralAssumption`, `BackwardSliceAssumption`): `LimitsAlwaysHold`,
`EdgesAreHonest`, `CompleteIsClosed`. None of the three is inductive; `SInv` has
five parts. `LInv`: what a local walk has seen is walked or waiting, each once, so
that the walk stays within the nodes it was given (`LocalCounts`), and an edge
without a reason leads to something seen. `Tree`: a context comes after its
caller, no function is above itself, and arguments are variables of the caller,
so that going back from a parameter stays in scope. `Bounded` and `Staged`: what
is admitted and what is pending fit the limits together. `NothingMissing`: until
`truncated` is set, a node without a boundary names everything its value comes
from (`Sound`), nothing visited was left out, and the root is in the slice, in a
job or in the local result. `Resulting`: the last pass marks every edge into what
is not included, so a slice that is complete after it has every edge included,
and by `Sound` these are all there are. An execution limit may strike at
any step of a job; it sets `truncated`, and the parts that hold without
`NothingMissing` are enough for the other two theorems.

Hypotheses such as `None \notin Docs` say that a mark is none of the values it is
used beside; TLC evaluates all of them on the instances of the runs. Every
inductive invariant was checked with TLC on the instance of its component's run
before it was proved.

Induction: the library's theorems that take an operator cannot be used, but
`WFMin` (a nonempty set of naturals has a minimal element) can, and the proofs
that need it (lemmas `Least`, `Greatest`) argue by a smallest counterexample.
What a recursive operator computes is out of reach all the same, which is why
`Closure` and `Reach` are least closed sets and an order is one of a set of
sequences (`Ascending`). A recursive function over positions can be reasoned
about: that its defining equation has a solution is shown up to every position,
by a smallest one where it has none (`WalkIs`, `MergeIs`, `UpIs`), and what it
computes by a smallest counterexample again.

Only model-checked:

- all liveness properties, and fairness (outside the prover);
- `BehaviourKept`: `Structure` is a set of `RECURSIVE` operators over regions;
- `DominatorsExact` and `SummariesExact`: the order of a depth-first search and
  the components Tarjan's recursion finds are compared with definitions over
  paths and chains of calls, an induction over graphs that has not been done;
- the violations of section 4, which are counterexamples.

## 6. Not modelled

Text and byte formats (JSON layout, canonical forms, hashes: equality of what
they are computed from), argument validation, views and handoffs, the SLEIGH
compiler, decoders, printer and binary parsers: transformations of text and
values without state that outlives a call. Their correctness is agreement with a
language or file format, for which the repository holds no reference a small
instance could be compared with. The rest of the decompiler's algorithms and the
two-pass driver are left (section 2). Durability of ledger and evidence files
is not checked because the code does not promise it: neither calls `sync_all`.

How much of the code this is: the map names about 4,500 distinct lines, roughly
4% of the implementation. The share is high in the files that hold shared state
(`index.rs`, `bundle.rs`, `budget.rs`, `mcp.rs`, `binary_cache.rs`) and in the
analyses named in section 3, and nil in the printer, the folding rules, the
binary formats and the SLEIGH compiler, about which nothing here says anything.
