---------------------------- MODULE IndexPublish ----------------------------
(***************************************************************************)
(* The generation store of rsleigh-cli/src/cli/agent/index.rs: publish(),  *)
(* by any number of processes on one directory, and the readers that pin   *)
(* root/index.json and then open the files it names (read_manifest,        *)
(* read_artifacts, verify_files).  The function index, the analysis cache  *)
(* and evidence bundles are all stored through it.                         *)
(*                                                                         *)
(* A file's bytes are abstracted to the build that produced them: two      *)
(* files are equal, or match a recorded size and checksum, exactly when    *)
(* they hold the same build.  File 0 of a generation is its own            *)
(* index.json, files 1..N are the artifacts in the order publish() writes  *)
(* them.                                                                   *)
(***************************************************************************)
EXTENDS Naturals, Sequences, FiniteSets

CONSTANTS Writers,      \* processes that call publish()
          Readers,      \* processes that verify or load
          Gens,         \* generation names "{stamp}-{pid}-{serial}"
          Builds,       \* results of one analysis, as bytes
          N,            \* artifacts per generation
          Absent,       \* no such file
          Torn,         \* created, but not all bytes are on disk
          Nothing       \* no manifest

ASSUME NAssumption == N \in Nat
ASSUME MarkAssumption == Absent \notin Builds /\ Torn \notin Builds /\ Absent # Torn

VARIABLES made,         \* generation directories that exist
          files,        \* files[g][i]: the bytes of file i of generation g
          tmp,          \* tmp[g]: the bytes of root/.index-{g}.tmp
          root,         \* the manifest at root/index.json
          keptGens,     \* generation entries that sync_directory made durable
          keptFiles,    \* keptFiles[g]: file entries of g made durable
          disk,         \* the manifests root/index.json may show after a power loss
          writer,       \* what each publish() call is doing
          reader,       \* what each verification is doing
          acked         \* history: the newest publication whose publish() said Ok

store == <<made, files, tmp, root, keptGens, keptFiles, disk>>
vars == <<store, writer, reader, acked>>

Index == 0
FileIds == 0..N

(***************************************************************************)
(* A manifest names its generation and records every artifact's checksum.  *)
(* seq is history: the position in the order of renames; the code has no   *)
(* such number.                                                            *)
(***************************************************************************)
Manifests == [gen : Gens, build : Builds, seq : Nat]
IsManifest(m) == m # Nothing

ASSUME NothingAssumption == Nothing \notin Manifests

SeqOf(m) == IF m = Nothing THEN 0 ELSE m.seq

Idle == [pc |-> "idle"]
At(step, g, b, i) == [pc |-> step, gen |-> g, build |-> b, at |-> i]
Renamed(n) == [pc |-> "syncRoot", seq |-> n]
WriterSteps == {"create", "write", "syncGen", "syncGens", "createTmp", "writeTmp", "rename"}
WriterStates ==
  {Idle} \cup [pc : WriterSteps, gen : Gens, build : Builds, at : FileIds]
         \cup [pc : {"syncRoot"}, seq : Nat]
ReaderStates ==
  {Idle} \cup [pc : {"manifest", "file", "ok", "rejected"}, pin : Manifests, got : Seq(Builds)]

Active(w) == writer[w].pc # "idle"
Gen(w) == writer[w].gen
Build(w) == writer[w].build

Init ==
  /\ made = {}
  /\ files = [g \in Gens |-> [i \in FileIds |-> Absent]]
  /\ tmp = [g \in Gens |-> Absent]
  /\ root = Nothing
  /\ keptGens = {}
  /\ keptFiles = [g \in Gens |-> {}]
  /\ disk = {Nothing}
  /\ writer = [w \in Writers |-> Idle]
  /\ reader = [r \in Readers |-> Idle]
  /\ acked = 0

---------------------------------------------------------------------------
(* publish() *)

\* The artifacts in order, then the generation's own index.json.
NextFile(i) == IF i < N THEN i + 1 ELSE Index

Goto(w, step) == writer' = [writer EXCEPT ![w].pc = step]

\* create_dir claims a fresh generation name.  A name that is taken only
\* sends the loop round again with another stamp and serial.
Mkdir(w, b, g) ==
  /\ ~Active(w)
  /\ g \notin made
  /\ made' = made \cup {g}
  /\ writer' = [writer EXCEPT ![w] = At("create", g, b, NextFile(Index))]
  /\ UNCHANGED <<files, tmp, root, keptGens, keptFiles, disk, reader, acked>>

\* write_new, first half: create_new must make the file.
CreateFile(w) ==
  /\ writer[w].pc = "create"
  /\ files[Gen(w)][writer[w].at] = Absent
  /\ files' = [files EXCEPT ![Gen(w)][writer[w].at] = Torn]
  /\ Goto(w, "write")
  /\ UNCHANGED <<made, tmp, root, keptGens, keptFiles, disk, reader, acked>>

\* write_new, second half: write_all and sync_all.
WriteFile(w) ==
  /\ writer[w].pc = "write"
  /\ files' = [files EXCEPT ![Gen(w)][writer[w].at] = Build(w)]
  /\ writer' = [writer EXCEPT ![w] =
       IF writer[w].at = Index
         THEN At("syncGen", Gen(w), Build(w), Index)
         ELSE At("create", Gen(w), Build(w), NextFile(writer[w].at))]
  /\ UNCHANGED <<made, tmp, root, keptGens, keptFiles, disk, reader, acked>>

\* Variant: the generation directory is not synced.
SyncGenerationSkipped(w) ==
  /\ writer[w].pc = "syncGen"
  /\ Goto(w, "syncGens")
  /\ UNCHANGED <<made, files, tmp, root, keptGens, keptFiles, disk, reader, acked>>

\* sync_directory(generation)
SyncGeneration(w) ==
  /\ writer[w].pc = "syncGen"
  /\ keptFiles' = [keptFiles EXCEPT ![Gen(w)] =
                     {i \in FileIds : files[Gen(w)][i] # Absent}]
  /\ Goto(w, "syncGens")
  /\ UNCHANGED <<made, files, tmp, root, keptGens, disk, reader, acked>>

\* sync_directory(root/generations)
SyncGenerations(w) ==
  /\ writer[w].pc = "syncGens"
  /\ keptGens' = made
  /\ Goto(w, "createTmp")
  /\ UNCHANGED <<made, files, tmp, root, keptFiles, disk, reader, acked>>

\* write_new(pending): create_new, then the bytes.
CreateTmp(w) ==
  /\ writer[w].pc = "createTmp"
  /\ tmp[Gen(w)] = Absent
  /\ tmp' = [tmp EXCEPT ![Gen(w)] = Torn]
  /\ Goto(w, "writeTmp")
  /\ UNCHANGED <<made, files, root, keptGens, keptFiles, disk, reader, acked>>

WriteTmp(w) ==
  /\ writer[w].pc = "writeTmp"
  /\ tmp' = [tmp EXCEPT ![Gen(w)] = Build(w)]
  /\ Goto(w, "rename")
  /\ UNCHANGED <<made, files, root, keptGens, keptFiles, disk, reader, acked>>

\* The atomic replacement of root/index.json by the pending manifest.
Rename(w) ==
  /\ writer[w].pc = "rename"
  /\ root' = [gen |-> Gen(w), build |-> tmp[Gen(w)], seq |-> SeqOf(root) + 1]
  /\ disk' = disk \cup {root'}
  /\ tmp' = [tmp EXCEPT ![Gen(w)] = Absent]
  /\ writer' = [writer EXCEPT ![w] = Renamed(root'.seq)]
  /\ UNCHANGED <<made, files, keptGens, keptFiles, reader, acked>>

\* Variant: Ok(manifest) without sync_directory(root).
SyncRootSkipped(w) ==
  /\ writer[w].pc = "syncRoot"
  /\ acked' = IF writer[w].seq > acked THEN writer[w].seq ELSE acked
  /\ writer' = [writer EXCEPT ![w] = Idle]
  /\ UNCHANGED <<made, files, tmp, root, keptGens, keptFiles, disk, reader>>

\* sync_directory(root), then Ok(manifest).  This is the #[cfg(unix)] one; the
\* other syncs nothing.
SyncRoot(w) ==
  /\ writer[w].pc = "syncRoot"
  /\ disk' = {root}
  /\ acked' = IF writer[w].seq > acked THEN writer[w].seq ELSE acked
  /\ writer' = [writer EXCEPT ![w] = Idle]
  /\ UNCHANGED <<made, files, tmp, root, keptGens, keptFiles, reader>>

\* rename failed: the temporary file is removed (errors ignored), then Err.
RenameFails(w) ==
  /\ writer[w].pc = "rename"
  /\ tmp' = [tmp EXCEPT ![Gen(w)] = Absent]
  /\ writer' = [writer EXCEPT ![w] = Idle]
  /\ UNCHANGED <<made, files, root, keptGens, keptFiles, disk, reader, acked>>

\* Any other I/O error returns with "?", and a kill stops the process: both
\* leave everything where it is.
Abandon(w) ==
  /\ Active(w)
  /\ writer' = [writer EXCEPT ![w] = Idle]
  /\ UNCHANGED <<store, reader, acked>>

---------------------------------------------------------------------------
(* read_manifest, read_artifacts *)

\* A missing manifest, or one whose schema, binary or tool version is not the
\* reader's, is an error before anything else is opened: the reader stays idle.
ReadManifest(r) ==
  /\ reader[r].pc = "idle"
  /\ IsManifest(root)
  /\ reader' = [reader EXCEPT ![r] = [pc |-> "manifest", pin |-> root, got |-> <<>>]]
  /\ UNCHANGED <<store, writer, acked>>

\* Variant: the generation compared is the one root/index.json names now.
CompareManifestUnpinned(r) ==
  /\ reader[r].pc = "manifest"
  /\ LET m == reader[r].pin IN
     reader' = [reader EXCEPT ![r].pc =
       IF files[root.gen][Index] # m.build THEN "rejected"
       ELSE IF N = 0 THEN "ok" ELSE "file"]
  /\ UNCHANGED <<store, writer, acked>>

\* The generation's copy of the manifest must equal the pinned one.
CompareManifest(r) ==
  /\ reader[r].pc = "manifest"
  /\ LET m == reader[r].pin IN
     reader' = [reader EXCEPT ![r].pc =
       IF files[m.gen][Index] # m.build THEN "rejected"
       ELSE IF N = 0 THEN "ok" ELSE "file"]
  /\ UNCHANGED <<store, writer, acked>>

\* Variant: the path of each artifact is taken from root/index.json again.
ReadArtifactUnpinned(r) ==
  /\ reader[r].pc = "file"
  /\ LET m == root
         i == Len(reader[r].got) + 1
         b == files[m.gen][i]
     IN reader' = [reader EXCEPT ![r] =
          IF b # m.build
            THEN [pc |-> "rejected", pin |-> reader[r].pin, got |-> reader[r].got]
            ELSE [pc |-> IF i = N THEN "ok" ELSE "file", pin |-> reader[r].pin,
                  got |-> Append(reader[r].got, b)]]
  /\ UNCHANGED <<store, writer, acked>>

\* Each listed artifact must be there with the recorded size and checksum.
ReadArtifact(r) ==
  /\ reader[r].pc = "file"
  /\ LET m == reader[r].pin
         i == Len(reader[r].got) + 1
         b == files[m.gen][i]
     IN reader' = [reader EXCEPT ![r] =
          IF b # m.build
            THEN [pc |-> "rejected", pin |-> m, got |-> reader[r].got]
            ELSE [pc |-> IF i = N THEN "ok" ELSE "file", pin |-> m,
                  got |-> Append(reader[r].got, b)]]
  /\ UNCHANGED <<store, writer, acked>>

\* The verdict is emitted.
Emit(r) ==
  /\ reader[r].pc \in {"ok", "rejected"}
  /\ reader' = [reader EXCEPT ![r] = Idle]
  /\ UNCHANGED <<store, writer, acked>>

\* A file cannot be read, or the process is killed.
GiveUp(r) ==
  /\ reader[r].pc \in {"manifest", "file"}
  /\ reader' = [reader EXCEPT ![r] = Idle]
  /\ UNCHANGED <<store, writer, acked>>

---------------------------------------------------------------------------
(* The machine loses power: every process dies; an entry of a directory    *)
(* that was not synced since it was added may or may not be there;         *)
(* root/index.json shows one of the manifests renamed onto it since root   *)
(* was last synced, or the one there at that time.  Bytes of a file whose  *)
(* sync_all returned are kept.  The entry "generations" of root is assumed *)
(* to reach the disk no later than a rename in the same directory.         *)
AtRisk ==
  {e \in made \X FileIds : files[e[1]][e[2]] # Absent /\ e[2] \notin keptFiles[e[1]]}

PowerLoss ==
  /\ \E lostGens \in SUBSET (made \ keptGens), lost \in SUBSET AtRisk :
       /\ made' = made \ lostGens
       /\ files' = [g \in Gens |-> [i \in FileIds |->
            IF g \in lostGens \/ <<g, i>> \in lost THEN Absent ELSE files[g][i]]]
  /\ keptGens' = made'
  /\ keptFiles' = [g \in Gens |-> {i \in FileIds : files'[g][i] # Absent}]
  /\ \E m \in disk : root' = m /\ disk' = {m}
  /\ writer' = [w \in Writers |-> Idle]
  /\ reader' = [r \in Readers |-> Idle]
  /\ UNCHANGED <<tmp, acked>>

---------------------------------------------------------------------------
WriterStep(w) ==
  \/ CreateFile(w) \/ WriteFile(w)
  \/ SyncGeneration(w) \/ SyncGenerations(w)
  \/ CreateTmp(w) \/ WriteTmp(w)
  \/ Rename(w) \/ SyncRoot(w)

ReaderStep(r) == CompareManifest(r) \/ ReadArtifact(r) \/ Emit(r)

Next ==
  \/ \E w \in Writers :
       \/ \E b \in Builds, g \in Gens : Mkdir(w, b, g)
       \/ WriterStep(w) \/ RenameFails(w) \/ Abandon(w)
  \/ \E r \in Readers : ReadManifest(r) \/ ReaderStep(r) \/ GiveUp(r)
  \/ PowerLoss

Spec == Init /\ [][Next]_vars

---------------------------------------------------------------------------
TypeOK ==
  /\ made \subseteq Gens
  /\ files \in [Gens -> [FileIds -> Builds \cup {Absent, Torn}]]
  /\ tmp \in [Gens -> Builds \cup {Absent, Torn}]
  /\ root \in Manifests \cup {Nothing}
  /\ keptGens \subseteq Gens
  /\ keptFiles \in [Gens -> SUBSET FileIds]
  /\ disk \subseteq Manifests \cup {Nothing}
  /\ writer \in [Writers -> WriterStates]
  /\ reader \in [Readers -> ReaderStates]
  /\ acked \in Nat

\* Whole(m): generation m.gen holds exactly the files m records.
Whole(m) == \A i \in FileIds : files[m.gen][i] = m.build

\* publish(): root/index.json never names a generation with a missing, torn
\* or foreign file, whatever the writers are doing, whichever of them died
\* where, and also on the disk a power loss would leave behind.
PublishedWhole == \A m \in disk \cup {root} : IsManifest(m) => Whole(m)

\* read_artifacts(): a reader that pinned a published manifest never meets a
\* mismatch, however many generations are published while it reads.
NeverRejected == \A r \in Readers : reader[r].pc # "rejected"

\* publish() returning Ok is durable: no power loss brings back a manifest
\* older than one whose publish() returned Ok.  On unix: elsewhere
\* sync_directory does nothing and neither this nor PublishedWhole is ensured.
AckedSurvives == \A m \in disk \cup {root} : SeqOf(m) >= acked

---------------------------------------------------------------------------
(* The abstract store: a snapshot is the whole list of a generation's      *)
(* artifacts, as one reader would return it.                               *)
Artifacts(m) == IF m = Nothing THEN Nothing ELSE [i \in 1..N |-> files[m.gen][i]]

Snapshots == {[i \in 1..N |-> b] : b \in Builds}
ASSUME SnapshotAssumption == Nothing \notin Snapshots

Cell == Artifacts(root)
DiskCells == {Artifacts(m) : m \in disk}
Views == [r \in Readers |-> IF reader[r].pc = "idle" THEN Nothing ELSE Artifacts(reader[r].pin)]
Results == [r \in Readers |-> IF reader[r].pc = "ok" THEN reader[r].got ELSE Nothing]

Promise == INSTANCE SnapshotStore WITH
  cell <- Cell, disk <- DiskCells, view <- Views, result <- Results

\* A directory of generations behaves as one cell that is replaced and read
\* atomically: no reader ever returns a mixture of two publications, and a
\* failed or killed publish() is as if it had not been called.
Implements == Promise!ASpec
=============================================================================
