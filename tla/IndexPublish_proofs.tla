------------------------ MODULE IndexPublish_proofs ------------------------
(***************************************************************************)
(* root/index.json always names a whole generation, for any number of      *)
(* writers, readers, generations and artifacts, across power losses.       *)
(***************************************************************************)
EXTENDS IndexPublish, TLAPS

\* Artifacts are written in order, the generation's index.json last.
Before(j, i) == j # Index /\ (i = Index \/ j < i)

\* w has claimed generation g and not yet renamed its manifest.
Owns(w, g) == writer[w].pc \in WriterSteps /\ writer[w].gen = g

\* How far each step of publish() has got with its generation.
WriterOK(w) ==
  LET c == writer[w] IN
  /\ c.pc \in WriterSteps => c.gen \in made
  /\ c.pc \in {"create", "write"} =>
       \A j \in FileIds : Before(j, c.at) => files[c.gen][j] = c.build
  /\ c.pc \in WriterSteps \ {"create", "write"} =>
       \A j \in FileIds : files[c.gen][j] = c.build
  /\ c.pc \in {"syncGens", "createTmp", "writeTmp", "rename"} => keptFiles[c.gen] = FileIds
  /\ c.pc \in {"createTmp", "writeTmp", "rename"} => c.gen \in keptGens
  /\ c.pc = "rename" => tmp[c.gen] = c.build
  /\ c.pc = "syncRoot" => c.seq <= SeqOf(root)

Exclusive == \A v, w \in Writers, g \in Gens : Owns(v, g) /\ Owns(w, g) => v = w

\* A manifest that may be read: its generation is whole and durable, and no
\* writer will touch it again.
Good(m) ==
  m # Nothing =>
    /\ Whole(m)
    /\ m.gen \in keptGens
    /\ keptFiles[m.gen] = FileIds
    /\ \A w \in Writers : ~Owns(w, m.gen)

StoreOK ==
  /\ root \in disk
  /\ keptGens \subseteq made
  /\ \A m \in disk : Good(m) /\ SeqOf(m) >= acked

ReaderOK(r) ==
  reader[r].pc # "idle" =>
    /\ Good(reader[r].pin)
    /\ reader[r].pc # "rejected"
    /\ reader[r].pc = "manifest" => reader[r].got = <<>>
    /\ reader[r].pc = "file" => Len(reader[r].got) < N
    /\ reader[r].pc = "ok" => Len(reader[r].got) = N
    /\ \A k \in 1..Len(reader[r].got) : reader[r].got[k] = reader[r].pin.build

IInv ==
  /\ TypeOK
  /\ \A w \in Writers : WriterOK(w)
  /\ Exclusive
  /\ StoreOK
  /\ \A r \in Readers : ReaderOK(r)

---------------------------------------------------------------------------
(* Records and types. *)

\* A publish() call before the rename knows its generation, build and file;
\* after the rename, its number.
LEMMA WriterShape ==
  ASSUME TypeOK, NEW w \in Writers
  PROVE  /\ writer[w].pc \in WriterSteps =>
              /\ writer[w] \in [pc : WriterSteps, gen : Gens, build : Builds, at : FileIds]
              /\ writer[w].gen \in Gens /\ writer[w].build \in Builds /\ writer[w].at \in FileIds
         /\ writer[w].pc = "syncRoot" => writer[w].seq \in Nat
         /\ writer[w].pc \in WriterSteps \cup {"idle", "syncRoot"}
  BY DEF TypeOK, WriterStates, WriterSteps, Idle

\* A verification under way has pinned a manifest.
LEMMA ReaderShape ==
  ASSUME TypeOK, NEW r \in Readers, reader[r].pc # "idle"
  PROVE  /\ reader[r] \in [pc : {"manifest", "file", "ok", "rejected"}, pin : Manifests, got : Seq(Builds)]
         /\ reader[r].pin \in Manifests /\ reader[r].got \in Seq(Builds)
         /\ reader[r].pc \in {"manifest", "file", "ok", "rejected"}
  BY DEF TypeOK, ReaderStates, Idle

\* Manifests are numbered.
LEMMA SeqType ==
  ASSUME NEW m \in Manifests \cup {Nothing}
  PROVE  SeqOf(m) \in Nat
  BY DEF SeqOf, Manifests

---------------------------------------------------------------------------
(* What a step of writer x leaves alone: every generation but its own. *)

MayTouch(x, g) == Owns(x, g) \/ g \notin made

Leaves(x, g) ==
  /\ \A h \in Gens : h # g => files'[h] = files[h] /\ keptFiles'[h] = keptFiles[h] /\ tmp'[h] = tmp[h]
  /\ made \subseteq made' /\ keptGens \subseteq keptGens'
  /\ SeqOf(root) <= SeqOf(root')
  /\ \A w \in Writers : w # x => writer'[w] = writer[w]
  /\ \A h \in Gens : Owns(x, h)' => h = g

\* The other writers and every readable manifest keep what they rely on.
LEMMA Framed ==
  ASSUME IInv, NEW x \in Writers, NEW g \in Gens, MayTouch(x, g), Leaves(x, g),
         root' \in Manifests \cup {Nothing}
  PROVE  /\ \A w \in Writers : w # x => WriterOK(w)'
         /\ \A m \in Manifests \cup {Nothing} : Good(m) => Good(m)'
         /\ Exclusive'
<1>1. \A w \in Writers : w # x => ~Owns(w, g)
  BY DEF IInv, MayTouch, Exclusive, WriterOK, Owns
<1>2. \A m \in Manifests \cup {Nothing} : Good(m) /\ m # Nothing => m.gen # g
  BY DEF IInv, MayTouch, Good, StoreOK
<1>3. ASSUME NEW w \in Writers, w # x PROVE WriterOK(w)'
  <2>1. writer'[w] = writer[w]
    BY <1>3 DEF Leaves
  <2>2. CASE writer[w].pc \in WriterSteps
    <3>1. /\ writer[w].gen \in Gens /\ writer[w].gen # g
      BY <1>1, <1>3, <2>2, WriterShape DEF IInv, Owns
    <3>2. WriterOK(w)
      BY DEF IInv
    <3>3. writer[w].pc # "syncRoot"
      BY <2>2 DEF WriterSteps
    <3>4. QED
      BY <2>1, <2>2, <3>1, <3>2, <3>3 DEF WriterOK, Leaves
  <2>3. CASE writer[w].pc = "syncRoot"
    <3>1. writer[w].seq <= SeqOf(root) /\ writer[w].seq \in Nat /\ SeqOf(root) \in Nat
      BY <2>3, WriterShape, SeqType DEF IInv, WriterOK, TypeOK
    <3>2. SeqOf(root') \in Nat /\ SeqOf(root) <= SeqOf(root')
      BY SeqType DEF Leaves
    <3>3. writer[w].seq <= SeqOf(root')
      BY <3>1, <3>2
    <3>4. QED
      BY <2>1, <2>3, <3>3 DEF WriterOK, WriterSteps, SeqOf
  <2>4. CASE writer[w].pc = "idle"
    BY <2>1, <2>4 DEF WriterOK, WriterSteps
  <2>5. QED
    BY <2>2, <2>3, <2>4, WriterShape DEF IInv
<1>4. ASSUME NEW m \in Manifests \cup {Nothing}, Good(m) PROVE Good(m)'
  <2> SUFFICES ASSUME m # Nothing
               PROVE  /\ Whole(m)' /\ m.gen \in keptGens' /\ keptFiles'[m.gen] = FileIds
                      /\ \A w \in Writers : ~Owns(w, m.gen)'
    BY DEF Good
  <2>1. m.gen \in Gens /\ m.gen # g
    BY <1>2, <1>4 DEF Manifests
  <2>2. Whole(m)' /\ m.gen \in keptGens' /\ keptFiles'[m.gen] = FileIds
    BY <1>4, <2>1 DEF Good, Leaves, Whole
  <2>3. \A w \in Writers : ~Owns(w, m.gen)'
    BY <1>4, <2>1 DEF Good, Leaves, Owns
  <2>4. QED
    BY <2>2, <2>3
<1>5. Exclusive'
  BY <1>1 DEF IInv, Leaves, Exclusive, Owns
<1>6. QED
  BY <1>3, <1>4, <1>5

\* A step that only adds to the generation of one writer keeps what the
\* store and the readers rely on.
LEMMA Unpublished ==
  ASSUME IInv, root' = root, disk' = disk, acked' = acked, reader' = reader,
         keptGens' \subseteq made',
         \A m \in Manifests \cup {Nothing} : Good(m) => Good(m)'
  PROVE  StoreOK' /\ \A r \in Readers : ReaderOK(r)'
<1>1. StoreOK'
  <2>1. \A m \in disk : m \in Manifests \cup {Nothing} /\ Good(m) /\ SeqOf(m) >= acked
    BY DEF IInv, StoreOK, TypeOK
  <2>2. \A m \in disk : Good(m)'
    BY <2>1
  <2>3. root \in disk
    BY DEF IInv, StoreOK
  <2>4. QED
    BY <2>1, <2>2, <2>3 DEF StoreOK, SeqOf
<1>2. ASSUME NEW r \in Readers PROVE ReaderOK(r)'
  <2> SUFFICES ASSUME reader[r].pc # "idle" PROVE ReaderOK(r)'
    BY DEF ReaderOK
  <2>1. PICK m \in Manifests : m = reader[r].pin
    BY ReaderShape DEF IInv
  <2>2. Good(m)'
    BY <2>1 DEF IInv, ReaderOK
  <2>3. reader'[r].pin = m
    BY <2>1
  <2>4. QED
    BY <2>2, <2>3 DEF IInv, ReaderOK, Good, Whole, Owns
<1>3. QED
  BY <1>1, <1>2

\* The two together, for the steps of writer x that do not touch index.json.
LEMMA PrivateStep ==
  ASSUME IInv, NEW x \in Writers, NEW g \in Gens, MayTouch(x, g), Leaves(x, g),
         UNCHANGED <<root, disk, acked, reader>>, keptGens' \subseteq made',
         TypeOK', WriterOK(x)'
  PROVE  IInv'
<1>1. root' \in Manifests \cup {Nothing}
  BY DEF TypeOK
<1>2. /\ \A w \in Writers : w # x => WriterOK(w)'
      /\ \A m \in Manifests \cup {Nothing} : Good(m) => Good(m)'
      /\ Exclusive'
  BY <1>1, Framed
<1>3. StoreOK' /\ \A r \in Readers : ReaderOK(r)'
  BY <1>2, Unpublished
<1>4. QED
  BY <1>2, <1>3 DEF IInv

---------------------------------------------------------------------------
(* publish(), one lemma per step. *)

\* The initial directory.
LEMMA InitOK == Init => IInv
<1> SUFFICES ASSUME Init PROVE IInv
  OBVIOUS
<1>1. TypeOK
  BY DEF Init, TypeOK, WriterStates, ReaderStates
<1>2. QED
  BY <1>1 DEF Init, IInv, WriterOK, WriterSteps, Idle, Exclusive, Owns, StoreOK, Good, SeqOf, ReaderOK

\* create_dir claims a generation nobody has.
LEMMA MkdirStep ==
  ASSUME IInv, NEW x \in Writers, NEW b \in Builds, NEW g \in Gens, Mkdir(x, b, g)
  PROVE  IInv'
<1> DEFINE i == NextFile(Index)
<1>1. i \in FileIds /\ \A j \in FileIds : ~Before(j, i)
  BY NAssumption DEF NextFile, Index, FileIds, Before
<1>2. /\ writer'[x] = At("create", g, b, i)
      /\ \A w \in Writers : w # x => writer'[w] = writer[w]
      /\ made' = made \cup {g}
  BY DEF IInv, TypeOK, Mkdir
<1> HIDE DEF i
<1>3. TypeOK'
  <2>1. writer' \in [Writers -> WriterStates]
    BY <1>1 DEF IInv, TypeOK, Mkdir, At, WriterStates, WriterSteps, i
  <2>2. QED
    BY <2>1 DEF IInv, TypeOK, Mkdir
<1>4. MayTouch(x, g) /\ Leaves(x, g)
  BY <1>2, SeqType DEF IInv, TypeOK, Mkdir, MayTouch, Leaves, At, Owns
<1>5. WriterOK(x)'
  BY <1>1, <1>2 DEF WriterOK, At, WriterSteps
<1>6. keptGens' \subseteq made'
  BY <1>2 DEF IInv, StoreOK, Mkdir
<1>7. QED
  BY <1>3, <1>4, <1>5, <1>6, PrivateStep DEF Mkdir

\* write_new creates the file.
LEMMA CreateFileStep ==
  ASSUME IInv, NEW x \in Writers, CreateFile(x)
  PROVE  IInv'
<1>1. PICK g \in Gens, b \in Builds, i \in FileIds : writer[x] = At("create", g, b, i)
  BY WriterShape DEF IInv, CreateFile, WriterSteps, At
<1>2. /\ writer'[x] = At("write", g, b, i)
      /\ \A w \in Writers : w # x => writer'[w] = writer[w]
      /\ writer' \in [Writers -> WriterStates]
  BY <1>1 DEF IInv, TypeOK, CreateFile, Goto, At, WriterStates, WriterSteps
<1>3. /\ files' = [files EXCEPT ![g][i] = Torn]
      /\ UNCHANGED <<made, tmp, root, keptGens, keptFiles, disk, reader, acked>>
  BY <1>1 DEF CreateFile, Gen, At
<1>4. /\ files' \in [Gens -> [FileIds -> Builds \cup {Absent, Torn}]]
      /\ \A h \in Gens : h # g => files'[h] = files[h]
      /\ \A j \in FileIds : j # i => files'[g][j] = files[g][j]
  BY <1>3 DEF IInv, TypeOK
<1>5. TypeOK'
  BY <1>2, <1>3, <1>4 DEF IInv, TypeOK
<1>6. MayTouch(x, g) /\ Leaves(x, g)
  BY <1>1, <1>2, <1>3, <1>4, SeqType DEF IInv, TypeOK, MayTouch, Leaves, At, Owns, WriterSteps
<1>7. WriterOK(x)'
  <2>1. g \in made /\ \A j \in FileIds : Before(j, i) => files[g][j] = b
    BY <1>1 DEF IInv, WriterOK, At, WriterSteps
  <2>2. \A j \in FileIds : Before(j, i) => j # i
    BY NAssumption DEF Before, FileIds, Index
  <2>3. QED
    BY <2>1, <2>2, <1>2, <1>3, <1>4 DEF WriterOK, At, WriterSteps
<1>8. keptGens' \subseteq made'
  BY <1>3 DEF IInv, StoreOK
<1>9. QED
  BY <1>3, <1>5, <1>6, <1>7, <1>8, PrivateStep

\* write_new fills the file, and the loop moves on.
LEMMA WriteFileStep ==
  ASSUME IInv, NEW x \in Writers, WriteFile(x)
  PROVE  IInv'
<1>1. PICK g \in Gens, b \in Builds, i \in FileIds : writer[x] = At("write", g, b, i)
  BY WriterShape DEF IInv, WriteFile, WriterSteps, At
<1>2. /\ files' = [files EXCEPT ![g][i] = b]
      /\ UNCHANGED <<made, tmp, root, keptGens, keptFiles, disk, reader, acked>>
  BY <1>1 DEF WriteFile, Gen, Build, At
<1>3. /\ files' \in [Gens -> [FileIds -> Builds \cup {Absent, Torn}]]
      /\ \A h \in Gens : h # g => files'[h] = files[h]
      /\ files'[g][i] = b
      /\ \A j \in FileIds : j # i => files'[g][j] = files[g][j]
  BY <1>2 DEF IInv, TypeOK
<1>4. NextFile(i) \in FileIds
  BY NAssumption DEF NextFile, FileIds, Index
<1> DEFINE c == IF i = Index THEN At("syncGen", g, b, Index) ELSE At("create", g, b, NextFile(i))
<1>5. /\ writer' = [writer EXCEPT ![x] = c]
      /\ writer'[x] = c
      /\ \A w \in Writers : w # x => writer'[w] = writer[w]
  <2>1. Gen(x) = g /\ Build(x) = b /\ writer[x].at = i
    BY <1>1 DEF Gen, Build, At
  <2>2. writer' = [writer EXCEPT ![x] = c]
    BY <2>1 DEF WriteFile
  <2> HIDE DEF c
  <2>3. QED
    BY <2>2 DEF IInv, TypeOK
<1>6. TypeOK'
  <2>1. writer'[x] \in WriterStates
    BY <1>4, <1>5, NAssumption DEF At, WriterStates, WriterSteps, FileIds, Index
  <2> HIDE DEF c
  <2>2. writer' \in [Writers -> WriterStates]
    BY <2>1, <1>5 DEF IInv, TypeOK
  <2>3. QED
    BY <2>2, <1>2, <1>3 DEF IInv, TypeOK
<1>7. MayTouch(x, g) /\ Leaves(x, g)
  BY <1>1, <1>2, <1>3, <1>5, SeqType DEF IInv, TypeOK, MayTouch, Leaves, At, Owns, WriterSteps
<1>8. WriterOK(x)'
  <2>1. g \in made /\ \A j \in FileIds : Before(j, i) => files[g][j] = b
    BY <1>1 DEF IInv, WriterOK, At, WriterSteps
  <2>2. \A j \in FileIds : Before(j, i) \/ j = i => files'[g][j] = b
    BY <2>1, <1>3
  <2>3. CASE i = Index
    <3>1. \A j \in FileIds : files'[g][j] = b
      BY <2>2, <2>3 DEF Before
    <3>2. QED
      BY <3>1, <2>1, <2>3, <1>2, <1>5 DEF WriterOK, At, WriterSteps
  <2>4. CASE i # Index
    <3>1. \A j \in FileIds : Before(j, NextFile(i)) => Before(j, i) \/ j = i
      BY <2>4, NAssumption DEF Before, NextFile, FileIds, Index
    <3>2. \A j \in FileIds : Before(j, NextFile(i)) => files'[g][j] = b
      BY <3>1, <2>2
    <3>3. QED
      BY <3>2, <2>1, <2>4, <1>2, <1>5 DEF WriterOK, At, WriterSteps
  <2>5. QED
    BY <2>3, <2>4
<1>9. keptGens' \subseteq made'
  BY <1>2 DEF IInv, StoreOK
<1>10. QED
  BY <1>2, <1>6, <1>7, <1>8, <1>9, PrivateStep

\* sync_directory(generation) makes all of its files durable.
LEMMA SyncGenerationStep ==
  ASSUME IInv, NEW x \in Writers, SyncGeneration(x)
  PROVE  IInv'
<1>1. PICK g \in Gens, b \in Builds, i \in FileIds : writer[x] = At("syncGen", g, b, i)
  BY WriterShape DEF IInv, SyncGeneration, WriterSteps, At
<1>2. g \in made /\ \A j \in FileIds : files[g][j] = b
  BY <1>1 DEF IInv, WriterOK, At, WriterSteps
<1>3. /\ keptFiles' = [keptFiles EXCEPT ![g] = {j \in FileIds : files[g][j] # Absent}]
      /\ UNCHANGED <<made, files, tmp, root, keptGens, disk, reader, acked>>
  BY <1>1 DEF SyncGeneration, Gen, At
<1>4. /\ keptFiles' \in [Gens -> SUBSET FileIds]
      /\ keptFiles'[g] = FileIds
      /\ \A h \in Gens : h # g => keptFiles'[h] = keptFiles[h]
  BY <1>2, <1>3, MarkAssumption DEF IInv, TypeOK
<1>5. /\ writer'[x] = At("syncGens", g, b, i)
      /\ \A w \in Writers : w # x => writer'[w] = writer[w]
      /\ writer' \in [Writers -> WriterStates]
  BY <1>1 DEF IInv, TypeOK, SyncGeneration, Goto, At, WriterStates, WriterSteps
<1>6. TypeOK'
  BY <1>3, <1>4, <1>5 DEF IInv, TypeOK
<1>7. MayTouch(x, g) /\ Leaves(x, g)
  BY <1>1, <1>3, <1>4, <1>5, SeqType DEF IInv, TypeOK, MayTouch, Leaves, At, Owns, WriterSteps
<1>8. WriterOK(x)'
  BY <1>2, <1>3, <1>4, <1>5 DEF WriterOK, At, WriterSteps
<1>9. keptGens' \subseteq made'
  BY <1>3 DEF IInv, StoreOK
<1>10. QED
  BY <1>3, <1>6, <1>7, <1>8, <1>9, PrivateStep

\* sync_directory(generations) makes its entry durable.
LEMMA SyncGenerationsStep ==
  ASSUME IInv, NEW x \in Writers, SyncGenerations(x)
  PROVE  IInv'
<1>1. PICK g \in Gens, b \in Builds, i \in FileIds : writer[x] = At("syncGens", g, b, i)
  BY WriterShape DEF IInv, SyncGenerations, WriterSteps, At
<1>2. g \in made /\ keptFiles[g] = FileIds /\ \A j \in FileIds : files[g][j] = b
  BY <1>1 DEF IInv, WriterOK, At, WriterSteps
<1>3. /\ keptGens' = made
      /\ UNCHANGED <<made, files, tmp, root, keptFiles, disk, reader, acked>>
  BY DEF SyncGenerations
<1>4. /\ writer'[x] = At("createTmp", g, b, i)
      /\ \A w \in Writers : w # x => writer'[w] = writer[w]
      /\ writer' \in [Writers -> WriterStates]
  BY <1>1 DEF IInv, TypeOK, SyncGenerations, Goto, At, WriterStates, WriterSteps
<1>5. TypeOK'
  BY <1>3, <1>4 DEF IInv, TypeOK
<1>6. MayTouch(x, g) /\ Leaves(x, g)
  BY <1>1, <1>3, <1>4, SeqType DEF IInv, TypeOK, StoreOK, MayTouch, Leaves, At, Owns, WriterSteps
<1>7. WriterOK(x)'
  BY <1>2, <1>3, <1>4 DEF WriterOK, At, WriterSteps
<1>8. QED
  BY <1>3, <1>5, <1>6, <1>7, PrivateStep

\* The two steps that write the pending manifest.
LEMMA TmpStep ==
  ASSUME IInv, NEW x \in Writers, CreateTmp(x) \/ WriteTmp(x)
  PROVE  IInv'
<1>1. PICK g \in Gens, b \in Builds, i \in FileIds, pc \in {"createTmp", "writeTmp"} :
        writer[x] = At(pc, g, b, i)
  BY WriterShape DEF IInv, CreateTmp, WriteTmp, WriterSteps, At
<1>2. g \in made /\ g \in keptGens /\ keptFiles[g] = FileIds /\ \A j \in FileIds : files[g][j] = b
  BY <1>1 DEF IInv, WriterOK, At, WriterSteps
<1>3. PICK t \in {Torn, b} : /\ tmp' = [tmp EXCEPT ![g] = t]
                             /\ pc = "writeTmp" => t = b
  BY <1>1 DEF CreateTmp, WriteTmp, Gen, Build, At
<1>4. UNCHANGED <<made, files, root, keptGens, keptFiles, disk, reader, acked>>
  BY DEF CreateTmp, WriteTmp
<1>5. /\ writer'[x] = At(IF pc = "createTmp" THEN "writeTmp" ELSE "rename", g, b, i)
      /\ \A w \in Writers : w # x => writer'[w] = writer[w]
      /\ writer' \in [Writers -> WriterStates]
  BY <1>1 DEF IInv, TypeOK, CreateTmp, WriteTmp, Goto, At, WriterStates, WriterSteps
<1>6. /\ tmp' \in [Gens -> Builds \cup {Absent, Torn}]
      /\ tmp'[g] = t
      /\ \A h \in Gens : h # g => tmp'[h] = tmp[h]
  BY <1>3 DEF IInv, TypeOK
<1>7. TypeOK'
  BY <1>4, <1>5, <1>6 DEF IInv, TypeOK
<1>8. MayTouch(x, g) /\ Leaves(x, g)
  <2>1. MayTouch(x, g)
    BY <1>1 DEF MayTouch, At, Owns, WriterSteps
  <2>2. \A h \in Gens : Owns(x, h)' => h = g
    BY <1>5 DEF Owns, At
  <2>3. QED
    BY <1>4, <1>5, <1>6, <2>1, <2>2, SeqType DEF IInv, TypeOK, Leaves
<1>9. WriterOK(x)'
  <2>1. CASE pc = "createTmp"
    BY <2>1, <1>2, <1>4, <1>5 DEF WriterOK, At, WriterSteps
  <2>2. CASE pc = "writeTmp"
    BY <2>2, <1>2, <1>3, <1>4, <1>5, <1>6 DEF WriterOK, At, WriterSteps
  <2>3. QED
    BY <2>1, <2>2
<1>10. keptGens' \subseteq made'
  BY <1>4 DEF IInv, StoreOK
<1>11. QED
  BY <1>4, <1>7, <1>8, <1>9, <1>10, PrivateStep

\* The rename publishes a generation that is whole and durable, and gives up
\* the writer's claim on it.
LEMMA RenameStep ==
  ASSUME IInv, NEW x \in Writers, Rename(x)
  PROVE  IInv'
<1>1. PICK g \in Gens, b \in Builds, i \in FileIds : writer[x] = At("rename", g, b, i)
  BY WriterShape DEF IInv, Rename, WriterSteps, At
<1>2. /\ g \in made /\ g \in keptGens /\ keptFiles[g] = FileIds /\ tmp[g] = b
      /\ \A j \in FileIds : files[g][j] = b
  BY <1>1 DEF IInv, WriterOK, At, WriterSteps
<1> DEFINE n == SeqOf(root) + 1
           new == [gen |-> g, build |-> b, seq |-> n]
<1>3. /\ SeqOf(root) \in Nat /\ n \in Nat /\ SeqOf(root) <= n
      /\ new \in Manifests /\ new # Nothing /\ SeqOf(new) = n
      /\ new.gen = g /\ new.build = b
  BY SeqType, NothingAssumption DEF IInv, TypeOK, Manifests, SeqOf
<1>4. /\ root' = new /\ disk' = disk \cup {new}
      /\ tmp' = [tmp EXCEPT ![g] = Absent]
      /\ writer' = [writer EXCEPT ![x] = Renamed(n)]
      /\ UNCHANGED <<made, files, keptGens, keptFiles, reader, acked>>
  BY <1>1, <1>2 DEF Rename, Gen, At
<1> HIDE DEF n, new
<1>5. /\ writer' \in [Writers -> WriterStates]
      /\ writer'[x].pc = "syncRoot" /\ writer'[x].seq = n
      /\ \A w \in Writers : w # x => writer'[w] = writer[w]
  BY <1>3, <1>4 DEF IInv, TypeOK, Renamed, WriterStates
<1>6. TypeOK'
  <2>1. tmp' \in [Gens -> Builds \cup {Absent, Torn}]
    BY <1>4 DEF IInv, TypeOK
  <2>2. QED
    BY <2>1, <1>3, <1>4, <1>5 DEF IInv, TypeOK
<1>7. MayTouch(x, g) /\ Leaves(x, g)
  <2>1. MayTouch(x, g)
    BY <1>1 DEF MayTouch, At, Owns, WriterSteps
  <2>2. \A h \in Gens : h # g => tmp'[h] = tmp[h]
    BY <1>4 DEF IInv, TypeOK
  <2>3. \A h \in Gens : ~Owns(x, h)'
    BY <1>5 DEF Owns, WriterSteps
  <2>4. QED
    BY <2>1, <2>2, <2>3, <1>3, <1>4, <1>5 DEF Leaves
<1>8. /\ \A w \in Writers : w # x => WriterOK(w)'
      /\ \A m \in Manifests \cup {Nothing} : Good(m) => Good(m)'
      /\ Exclusive'
  BY <1>3, <1>4, <1>7, Framed
<1>9. WriterOK(x)'
  <2>1. SeqOf(root)' = n
    BY <1>3, <1>4 DEF SeqOf
  <2>2. n <= n
    BY <1>3
  <2>3. QED
    BY <2>1, <2>2, <1>5 DEF WriterOK, WriterSteps
<1>10. Good(root)'
  <2>1. \A w \in Writers : w # x => ~Owns(w, g)
    BY <1>1 DEF IInv, Exclusive, Owns, At, WriterSteps
  <2>2. Whole(root)' /\ root'.gen = g
    BY <1>2, <1>3, <1>4 DEF Whole
  <2>3. \A w \in Writers : ~Owns(w, root.gen)'
    BY <2>1, <2>2, <1>5 DEF Owns, WriterSteps
  <2>4. QED
    BY <2>2, <2>3, <1>2, <1>4 DEF Good
<1>11. StoreOK'
  <2>1. root' \in disk' /\ keptGens' \subseteq made'
    BY <1>4 DEF IInv, StoreOK
  <2>2. ASSUME NEW m \in disk PROVE Good(m)' /\ SeqOf(m) >= acked'
    BY <2>2, <1>4, <1>8 DEF IInv, StoreOK, TypeOK
  <2>3. SeqOf(root)' >= acked'
    <3>1. SeqOf(root) >= acked /\ acked \in Nat
      BY DEF IInv, StoreOK, TypeOK
    <3>2. SeqOf(root)' = n
      BY <1>3, <1>4 DEF SeqOf
    <3>3. QED
      BY <3>1, <3>2, <1>3, <1>4
  <2>4. ASSUME NEW m \in disk' PROVE Good(m)' /\ SeqOf(m) >= acked'
    <3>1. CASE m \in disk
      BY <3>1, <2>2
    <3>2. CASE m = root'
      BY <3>2, <1>10, <2>3 DEF Good, SeqOf, Whole, Owns
    <3>3. QED
      BY <3>1, <3>2, <1>4
  <2>5. QED
    BY <2>1, <2>4 DEF StoreOK, SeqOf
<1>12. ASSUME NEW r \in Readers PROVE ReaderOK(r)'
  <2> SUFFICES ASSUME reader[r].pc # "idle" PROVE ReaderOK(r)'
    BY <1>4 DEF ReaderOK
  <2>1. PICK m \in Manifests : m = reader[r].pin
    BY ReaderShape DEF IInv
  <2>2. Good(m)'
    BY <2>1, <1>8 DEF IInv, ReaderOK
  <2>3. reader'[r].pin = m
    BY <2>1, <1>4
  <2>4. QED
    BY <2>2, <2>3, <1>4 DEF IInv, ReaderOK, Good, Whole, Owns
<1>13. QED
  BY <1>6, <1>8, <1>9, <1>11, <1>12 DEF IInv

\* A writer that is gone claims nothing; everybody else keeps what they have.
LEMMA Quit ==
  ASSUME IInv, NEW x \in Writers, writer' = [writer EXCEPT ![x] = Idle],
         UNCHANGED <<made, files, root, keptGens, keptFiles>>,
         \A h \in Gens : tmp'[h] = tmp[h] \/ Owns(x, h)
  PROVE  /\ writer' \in [Writers -> WriterStates]
         /\ \A w \in Writers : WriterOK(w)'
         /\ \A m \in Manifests \cup {Nothing} : Good(m) => Good(m)'
         /\ Exclusive'
<1>1. /\ writer' \in [Writers -> WriterStates]
      /\ writer'[x].pc = "idle"
      /\ \A w \in Writers : w # x => writer'[w] = writer[w]
  BY DEF IInv, TypeOK, WriterStates, Idle
<1>2. \A w \in Writers, h \in Gens : Owns(w, h)' => Owns(w, h) /\ w # x
  BY <1>1 DEF Owns, WriterSteps
<1>3. ASSUME NEW w \in Writers PROVE WriterOK(w)'
  <2>1. CASE w = x
    BY <2>1, <1>1 DEF WriterOK, WriterSteps
  <2>2. CASE w # x
    <3>1. writer[w].pc \in WriterSteps => writer[w].gen \in Gens /\ ~Owns(x, writer[w].gen)
      BY <2>2, WriterShape DEF IInv, Exclusive, Owns
    <3>2. writer[w].pc = "rename" => tmp'[writer[w].gen] = tmp[writer[w].gen]
      BY <3>1 DEF WriterSteps
    <3>3. WriterOK(w) /\ writer'[w] = writer[w]
      BY <2>2, <1>1 DEF IInv
    <3>4. QED
      BY <3>2, <3>3 DEF WriterOK, SeqOf
  <2>3. QED
    BY <2>1, <2>2
<1>4. ASSUME NEW m \in Manifests \cup {Nothing}, Good(m) PROVE Good(m)'
  <2>1. m # Nothing => m.gen \in Gens
    BY DEF Manifests
  <2>2. QED
    BY <1>2, <1>4, <2>1 DEF Good, Whole
<1>5. Exclusive'
  BY <1>2 DEF IInv, Exclusive
<1>6. QED
  BY <1>1, <1>3, <1>4, <1>5

\* A failed rename and a writer that dies leave the store as it is.
LEMMA AbandonStep ==
  ASSUME IInv, NEW x \in Writers, RenameFails(x) \/ Abandon(x)
  PROVE  IInv'
<1>1. /\ writer' = [writer EXCEPT ![x] = Idle]
      /\ UNCHANGED <<made, files, root, keptGens, keptFiles, disk, reader, acked>>
  BY DEF RenameFails, Abandon, store
<1>2. tmp' \in [Gens -> Builds \cup {Absent, Torn}] /\ \A h \in Gens : tmp'[h] = tmp[h] \/ Owns(x, h)
  BY DEF IInv, TypeOK, RenameFails, Abandon, store, Gen, Owns, WriterSteps
<1>3. /\ writer' \in [Writers -> WriterStates]
      /\ \A w \in Writers : WriterOK(w)'
      /\ \A m \in Manifests \cup {Nothing} : Good(m) => Good(m)'
      /\ Exclusive'
  BY <1>1, <1>2, Quit
<1>4. TypeOK'
  BY <1>1, <1>2, <1>3 DEF IInv, TypeOK
<1>5. keptGens' \subseteq made'
  BY <1>1 DEF IInv, StoreOK
<1>6. StoreOK' /\ \A r \in Readers : ReaderOK(r)'
  BY <1>1, <1>3, <1>5, Unpublished
<1>7. QED
  BY <1>3, <1>4, <1>6 DEF IInv

\* After sync_directory(root) only the current manifest can come back.
LEMMA SyncRootStep ==
  ASSUME IInv, NEW x \in Writers, SyncRoot(x)
  PROVE  IInv'
<1>1. /\ writer[x].pc = "syncRoot" /\ writer' = [writer EXCEPT ![x] = Idle]
      /\ disk' = {root}
      /\ acked' = IF writer[x].seq > acked THEN writer[x].seq ELSE acked
      /\ UNCHANGED <<made, files, tmp, root, keptGens, keptFiles, reader>>
  BY DEF SyncRoot
<1>2. /\ writer' \in [Writers -> WriterStates]
      /\ \A w \in Writers : WriterOK(w)'
      /\ \A m \in Manifests \cup {Nothing} : Good(m) => Good(m)'
      /\ Exclusive'
  BY <1>1, Quit
<1>3. /\ root \in Manifests \cup {Nothing} /\ root \in disk /\ Good(root)
      /\ SeqOf(root) \in Nat /\ SeqOf(root) >= acked /\ acked \in Nat
      /\ writer[x].seq <= SeqOf(root) /\ writer[x].seq \in Nat
  BY <1>1, SeqType, WriterShape DEF IInv, TypeOK, StoreOK, WriterOK
<1>4. acked' \in Nat /\ SeqOf(root) >= acked'
  BY <1>1, <1>3
<1>5. TypeOK'
  BY <1>1, <1>2, <1>3, <1>4 DEF IInv, TypeOK
<1>6. StoreOK'
  <2>1. PICK m \in Manifests \cup {Nothing} : m = root
    BY <1>3
  <2>2. Good(m)' /\ root' = m /\ disk' = {m} /\ SeqOf(m) >= acked'
    BY <2>1, <1>1, <1>2, <1>3, <1>4
  <2>3. QED
    BY <2>2, <1>1 DEF IInv, StoreOK, SeqOf
<1>7. ASSUME NEW r \in Readers PROVE ReaderOK(r)'
  <2> SUFFICES ASSUME reader[r].pc # "idle" PROVE ReaderOK(r)'
    BY <1>1 DEF ReaderOK
  <2>1. PICK m \in Manifests : m = reader[r].pin
    BY ReaderShape DEF IInv
  <2>2. Good(m)'
    BY <2>1, <1>2 DEF IInv, ReaderOK
  <2>3. reader'[r].pin = m
    BY <2>1, <1>1
  <2>4. QED
    BY <2>2, <2>3, <1>1 DEF IInv, ReaderOK, Good, Whole, Owns
<1>8. QED
  BY <1>2, <1>5, <1>6, <1>7 DEF IInv

---------------------------------------------------------------------------
(* read_manifest, read_artifacts, and the power loss. *)

\* A step of reader r disturbs nobody else.
LEMMA ReaderFrame ==
  ASSUME IInv, NEW r \in Readers, UNCHANGED <<store, writer, acked>>,
         reader' \in [Readers -> ReaderStates],
         \A q \in Readers : q # r => reader'[q] = reader[q],
         ReaderOK(r)'
  PROVE  IInv'
<1>1. TypeOK'
  BY DEF IInv, TypeOK, store
<1>2. (\A w \in Writers : WriterOK(w)') /\ Exclusive'
  BY DEF IInv, WriterOK, Exclusive, Owns, SeqOf, store
<1>3. StoreOK'
  BY DEF IInv, StoreOK, Good, Whole, Owns, SeqOf, store
<1>4. ASSUME NEW q \in Readers PROVE ReaderOK(q)'
  <2>1. CASE q = r
    BY <2>1
  <2>2. CASE q # r
    BY <2>2 DEF IInv, ReaderOK, Good, Whole, Owns, store
  <2>3. QED
    BY <2>1, <2>2
<1>5. QED
  BY <1>1, <1>2, <1>3, <1>4 DEF IInv

\* A pinned manifest is the current one, which is whole.
LEMMA ReadManifestStep ==
  ASSUME IInv, NEW r \in Readers, ReadManifest(r)
  PROVE  IInv'
<1>1. /\ root \in Manifests /\ Good(root)
      /\ reader' = [reader EXCEPT ![r] = [pc |-> "manifest", pin |-> root, got |-> <<>>]]
      /\ UNCHANGED <<store, writer, acked>>
  BY DEF IInv, TypeOK, StoreOK, ReadManifest, IsManifest
<1>2. PICK m \in Manifests : m = root
  BY <1>1
<1>3. /\ reader' \in [Readers -> ReaderStates]
      /\ reader'[r].pc = "manifest" /\ reader'[r].pin = m /\ reader'[r].got = <<>>
      /\ \A q \in Readers : q # r => reader'[q] = reader[q]
  BY <1>1, <1>2 DEF IInv, TypeOK, ReaderStates
<1>4. Good(m)'
  BY <1>1, <1>2 DEF Good, Whole, Owns, store
<1>5. ReaderOK(r)'
  BY <1>3, <1>4 DEF ReaderOK, Good, Whole, Owns
<1>6. QED
  BY <1>1, <1>3, <1>5, ReaderFrame

\* The generation of a pinned manifest holds what the manifest records.
LEMMA PinnedWhole ==
  ASSUME IInv, NEW r \in Readers, reader[r].pc # "idle"
  PROVE  /\ reader[r].pin \in Manifests /\ Good(reader[r].pin)
         /\ reader[r].pin.build \in Builds
         /\ \A i \in FileIds : files[reader[r].pin.gen][i] = reader[r].pin.build
<1>1. reader[r].pin \in Manifests /\ Good(reader[r].pin)
  BY ReaderShape DEF IInv, ReaderOK
<1>2. QED
  BY <1>1, NothingAssumption DEF Good, Whole, Manifests

\* The generation's copy of the manifest is the pinned one.
LEMMA CompareManifestStep ==
  ASSUME IInv, NEW r \in Readers, CompareManifest(r)
  PROVE  IInv'
<1>1. reader[r].pc = "manifest" /\ reader[r].pc # "idle"
  BY DEF CompareManifest
<1>2. PICK m \in Manifests : m = reader[r].pin
  BY <1>1, PinnedWhole
<1>3. Good(m) /\ files[m.gen][Index] = m.build
  BY <1>1, <1>2, PinnedWhole, NAssumption DEF FileIds, Index
<1> DEFINE pc == IF N = 0 THEN "ok" ELSE "file"
<1>4. reader' = [reader EXCEPT ![r].pc = pc] /\ UNCHANGED <<store, writer, acked>>
  BY <1>2, <1>3 DEF CompareManifest
<1>5. pc \in {"ok", "file"} /\ (pc = "file" => N > 0)
  BY NAssumption
<1> HIDE DEF pc
<1>6. /\ reader' \in [Readers -> ReaderStates]
      /\ reader'[r].pc = pc /\ reader'[r].pin = m /\ reader'[r].got = reader[r].got
      /\ \A q \in Readers : q # r => reader'[q] = reader[q]
  <2>1. reader[r] \in [pc : {"manifest", "file", "ok", "rejected"}, pin : Manifests, got : Seq(Builds)]
    BY <1>1, ReaderShape DEF IInv
  <2>2. [reader[r] EXCEPT !.pc = pc] \in ReaderStates
    BY <2>1, <1>5 DEF ReaderStates
  <2>3. QED
    BY <2>1, <2>2, <1>2, <1>4 DEF IInv, TypeOK
<1>7. Good(m)'
  BY <1>3, <1>4 DEF Good, Whole, Owns, store
<1>8. reader[r].got = <<>>
  BY <1>1 DEF IInv, ReaderOK
<1>9. ReaderOK(r)'
  <2>1. (pc = "ok" => N = 0) /\ Len(reader'[r].got) = 0
    BY <1>6, <1>8 DEF pc
  <2>2. QED
    BY <2>1, <1>5, <1>6, <1>7, <1>8, NAssumption DEF ReaderOK, Good, Whole, Owns
<1>10. QED
  BY <1>4, <1>6, <1>9, ReaderFrame

\* Each artifact has the recorded checksum.
LEMMA ReadArtifactStep ==
  ASSUME IInv, NEW r \in Readers, ReadArtifact(r)
  PROVE  IInv'
<1>1. reader[r].pc = "file" /\ reader[r].pc # "idle"
  BY DEF ReadArtifact
<1>2. PICK m \in Manifests : m = reader[r].pin
  BY <1>1, PinnedWhole
<1>3. PICK s \in Seq(Builds) : s = reader[r].got /\ Len(s) < N /\ Len(s) \in Nat
  BY <1>1, ReaderShape DEF IInv, ReaderOK
<1>4. Len(s) + 1 \in FileIds
  BY <1>3, NAssumption DEF FileIds
<1>5. Good(m) /\ m.build \in Builds /\ files[m.gen][Len(s) + 1] = m.build
  BY <1>1, <1>2, <1>4, PinnedWhole
<1> DEFINE pc == IF Len(s) + 1 = N THEN "ok" ELSE "file"
           t == Append(s, m.build)
<1>6. /\ reader' = [reader EXCEPT ![r] = [pc |-> pc, pin |-> m, got |-> t]]
      /\ UNCHANGED <<store, writer, acked>>
  BY <1>2, <1>3, <1>5 DEF ReadArtifact
<1>7. /\ t \in Seq(Builds) /\ Len(t) = Len(s) + 1
      /\ pc = "file" => Len(t) < N
      /\ pc = "ok" => Len(t) = N
      /\ \A k \in 1..Len(t) : t[k] = m.build
  <2>1. \A k \in 1..Len(s) : s[k] = m.build
    BY <1>1, <1>2, <1>3 DEF IInv, ReaderOK
  <2>2. QED
    BY <2>1, <1>3, <1>5, NAssumption
<1>8. pc \in {"ok", "file"}
  OBVIOUS
<1> HIDE DEF pc, t
<1>9. /\ reader' \in [Readers -> ReaderStates]
      /\ reader'[r].pc = pc /\ reader'[r].pin = m /\ reader'[r].got = t
      /\ \A q \in Readers : q # r => reader'[q] = reader[q]
  BY <1>6, <1>7, <1>8 DEF IInv, TypeOK, ReaderStates
<1>10. Good(m)'
  BY <1>5, <1>6 DEF Good, Whole, Owns, store
<1>11. ReaderOK(r)'
  BY <1>7, <1>8, <1>9, <1>10 DEF ReaderOK, Good, Whole, Owns
<1>12. QED
  BY <1>6, <1>9, <1>11, ReaderFrame

\* A verification that ends pins nothing.
LEMMA ReaderEndStep ==
  ASSUME IInv, NEW r \in Readers, Emit(r) \/ GiveUp(r)
  PROVE  IInv'
<1>1. reader' = [reader EXCEPT ![r] = Idle] /\ UNCHANGED <<store, writer, acked>>
  BY DEF Emit, GiveUp
<1>2. /\ reader' \in [Readers -> ReaderStates]
      /\ reader'[r].pc = "idle"
      /\ \A q \in Readers : q # r => reader'[q] = reader[q]
  BY <1>1 DEF IInv, TypeOK, ReaderStates, Idle
<1>3. ReaderOK(r)'
  BY <1>2 DEF ReaderOK
<1>4. QED
  BY <1>1, <1>2, <1>3, ReaderFrame

\* A power loss takes nothing a readable manifest relies on.
LEMMA PowerLossStep ==
  ASSUME IInv, PowerLoss
  PROVE  IInv'
<1>1. PICK lostGens \in SUBSET (made \ keptGens), lost \in SUBSET AtRisk :
        /\ made' = made \ lostGens
        /\ files' = [g \in Gens |-> [i \in FileIds |->
             IF g \in lostGens \/ <<g, i>> \in lost THEN Absent ELSE files[g][i]]]
  BY DEF PowerLoss
<1>2. PICK m \in disk : root' = m /\ disk' = {m}
  BY DEF PowerLoss
<1>3. /\ keptGens' = made'
      /\ keptFiles' = [g \in Gens |-> {i \in FileIds : files'[g][i] # Absent}]
      /\ writer' = [w \in Writers |-> Idle]
      /\ reader' = [r \in Readers |-> Idle]
      /\ UNCHANGED <<tmp, acked>>
  BY DEF PowerLoss
<1>4. m \in Manifests \cup {Nothing} /\ Good(m) /\ SeqOf(m) >= acked
  BY DEF IInv, StoreOK, TypeOK
<1>5. TypeOK'
  <2>1. files' \in [Gens -> [FileIds -> Builds \cup {Absent, Torn}]]
    BY <1>1 DEF IInv, TypeOK
  <2>2. keptFiles' \in [Gens -> SUBSET FileIds]
    BY <1>3
  <2>3. Idle \in WriterStates /\ Idle \in ReaderStates
    BY DEF WriterStates, ReaderStates
  <2>4. QED
    BY <2>1, <2>2, <2>3, <1>1, <1>2, <1>3, <1>4 DEF IInv, TypeOK
<1>6. /\ \A w \in Writers : writer'[w].pc = "idle"
      /\ \A r \in Readers : reader'[r].pc = "idle"
  BY <1>3 DEF Idle
<1>7. (\A w \in Writers : WriterOK(w)') /\ Exclusive' /\ \A r \in Readers : ReaderOK(r)'
  BY <1>6 DEF WriterOK, Exclusive, Owns, ReaderOK, WriterSteps
<1>8. Good(m)'
  <2> SUFFICES ASSUME m # Nothing
               PROVE  /\ \A i \in FileIds : files'[m.gen][i] = m.build
                      /\ m.gen \in keptGens' /\ keptFiles'[m.gen] = FileIds
    BY <1>6 DEF Good, Whole, Owns, WriterSteps
  <2>1. /\ m.gen \in Gens /\ m.build \in Builds /\ m.gen \in keptGens
        /\ keptFiles[m.gen] = FileIds /\ \A i \in FileIds : files[m.gen][i] = m.build
    BY <1>4 DEF Manifests, Good, Whole
  <2>2. m.gen \notin lostGens /\ m.gen \in made'
    BY <2>1, <1>1 DEF IInv, StoreOK
  <2>3. ASSUME NEW i \in FileIds PROVE <<m.gen, i>> \notin lost
    <3>1. i \in keptFiles[m.gen]
      BY <2>1
    <3>2. QED
      BY <3>1, <1>1 DEF AtRisk
  <2>4. \A i \in FileIds : files'[m.gen][i] = m.build
    BY <2>1, <2>2, <2>3, <1>1
  <2>5. keptFiles'[m.gen] = FileIds
    BY <2>1, <2>4, <1>3, MarkAssumption
  <2>6. QED
    BY <2>2, <2>4, <2>5, <1>3
<1>9. StoreOK'
  BY <1>2, <1>3, <1>4, <1>8 DEF StoreOK, SeqOf
<1>10. QED
  BY <1>5, <1>7, <1>9 DEF IInv

---------------------------------------------------------------------------
(* The theorems. *)

\* The inductive invariant: every writer's generation is as complete and as
\* durable as its step in publish() says, no two writers share one, and every
\* manifest that index.json shows, may show after a power loss, or that a
\* reader has pinned, names a whole, durable generation without a writer.
THEOREM Invariance == Spec => []IInv
<1>1. Init => IInv
  BY InitOK
<1>2. IInv /\ [Next]_vars => IInv'
  <2> SUFFICES ASSUME IInv, [Next]_vars PROVE IInv'
    OBVIOUS
  <2>1. CASE \E w \in Writers, b \in Builds, g \in Gens : Mkdir(w, b, g)
    BY <2>1, MkdirStep
  <2>2. CASE \E w \in Writers : WriterStep(w)
    BY <2>2, CreateFileStep, WriteFileStep, SyncGenerationStep, SyncGenerationsStep,
       TmpStep, RenameStep, SyncRootStep DEF WriterStep
  <2>3. CASE \E w \in Writers : RenameFails(w) \/ Abandon(w)
    BY <2>3, AbandonStep
  <2>4. CASE \E r \in Readers : ReadManifest(r) \/ ReaderStep(r) \/ GiveUp(r)
    BY <2>4, ReadManifestStep, CompareManifestStep, ReadArtifactStep, ReaderEndStep DEF ReaderStep
  <2>5. CASE PowerLoss
    BY <2>5, PowerLossStep
  <2>6. CASE UNCHANGED vars
    BY <2>6 DEF vars, store, IInv, TypeOK, WriterOK, Exclusive, StoreOK, ReaderOK,
       Good, Whole, Owns, SeqOf
  <2>7. QED
    BY <2>1, <2>2, <2>3, <2>4, <2>5, <2>6 DEF Next
<1>3. QED
  BY <1>1, <1>2, PTL DEF Spec

\* The type invariant of the generation store.
THEOREM TypeCorrect == Spec => []TypeOK
<1>1. IInv => TypeOK
  BY DEF IInv
<1>2. QED
  BY <1>1, Invariance, PTL

\* root/index.json never names a generation with a missing, torn or foreign
\* file, now or after a power loss, for any number of writers and artifacts.
THEOREM Published == Spec => []PublishedWhole
<1>1. IInv => PublishedWhole
  BY DEF IInv, StoreOK, Good, PublishedWhole, IsManifest
<1>2. QED
  BY <1>1, Invariance, PTL

\* read_artifacts() never rejects a manifest that publish() put in place.
THEOREM Readable == Spec => []NeverRejected
<1>1. IInv => NeverRejected
  BY DEF IInv, ReaderOK, NeverRejected
<1>2. QED
  BY <1>1, Invariance, PTL

\* What publish() acknowledged is never replaced by something older.
THEOREM Durable == Spec => []AckedSurvives
<1>1. IInv => AckedSurvives
  BY DEF IInv, StoreOK, AckedSurvives
<1>2. QED
  BY <1>1, Invariance, PTL

---------------------------------------------------------------------------
(* The store implements one cell that is replaced and read atomically. *)

\* What a readable manifest stands for: its build, once per artifact.
Snap(m) == IF m = Nothing THEN Nothing ELSE [i \in 1..N |-> m.build]

\* The refinement mapping without the files: every readable manifest's files
\* are the ones it records.
Mapped ==
  /\ Cell = Snap(root)
  /\ DiskCells = {Snap(m) : m \in disk}
  /\ Views = [r \in Readers |-> IF reader[r].pc = "idle" THEN Nothing ELSE Snap(reader[r].pin)]
  /\ Results = [r \in Readers |-> IF reader[r].pc = "ok" THEN Snap(reader[r].pin) ELSE Nothing]

LEMMA MappedOK == IInv => Mapped
<1> SUFFICES ASSUME IInv PROVE Mapped
  OBVIOUS
<1>1. ASSUME NEW m \in Manifests \cup {Nothing}, Good(m) PROVE Artifacts(m) = Snap(m)
  BY <1>1, NAssumption DEF Artifacts, Snap, Good, Whole, FileIds
<1>2. \A m \in disk : Artifacts(m) = Snap(m)
  BY <1>1 DEF IInv, TypeOK, StoreOK
<1>3. Cell = Snap(root) /\ DiskCells = {Snap(m) : m \in disk}
  BY <1>2 DEF Cell, DiskCells, IInv, StoreOK
<1>4. ASSUME NEW r \in Readers, reader[r].pc # "idle" PROVE Artifacts(reader[r].pin) = Snap(reader[r].pin)
  BY <1>1, <1>4, PinnedWhole
<1>5. ASSUME NEW r \in Readers, reader[r].pc = "ok" PROVE reader[r].got = Snap(reader[r].pin)
  <2>1. reader[r].pin \in Manifests /\ reader[r].got \in Seq(Builds)
    BY <1>5, ReaderShape DEF IInv
  <2>2. Len(reader[r].got) = N /\ \A k \in 1..N : reader[r].got[k] = reader[r].pin.build
    BY <1>5 DEF IInv, ReaderOK
  <2>3. Snap(reader[r].pin) = [i \in 1..N |-> reader[r].pin.build]
    BY <2>1, NothingAssumption DEF Snap
  <2>4. QED
    BY <2>1, <2>2, <2>3
<1>6. Views = [r \in Readers |-> IF reader[r].pc = "idle" THEN Nothing ELSE Snap(reader[r].pin)]
  BY <1>4 DEF Views
<1>7. Results = [r \in Readers |-> IF reader[r].pc = "ok" THEN Snap(reader[r].pin) ELSE Nothing]
  BY <1>5 DEF Results
<1>8. QED
  BY <1>3, <1>6, <1>7 DEF Mapped

\* A readable manifest stands for a snapshot.
LEMMA SnapShape ==
  ASSUME NEW m \in Manifests
  PROVE  Snap(m) \in Snapshots /\ Snap(m) # Nothing
<1>1. m # Nothing /\ m.build \in Builds
  BY NothingAssumption DEF Manifests
<1>2. QED
  BY <1>1, SnapshotAssumption DEF Snap, Snapshots

\* The rename of index.json is the atomic replacement.
LEMMA RenamePublishes ==
  ASSUME IInv, Mapped, Mapped', NEW x \in Writers, Rename(x)
  PROVE  \E s \in Snapshots : Promise!APublish(s)
<1>1. PICK g \in Gens, b \in Builds, i \in FileIds : writer[x] = At("rename", g, b, i)
  BY WriterShape DEF IInv, Rename, WriterSteps, At
<1>2. tmp[g] = b
  BY <1>1 DEF IInv, WriterOK, At
<1>3. SeqOf(root) + 1 \in Nat
  BY SeqType DEF IInv, TypeOK
<1>4. /\ root' = [gen |-> g, build |-> b, seq |-> SeqOf(root) + 1]
      /\ disk' = disk \cup {root'} /\ reader' = reader
  BY <1>1, <1>2 DEF Rename, Gen, At
<1>5. root' \in Manifests
  BY <1>3, <1>4 DEF Manifests
<1>6. Snap(root') \in Snapshots
  BY <1>5, SnapShape
<1>7. Cell' = Snap(root') /\ DiskCells' = DiskCells \cup {Snap(root')}
  BY <1>4 DEF Mapped
<1>8. Views' = Views /\ Results' = Results
  BY <1>4 DEF Mapped
<1>9. QED
  BY <1>6, <1>7, <1>8 DEF Promise!APublish

\* sync_directory(root) leaves the current manifest alone on the disk.
LEMMA SyncRootSyncs ==
  ASSUME IInv, Mapped, Mapped', NEW x \in Writers, SyncRoot(x)
  PROVE  Promise!ASync
<1>1. disk' = {root} /\ root' = root /\ reader' = reader
  BY DEF SyncRoot
<1>2. QED
  BY <1>1 DEF Mapped, Promise!ASync

\* Pinning the manifest is the atomic read; the artifacts that are opened
\* afterwards are the ones it was bound to.
LEMMA ReaderRefines ==
  ASSUME IInv, Mapped, Mapped', NEW r \in Readers,
         ReadManifest(r) \/ ReaderStep(r) \/ GiveUp(r)
  PROVE  Promise!ABegin(r) \/ Promise!AReturn(r) \/ Promise!ALeave(r) \/ UNCHANGED Promise!avars
<1>1. reader \in [Readers -> ReaderStates] /\ root' = root /\ disk' = disk
  BY DEF IInv, TypeOK, store, ReadManifest, ReaderStep, CompareManifest, ReadArtifact, Emit, GiveUp
<1>2. Cell' = Cell /\ DiskCells' = DiskCells
  BY <1>1 DEF Mapped
<1>3. CASE ReadManifest(r)
  <2>1. /\ reader[r].pc = "idle" /\ root \in Manifests
        /\ reader' = [reader EXCEPT ![r] = [pc |-> "manifest", pin |-> root, got |-> <<>>]]
    BY <1>3 DEF IInv, TypeOK, ReadManifest, IsManifest
  <2>2. /\ \A q \in Readers : q # r => reader'[q] = reader[q]
        /\ reader'[r].pc = "manifest" /\ reader'[r].pin = root
    BY <1>1, <2>1
  <2>3. Cell = Snap(root) /\ Snap(root) # Nothing
    BY <2>1, SnapShape DEF Mapped
  <2>4. Views[r] = Nothing /\ Views' = [Views EXCEPT ![r] = Cell]
    BY <2>1, <2>2, <2>3 DEF Mapped
  <2>5. Results' = Results
    BY <2>1, <2>2 DEF Mapped
  <2>6. QED
    BY <1>2, <2>3, <2>4, <2>5 DEF Promise!ABegin
<1>4. CASE CompareManifest(r) \/ ReadArtifact(r)
  <2>1. /\ \A q \in Readers : q # r => reader'[q] = reader[q]
        /\ reader[r].pc \in {"manifest", "file"} /\ reader'[r].pin = reader[r].pin
        /\ reader'[r].pc \in {"file", "ok", "rejected"} /\ reader[r].pin \in Manifests
    <3>1. reader[r].pc \in {"manifest", "file"} /\ \A q \in Readers : q # r => reader'[q] = reader[q]
      BY <1>1, <1>4 DEF CompareManifest, ReadArtifact
    <3>2. reader[r] \in [pc : {"manifest", "file", "ok", "rejected"}, pin : Manifests, got : Seq(Builds)]
      BY <3>1, ReaderShape DEF IInv
    <3>3. reader'[r].pc \in {"file", "ok", "rejected"} /\ reader'[r].pin = reader[r].pin
      BY <1>1, <1>4, <3>2 DEF CompareManifest, ReadArtifact
    <3>4. QED
      BY <3>1, <3>2, <3>3
  <2>2. Views' = Views /\ Views[r] = Snap(reader[r].pin) /\ Views[r] # Nothing
    BY <2>1, SnapShape DEF Mapped
  <2>3. CASE reader'[r].pc = "ok"
    <3>1. Results[r] = Nothing /\ Results' = [Results EXCEPT ![r] = Views[r]]
      BY <2>1, <2>2, <2>3 DEF Mapped
    <3>2. QED
      BY <1>2, <2>2, <3>1 DEF Promise!AReturn
  <2>4. CASE reader'[r].pc # "ok"
    <3>1. Results' = Results
      BY <2>1, <2>4 DEF Mapped
    <3>2. QED
      BY <1>2, <2>2, <3>1 DEF Promise!avars
  <2>5. QED
    BY <2>3, <2>4
<1>5. CASE Emit(r) \/ GiveUp(r)
  <2>1. /\ \A q \in Readers : q # r => reader'[q] = reader[q]
        /\ reader'[r].pc = "idle"
    BY <1>1, <1>5 DEF Emit, GiveUp, Idle
  <2>2. Views' = [Views EXCEPT ![r] = Nothing] /\ Results' = [Results EXCEPT ![r] = Nothing]
    BY <2>1 DEF Mapped
  <2>3. QED
    BY <1>2, <2>2 DEF Promise!ALeave
<1>6. QED
  BY <1>3, <1>4, <1>5 DEF ReaderStep

\* After a power loss the cell holds what the disk may have held.
LEMMA PowerLossRefines ==
  ASSUME IInv, Mapped, Mapped', PowerLoss
  PROVE  Promise!APowerLoss
<1>1. PICK m \in disk : root' = m /\ disk' = {m}
  BY DEF PowerLoss
<1>2. reader' = [r \in Readers |-> Idle]
  BY DEF PowerLoss
<1>3. Cell' \in DiskCells /\ DiskCells' = {Cell'}
  BY <1>1 DEF Mapped
<1>4. Views' = [r \in Readers |-> Nothing] /\ Results' = [r \in Readers |-> Nothing]
  BY <1>2 DEF Mapped, Idle
<1>5. QED
  BY <1>3, <1>4 DEF Promise!APowerLoss

\* A directory of generations behaves as one cell, replaced and read
\* atomically, for any number of writers, readers, generations and artifacts:
\* a failed or killed publish() is as if it had not been called.
THEOREM Refinement == Spec => Implements
<1>1. Init => Promise!AInit
  BY DEF Init, Promise!AInit, Cell, DiskCells, Views, Results, Artifacts, Idle
<1>2. IInv /\ Mapped /\ Mapped' /\ [Next]_vars => [Promise!ANext]_(Promise!avars)
  <2> SUFFICES ASSUME IInv, Mapped, Mapped', [Next]_vars
               PROVE  [Promise!ANext]_(Promise!avars)
    OBVIOUS
  <2>1. CASE UNCHANGED <<root, disk, reader>>
    BY <2>1 DEF Mapped, Promise!avars
  <2>2. CASE \E w \in Writers : Rename(w)
    BY <2>2, RenamePublishes DEF Promise!ANext
  <2>3. CASE \E w \in Writers : SyncRoot(w)
    BY <2>3, SyncRootSyncs DEF Promise!ANext
  <2>4. CASE \E r \in Readers : ReadManifest(r) \/ ReaderStep(r) \/ GiveUp(r)
    BY <2>4, ReaderRefines DEF Promise!ANext
  <2>5. CASE PowerLoss
    BY <2>5, PowerLossRefines DEF Promise!ANext
  <2>6. ASSUME NEW w \in Writers,
               \/ \E b \in Builds, g \in Gens : Mkdir(w, b, g)
               \/ CreateFile(w) \/ WriteFile(w) \/ SyncGeneration(w) \/ SyncGenerations(w)
               \/ CreateTmp(w) \/ WriteTmp(w) \/ RenameFails(w) \/ Abandon(w)
        PROVE  UNCHANGED <<root, disk, reader>>
    BY <2>6 DEF Mkdir, CreateFile, WriteFile, SyncGeneration, SyncGenerations, CreateTmp, WriteTmp,
       RenameFails, Abandon, store
  <2>7. UNCHANGED vars => UNCHANGED <<root, disk, reader>>
    BY DEF vars, store
  <2>8. QED
    BY <2>1, <2>2, <2>3, <2>4, <2>5, <2>6, <2>7 DEF Next, WriterStep
<1>3. QED
  BY <1>1, <1>2, MappedOK, Invariance, PTL DEF Spec, Implements, Promise!ASpec
=============================================================================
