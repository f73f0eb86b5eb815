--------------------------- MODULE SnapshotStore ---------------------------
(***************************************************************************)
(* What a generation store promises: one cell that holds a whole snapshot, *)
(* replaced atomically, read atomically, and never rolled back past a      *)
(* replacement that was made durable.  No file, no generation and no       *)
(* writer is visible here; IndexPublish is shown to implement this.        *)
(***************************************************************************)
CONSTANTS Readers,      \* the processes that read
          Snapshots,    \* the whole snapshots a publication can install
          Nothing       \* no snapshot: nothing published, nothing read

VARIABLES cell,         \* what a reader that starts now will get
          disk,         \* what the cell may hold after a power loss
          view,         \* what each reader in progress is bound to
          result        \* what each reader that finished returned

avars == <<cell, disk, view, result>>

AInit ==
  /\ cell = Nothing
  /\ disk = {Nothing}
  /\ view = [r \in Readers |-> Nothing]
  /\ result = [r \in Readers |-> Nothing]

APublish(s) ==
  /\ cell' = s
  /\ disk' = disk \cup {s}
  /\ UNCHANGED <<view, result>>

ASync ==
  /\ disk' = {cell}
  /\ UNCHANGED <<cell, view, result>>

ABegin(r) ==
  /\ view[r] = Nothing
  /\ cell # Nothing
  /\ view' = [view EXCEPT ![r] = cell]
  /\ UNCHANGED <<cell, disk, result>>

AReturn(r) ==
  /\ view[r] # Nothing
  /\ result[r] = Nothing
  /\ result' = [result EXCEPT ![r] = view[r]]
  /\ UNCHANGED <<cell, disk, view>>

ALeave(r) ==
  /\ view' = [view EXCEPT ![r] = Nothing]
  /\ result' = [result EXCEPT ![r] = Nothing]
  /\ UNCHANGED <<cell, disk>>

APowerLoss ==
  /\ cell' \in disk
  /\ disk' = {cell'}
  /\ view' = [r \in Readers |-> Nothing]
  /\ result' = [r \in Readers |-> Nothing]

ANext ==
  \/ \E s \in Snapshots : APublish(s)
  \/ ASync
  \/ \E r \in Readers : ABegin(r) \/ AReturn(r) \/ ALeave(r)
  \/ APowerLoss

ASpec == AInit /\ [][ANext]_avars
=============================================================================
