------------------------------ MODULE Snapshot ------------------------------
(***************************************************************************)
(* The atomic snapshot file of src/snapshot.py.  A snapshot holds a        *)
(* sequence number and the database state, abstracted to the set of        *)
(* mutation records it includes.  snap is the file the target name shows,  *)
(* snapDisk the set of files the name may show after a power loss, tmp the *)
(* temporary file.                                                         *)
(***************************************************************************)
EXTENDS Naturals

CONSTANT DirFsync   \* does the file system support fsync of a directory?

ASSUME DirFsyncAssumption == DirFsync \in BOOLEAN

VARIABLES snap, snapDisk, tmp

snapVars == <<snap, snapDisk, tmp>>

(* cached: data not yet on the medium; corrupt: lost its checksum.         *)
FileStates == {"absent", "cached", "synced", "corrupt"}

NoSnapshot == [seq |-> 0, recs |-> {}, file |-> "absent"]

(* What a power loss leaves of a file whose data was never synced.         *)
OnMedium(s) == IF s.file = "cached" THEN [s EXCEPT !.file = "corrupt"] ELSE s

SnapInit == snap = NoSnapshot /\ snapDisk = {NoSnapshot} /\ tmp = NoSnapshot

(* write_snapshot, one action per effect on the file system.               *)
WriteTemporary(n, recs) ==
  /\ tmp' = [seq |-> n, recs |-> recs, file |-> "cached"]
  /\ UNCHANGED <<snap, snapDisk>>

(* A mutant: os.replace without the fsync before it.                       *)
NoFsync == UNCHANGED snapVars

FsyncTemporary ==
  /\ tmp' = [tmp EXCEPT !.file = "synced"]
  /\ UNCHANGED <<snap, snapDisk>>

ReplaceTarget ==
  /\ snap' = tmp
  /\ snapDisk' = snapDisk \union {OnMedium(tmp)}
  /\ tmp' = NoSnapshot

(* The OSError of an unsupported directory fsync is swallowed.             *)
FsyncDirectory ==
  /\ snapDisk' = IF DirFsync THEN {OnMedium(snap)} ELSE snapDisk
  /\ UNCHANGED <<snap, tmp>>

(* read_snapshot verifies version and checksum and raises                  *)
(* SnapshotCorruptionError; a missing file reads as (0, {}).               *)
ReadFails(s) == s.file = "corrupt"

SnapshotLosesPower ==
  /\ \E s \in snapDisk : snap' = s /\ snapDisk' = {s}
  /\ tmp' = NoSnapshot
=============================================================================
