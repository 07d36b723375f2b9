--------------------------- MODULE BackupManager ---------------------------
(***************************************************************************)
(* Verified backups, restore and point-in-time restore (src/manager.py)    *)
(* and the restore command of the CLI (src/main.py), with writers running  *)
(* while a backup is made, kills between the steps, damage of a finished   *)
(* backup, and operators who go on with a restored directory.              *)
(*                                                                         *)
(* A directory holds snapshot.json and wal.log.  The engine that writes    *)
(* them is not under src/; StorageEngine shows that what is acknowledged   *)
(* is what a start loads, so the live database is here what its files      *)
(* show.  Every write stores a new number as the document; None stands for *)
(* a deletion.  A hash is abstracted to the content it is taken of.        *)
(***************************************************************************)
EXTENDS Naturals, Sequences

CONSTANTS
  Ids,            \* document identifiers
  Directories,    \* directories a database may live in
  FirstDirectory, \* the one the database starts in
  Commands,       \* the ways to restore in use: "restore", "pitr", "cli"
  WritersRun,     \* may the database be written while a backup is made?
  GoOn,           \* is a restored directory ever put to use?
  MaxMutations,   \* bound on the mutations ever made
  MaxRestores     \* bound on the restores ever begun

ASSUME DirectoriesAssumption == FirstDirectory \in Directories
ASSUME CommandsAssumption == Commands \subseteq {"restore", "pitr", "cli"}
ASSUME FlagsAssumption == WritersRun \in BOOLEAN /\ GoOn \in BOOLEAN
ASSUME BoundAssumption == MaxMutations \in Nat /\ MaxRestores \in Nat

None == 0

VARIABLES
  files,      \* per directory, its snapshot.json and wal.log
  active,     \* the directory of the running database
  backup,     \* the backup directory: snapshot.json, wal.log, manifest.json
  pc, job,    \* the step and the parameters of the command that runs
  issued,     \* the mutations made so far
  restores,   \* the restores begun so far
  timeline,   \* history: per directory, the documents after each sequence
  captured    \* history: the timeline of the database the backup is of

vars == <<files, active, backup, pc, job, issued, restores, timeline, captured>>

NoDocs == [id \in {} |-> None]

Absent   == [is |-> "absent"]
Damaged  == [is |-> "damaged"]
Whole(x) == [is |-> "whole", data |-> x]

Empty == [seq |-> 0, docs |-> NoDocs, history |-> [id \in Ids |-> << >>]]
NoFiles  == [snapshot |-> Absent, wal |-> Absent]
NoBackup == [snapshot |-> Absent, wal |-> Absent, manifest |-> Absent]
NoJob    == [command |-> "none", dir |-> FirstDirectory, seq |-> 0]

----------------------------------------------------------------------------
(* What a start loads from a directory: the snapshot, then the records of  *)
(* the log after it.                                                       *)

With(docs, id, v) ==
  [x \in IF v = None THEN DOMAIN docs \ {id} ELSE DOMAIN docs \union {id} |->
     IF x = id THEN v ELSE docs[x]]

Apply(s, r) ==
  [seq |-> r.seq, docs |-> With(s.docs, r.id, r.document),
   history |-> [s.history EXCEPT ![r.id] = Append(@, [seq |-> r.seq, document |-> r.document])]]

Base(f) == IF f.snapshot.is = "absent" THEN Empty ELSE f.snapshot.data

LogOf(f) == IF f.wal.is = "absent" THEN << >> ELSE f.wal.data

(* The states a start goes through: after i records of log.                *)
Replaying(s, log) ==
  LET state[i \in 0 .. Len(log)] ==
        IF i = 0 THEN s
        ELSE IF log[i].seq > s.seq THEN Apply(state[i - 1], log[i]) ELSE state[i - 1]
  IN  state

Loaded(f) == Replaying(Base(f), LogOf(f))[Len(LogOf(f))]

Opens(f) == f.snapshot.is # "damaged" /\ f.wal.is # "damaged"

Database == Loaded(files[active])

(* The directory shows what its history says.                              *)
ShowsTimeline(d) ==
  /\ Opens(files[d])
  /\ Loaded(files[d]).seq + 1 = Len(timeline[d])
  /\ Loaded(files[d]).docs = timeline[d][Len(timeline[d])]

(* Nobody works on a directory in which a restore was cut short: it is     *)
(* repeated first.                                                         *)
Running == ShowsTimeline(active)

----------------------------------------------------------------------------
(* The running database.                                                   *)

Init ==
  /\ files = [d \in Directories |->
       IF d = FirstDirectory THEN [NoFiles EXCEPT !.wal = Whole(<< >>)] ELSE NoFiles]
  /\ active = FirstDirectory
  /\ backup = NoBackup /\ pc = "idle" /\ job = NoJob /\ issued = 0 /\ restores = 0
  /\ timeline = [d \in Directories |-> <<NoDocs>>] /\ captured = << >>

Mutate(id, v) ==
  /\ Running /\ issued < MaxMutations
  /\ pc = "idle" \/ (WritersRun /\ pc = "manifest")
  /\ v = None => id \in DOMAIN Database.docs
  /\ issued' = issued + 1
  /\ files' = [files EXCEPT ![active].wal =
       Whole(Append(LogOf(files[active]),
                    [seq |-> Database.seq + 1, id |-> id, document |-> v]))]
  /\ timeline' = [timeline EXCEPT ![active] = Append(@, With(Database.docs, id, v))]
  /\ UNCHANGED <<active, backup, pc, job, restores, captured>>

Checkpoint ==
  /\ Running /\ pc = "idle" /\ LogOf(files[active]) # << >>
  /\ files' = [files EXCEPT ![active] = [snapshot |-> Whole(Database), wal |-> Whole(<< >>)]]
  /\ UNCHANGED <<active, backup, pc, job, issued, restores, timeline, captured>>

(* The database is closed and a restored directory is opened.              *)
Switch(d) ==
  /\ GoOn /\ pc = "idle"
  /\ d # active /\ files[d].snapshot.is = "whole" /\ ShowsTimeline(d)
  /\ active' = d
  /\ UNCHANGED <<files, backup, pc, job, issued, restores, timeline, captured>>

----------------------------------------------------------------------------
(* create: Database.backup under the engine lock; then the hashes, the     *)
(* sequence number as it is by then, and the manifest.                     *)

BackupFiles ==
  /\ Running /\ pc = "idle" /\ backup = NoBackup
  /\ backup' = [NoBackup EXCEPT !.snapshot = Whole(Database),
                                !.wal = Whole(LogOf(files[active]))]
  /\ captured' = timeline[active]
  /\ pc' = "manifest"
  /\ UNCHANGED <<files, active, job, issued, restores, timeline>>

WriteManifest ==
  /\ pc = "manifest"
  /\ backup' = [backup EXCEPT !.manifest =
       Whole([sequence |-> Database.seq, snapshot |-> backup.snapshot, wal |-> backup.wal])]
  /\ pc' = "idle"
  /\ UNCHANGED <<files, active, job, issued, restores, timeline, captured>>

(* The next backup is made to another destination.                         *)
NewDestination ==
  /\ pc = "idle" /\ backup # NoBackup
  /\ backup' = NoBackup /\ captured' = << >>
  /\ UNCHANGED <<files, active, pc, job, issued, restores, timeline>>

(* One file of a backup is damaged.                                        *)
DamageBackup(name) ==
  /\ pc = "idle" /\ backup.manifest.is = "whole" /\ backup[name].is = "whole"
  /\ \A other \in DOMAIN backup : backup[other].is # "damaged"
  /\ backup' = [backup EXCEPT ![name] = Damaged]
  /\ UNCHANGED <<files, active, pc, job, issued, restores, timeline, captured>>

----------------------------------------------------------------------------
(* verify, restore, point_in_time_restore, cmd_restore.                    *)

(* A mutant: the files are not compared with the manifest.                 *)
ReadableOnly(b) == b.manifest.is = "whole" /\ b.snapshot.is = "whole"

Verified(b) ==
  /\ b.manifest.is = "whole"
  /\ b.snapshot = b.manifest.data.snapshot /\ b.wal = b.manifest.data.wal
  /\ b.snapshot.is # "damaged"

(* Of the entries of a document point_in_time_restore takes the first of   *)
(* those with the greatest sequence number up to n.                        *)
Candidates(h, n) == {i \in DOMAIN h : h[i].seq <= n}

Latest(h, c) ==
  h[CHOOSE i \in c : \A j \in c : h[j].seq < h[i].seq \/ (h[j].seq = h[i].seq /\ i <= j)]

Entry(h, n) == Latest(h, Candidates(h, n))

(* A mutant: a deletion in the history is not told from a document.        *)
MaterializedDeletions(s, n) ==
  [id \in {x \in Ids : Candidates(s.history[x], n) # {}} |-> Entry(s.history[id], n).document]

(* A mutant: the mutation with the requested number is left out.           *)
MaterializedBefore(s, n) ==
  LET Earlier(id) == {i \in DOMAIN s.history[id] : s.history[id][i].seq < n}
      Present(id) == Earlier(id) # {} /\ Latest(s.history[id], Earlier(id)).document # None
  IN  [id \in {x \in Ids : Present(x)} |-> Latest(s.history[id], Earlier(id)).document]

Materialized(s, n) ==
  LET Present(id) == Candidates(s.history[id], n) # {} /\ Entry(s.history[id], n).document # None
  IN  [id \in {x \in Ids : Present(x)} |-> Entry(s.history[id], n).document]

(* The destination shows the first documents of the backup's timeline from *)
(* its new snapshot on; where the CLI copies over a database, only once    *)
(* the log is the new one as well.                                         *)
Restored(d, n) == [timeline EXCEPT ![d] = SubSeq(captured, 1, n + 1)]

HalfRestored(command, d, n) ==
  IF command = "cli" THEN [timeline EXCEPT ![d] = << >>] ELSE Restored(d, n)

(* The snapshot is put in place first; a kill while it is copied leaves    *)
(* part of it, but that of a point-in-time restore is replaced atomically. *)
PutSnapshot(command, d, n, snapshot) ==
  /\ pc = "idle" /\ command \in Commands /\ restores < MaxRestores
  /\ restores' = restores + 1
  /\ \/ /\ files' = [files EXCEPT ![d].snapshot = snapshot]
        /\ job' = [command |-> command, dir |-> d, seq |-> n] /\ pc' = "wal"
     \/ /\ command # "pitr"
        /\ files' = [files EXCEPT ![d].snapshot = Damaged]
        /\ UNCHANGED <<job, pc>>
  /\ timeline' = HalfRestored(command, d, n)
  /\ UNCHANGED <<active, backup, issued, captured>>

(* A mutant: the destination may hold a database.                          *)
BeginRestoreAnywhere(d) ==
  /\ Verified(backup)
  /\ PutSnapshot("restore", d, backup.snapshot.data.seq, backup.snapshot)

BeginRestore(d) ==
  /\ Verified(backup)
  /\ files[d] = NoFiles
  /\ PutSnapshot("restore", d, backup.snapshot.data.seq, backup.snapshot)

BeginPointInTime(d, n) ==
  /\ Verified(backup)
  /\ files[d] = NoFiles
  /\ n <= backup.snapshot.data.seq
  /\ PutSnapshot("pitr", d, n,
       Whole([seq |-> n, docs |-> Materialized(backup.snapshot.data, n),
              history |-> backup.snapshot.data.history]))

(* The CLI command verifies nothing and copies over what is there.         *)
BeginCommand(d) ==
  /\ backup.snapshot.is # "absent"
  /\ PutSnapshot("cli", d, Len(captured) - 1, backup.snapshot)

(* A mutant: only the snapshot is copied.                                  *)
LeaveLog ==
  /\ pc = "wal"
  /\ timeline' = Restored(job.dir, job.seq)
  /\ pc' = "idle" /\ job' = NoJob
  /\ UNCHANGED <<files, active, backup, issued, restores, captured>>

PutLog ==
  /\ pc = "wal"
  /\ files' = [files EXCEPT ![job.dir].wal =
       IF job.command = "pitr" THEN Whole(<< >>) ELSE backup.wal]
  /\ timeline' = Restored(job.dir, job.seq)
  /\ pc' = "idle" /\ job' = NoJob
  /\ UNCHANGED <<active, backup, issued, restores, captured>>

(* The process is killed between two steps.  Part of the copied log is as  *)
(* good as all of it: its records are in the snapshot.                     *)
Kill ==
  /\ pc # "idle"
  /\ pc' = "idle" /\ job' = NoJob
  /\ UNCHANGED <<files, active, backup, issued, restores, timeline, captured>>

Next ==
  \/ \E id \in Ids : Mutate(id, issued + 1) \/ Mutate(id, None)
  \/ Checkpoint
  \/ \E d \in Directories : Switch(d)
  \/ BackupFiles \/ WriteManifest \/ NewDestination
  \/ \E name \in {"snapshot", "wal", "manifest"} : DamageBackup(name)
  \/ \E d \in Directories :
       \/ BeginRestore(d) \/ BeginCommand(d)
       \/ \E n \in 0 .. MaxMutations : BeginPointInTime(d, n)
  \/ PutLog \/ Kill

Spec == Init /\ [][Next]_vars

----------------------------------------------------------------------------
(* Properties.                                                             *)

DocSets   == UNION {[X -> 1 .. MaxMutations] : X \in SUBSET Ids}
IsEntry(e) == e.seq \in 1 .. MaxMutations /\ e.document \in 0 .. MaxMutations
IsState(s) ==
  /\ s.seq \in 0 .. MaxMutations /\ s.docs \in DocSets
  /\ DOMAIN s.history = Ids
  /\ \A id \in Ids : \A i \in DOMAIN s.history[id] : IsEntry(s.history[id][i])
IsSnapshot(x) == x \in {Absent, Damaged} \/ (x.is = "whole" /\ IsState(x.data))
IsLog(x) == x \in {Absent, Damaged} \/
  (x.is = "whole" /\ \A i \in DOMAIN x.data : IsEntry(x.data[i]) /\ x.data[i].id \in Ids)

(* Every variable keeps its type; no document is None.                     *)
TypeOK ==
  /\ \A d \in Directories : IsSnapshot(files[d].snapshot) /\ IsLog(files[d].wal)
  /\ active \in Directories
  /\ IsSnapshot(backup.snapshot) /\ IsLog(backup.wal)
  /\ pc \in {"idle", "manifest", "wal"}
  /\ job.dir \in Directories /\ job.seq \in 0 .. MaxMutations
  /\ issued \in 0 .. MaxMutations /\ restores \in 0 .. MaxRestores
  /\ \A d \in Directories : \A i \in DOMAIN timeline[d] : timeline[d][i] \in DocSets

(* No sequence number was handed out twice, as it is by a database that    *)
(* goes on with a point-in-time restore: its history keeps the future that *)
(* was given up.                                                           *)
OneBranch(s) ==
  \A a, b \in Ids : \A i \in DOMAIN s.history[a], j \in DOMAIN s.history[b] :
    s.history[a][i].seq = s.history[b][j].seq => a = b /\ i = j

(* A directory that opens shows one whole database: the one that ran in it *)
(* or the one restored into it, at its last sequence number, never a mix,  *)
(* whenever the restoring process is killed.  The CLI command is excepted  *)
(* between its two copies, where the directory may well open as a mix.     *)
DirectoryWhole ==
  \A d \in Directories :
    Opens(files[d]) /\ timeline[d] # << >> /\ OneBranch(Loaded(files[d]))
      => ShowsTimeline(d)

(* "Materialize a verified point-in-time restore at sequence 12"           *)
(* (README.md): from a backup that verifies, the restore at any sequence   *)
(* number it accepts yields the documents the database had then, deletions *)
(* and later updates included.                                             *)
PointInTimeExact ==
  Verified(backup) /\ OneBranch(backup.snapshot.data) =>
    \A n \in 0 .. backup.snapshot.data.seq :
      Materialized(backup.snapshot.data, n) = captured[n + 1]

(* A restore from a verified backup that ran to its end leaves a directory *)
(* that opens and shows what was asked for, whatever file of the backup    *)
(* was damaged before, and whatever a restore cut short had left there.    *)
RestoreComplete ==
  [][\A d \in Directories :
       PutLog /\ d = job.dir /\ Verified(backup) /\ OneBranch(backup.snapshot.data)
         => ShowsTimeline(d)']_vars
=============================================================================
