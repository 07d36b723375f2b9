--------------------------- MODULE StorageEngine ---------------------------
(***************************************************************************)
(* The write path of the database: the write-ahead log and the snapshot    *)
(* file, driven by the storage engine under its lock, with process kills,  *)
(* power losses and damage of the medium at every step.                    *)
(*                                                                         *)
(* The engine itself is not under src/; its use of the two files is the    *)
(* one src/ARCHITECTURE.md and the docstrings of wal.py and snapshot.py    *)
(* fix: number under the lock, append, apply, acknowledge; snapshot, then  *)
(* truncate; load the snapshot, then replay the records after it.          *)
(***************************************************************************)
EXTENDS WriteAheadLog, Snapshot

CONSTANTS
  PowerLosses,   \* does the environment lose power, or only kill processes?
  MaxMutations   \* bound on the mutations ever attempted

ASSUME PowerLossesAssumption == PowerLosses \in BOOLEAN
ASSUME MaxMutationsAssumption == MaxMutations \in Nat

VARIABLES
  mode,      \* "up", "down", or "refused" when the files cannot be loaded
  pc,        \* the step the holder of the engine lock is at
  seq,       \* Database.sequence
  live,      \* the mutations applied in memory
  acked,     \* the mutations acknowledged to a client
  issued,    \* the mutations attempted so far, which identifies each
  raised,    \* history: the mutations whose call raised an error
  spoiled    \* history: a stored record was damaged, ran into a torn line,
             \* or was written behind a raised one, with its number

engineVars == <<mode, pc, seq, live, acked, issued, raised, spoiled>>
vars == <<walVars, snapVars, engineVars>>

(* What loading snapshot s and replaying file f yields.                    *)
Recovered(f, s) == s.recs \union {r \in Replayed(f) : r.seq > s.seq}

Init ==
  /\ WalInit /\ SnapInit
  /\ mode = "down" /\ pc = "idle"
  /\ seq = 0 /\ live = {} /\ acked = {} /\ issued = 0
  /\ raised = {} /\ spoiled = FALSE

At(l) == mode = "up" /\ pc = l
Goto(l) == pc' = l /\ mode' = mode

----------------------------------------------------------------------------
(* Mutations: number, append, fsync; then apply and acknowledge.  If the   *)
(* append raises nothing is applied and the number is not consumed.        *)

BeginMutation ==
  /\ At("idle") /\ issued < MaxMutations
  /\ issued' = issued + 1
  /\ Goto("append")
  /\ UNCHANGED <<walVars, snapVars, seq, live, acked, raised, spoiled>>

(* The line just written is not what replay takes for the next record.     *)
LastSpoiled == ~Intact(log', Len(log'))

(* A mutant: the record is written with the number of the last one, and    *)
(* the next number is taken after it.                                      *)
NumberTooLate ==
  /\ At("append")
  /\ WriteRecord(Record(seq, issued))
  /\ spoiled' = (spoiled \/ LastSpoiled)
  /\ Goto("written")
  /\ UNCHANGED <<snapVars, seq, live, acked, issued, raised>>

AppendRecord ==
  /\ At("append")
  /\ WriteRecord(Record(seq + 1, issued))
  /\ spoiled' = (spoiled \/ LastSpoiled)
  /\ Goto("written")
  /\ UNCHANGED <<snapVars, seq, live, acked, issued, raised>>

(* The flush of an append, of truncate, of byte_size or of the end of the  *)
(* process writes what an earlier one has left.                            *)
FlushBuffered ==
  /\ mode = "up" /\ pc \in {"idle", "append", "truncate"}
  /\ FlushLine
  /\ spoiled' = (spoiled \/ LastSpoiled)
  /\ UNCHANGED <<snapVars, mode, pc, seq, live, acked, issued, raised>>

MutationRaises ==
  /\ raised' = raised \union {issued}
  /\ Goto("idle")
  /\ UNCHANGED <<snapVars, seq, live, acked, issued, spoiled>>

AppendFails == At("append") /\ WriteFails(Record(seq + 1, issued)) /\ MutationRaises

(* The whole record is in the log.                                         *)
SyncFails == At("written") /\ IOErrors /\ Sync /\ UNCHANGED walVars /\ MutationRaises

(* A mutant: the write is applied and acknowledged but its sequence number *)
(* is not consumed.                                                        *)
CommitKeepsSequence ==
  /\ At("written")
  /\ SyncLog
  /\ live'  = live \union {Record(seq + 1, issued)}
  /\ acked' = acked \union {Record(seq + 1, issued)}
  /\ Goto("idle")
  /\ UNCHANGED <<snapVars, seq, issued, raised, spoiled>>

CommitMutation ==
  /\ At("written")
  /\ SyncLog
  /\ seq'   = seq + 1
  /\ live'  = live \union {Record(seq + 1, issued)}
  /\ acked' = acked \union {Record(seq + 1, issued)}
  /\ Goto("idle")
  /\ UNCHANGED <<snapVars, issued, raised, spoiled>>

----------------------------------------------------------------------------
(* checkpoint and compact: write_snapshot, then truncate.                  *)

(* A mutant: the log is truncated although no snapshot was written.        *)
TruncateFirst ==
  /\ At("idle")
  /\ WriteTemporary(seq, live)
  /\ Goto("truncate")
  /\ UNCHANGED <<walVars, seq, live, acked, issued, raised, spoiled>>

BeginCheckpoint ==
  /\ At("idle")
  /\ WriteTemporary(seq, live)
  /\ Goto("temporary")
  /\ UNCHANGED <<walVars, seq, live, acked, issued, raised, spoiled>>

SyncSnapshot ==
  /\ At("temporary")
  /\ FsyncTemporary
  /\ Goto("tempSynced")
  /\ UNCHANGED <<walVars, seq, live, acked, issued, raised, spoiled>>

InstallSnapshot ==
  /\ At("tempSynced")
  /\ ReplaceTarget
  /\ Goto("replaced")
  /\ UNCHANGED <<walVars, seq, live, acked, issued, raised, spoiled>>

SyncDirectory ==
  /\ At("replaced")
  /\ FsyncDirectory
  /\ Goto("truncate")
  /\ UNCHANGED <<walVars, seq, live, acked, issued, raised, spoiled>>

DropLog ==
  /\ At("truncate")
  /\ TruncateLog
  /\ Goto("truncated")
  /\ UNCHANGED <<snapVars, seq, live, acked, issued, raised, spoiled>>

FinishCheckpoint ==
  /\ At("truncated")
  /\ SyncLog
  /\ Goto("idle")
  /\ UNCHANGED <<snapVars, seq, live, acked, issued, raised, spoiled>>

(* A step of write_snapshot or truncate raises; that of the directory is   *)
(* caught.                                                                 *)
CheckpointFails ==
  /\ IOErrors
  /\ At("temporary") \/ At("tempSynced") \/ At("truncate") \/ (At("truncated") /\ Sync)
  /\ Goto("idle")
  /\ UNCHANGED <<walVars, snapVars, seq, live, acked, issued, raised, spoiled>>

----------------------------------------------------------------------------
(* Start, stop and failures.                                               *)

LoadFails == ReadFails(snap) \/ ReplayFails(log)

Open ==
  /\ mode = "down" /\ ~LoadFails
  /\ live' = Recovered(log, snap)
  /\ \E n \in {snap.seq} \union {r.seq : r \in Recovered(log, snap)} :
       /\ \A r \in Recovered(log, snap) : r.seq <= n
       /\ n >= snap.seq
       /\ seq' = n
  /\ mode' = "up"
  /\ UNCHANGED <<walVars, snapVars, pc, acked, issued, raised, spoiled>>

OpenRefused ==
  /\ mode = "down" /\ LoadFails
  /\ mode' = "refused"
  /\ UNCHANGED <<walVars, snapVars, pc, seq, live, acked, issued, raised, spoiled>>

Stopped == mode' = "down" /\ pc' = "idle" /\ live' = {} /\ seq' = 0

Close ==
  /\ At("idle") /\ buffer = << >>
  /\ Stopped
  /\ UNCHANGED <<walVars, snapVars, acked, issued, raised, spoiled>>

Kill ==
  /\ mode = "up"
  /\ Stopped
  /\ HandleLost(pc = "append")
  /\ UNCHANGED <<snapVars, acked, issued, raised, spoiled>>

PowerLoss ==
  /\ PowerLosses /\ mode # "refused"
  /\ Stopped
  /\ LogLosesPower /\ SnapshotLosesPower
  /\ UNCHANGED <<acked, issued, raised, spoiled>>

Decay ==
  /\ mode = "down"
  /\ \E i \in 1 .. Len(log), k \in Damage : DamageLine(i, k)
  /\ spoiled' = TRUE
  /\ UNCHANGED <<snapVars, mode, pc, seq, live, acked, issued, raised>>

Next ==
  \/ BeginMutation \/ AppendRecord \/ CommitMutation
  \/ FlushBuffered \/ AppendFails \/ SyncFails \/ CheckpointFails
  \/ BeginCheckpoint \/ SyncSnapshot \/ InstallSnapshot \/ SyncDirectory
  \/ DropLog \/ FinishCheckpoint
  \/ Open \/ OpenRefused \/ Close \/ Kill \/ PowerLoss \/ Decay

Spec == Init /\ [][Next]_vars

----------------------------------------------------------------------------
(* Properties.                                                             *)

LineSeqs == Seq(Line)

SnapFiles == [seq : Nat, recs : SUBSET Records, file : FileStates]

Steps == {"idle", "append", "written", "temporary", "tempSynced", "replaced",
          "truncate", "truncated"}

(* Every variable keeps its type.                                          *)
TypeOK ==
  /\ log \in LineSeqs /\ disk \in SUBSET LineSeqs /\ buffer \in Seq(Records)
  /\ snap \in SnapFiles /\ tmp \in SnapFiles /\ snapDisk \in SUBSET SnapFiles
  /\ mode \in {"up", "down", "refused"} /\ pc \in Steps
  /\ seq \in Nat /\ issued \in Nat
  /\ live \in SUBSET Records /\ acked \in SUBSET Records
  /\ raised \in SUBSET Nat /\ spoiled \in BOOLEAN

(* No record was damaged, ran into a torn line or was written behind one   *)
(* whose append had raised, which has its number; and what the code syncs  *)
(* is on the medium if power can be lost.                                  *)
Safe == ~spoiled /\ (PowerLosses => Sync /\ DirFsync)

(* "An acknowledged mutation is recoverable" (PRODUCTION_INVARIANTS.md):   *)
(* whatever instant the process dies at, the next start loads the files    *)
(* and shows every acknowledged mutation.                                  *)
AckedRecoverable == ~LoadFails /\ acked \subseteq Recovered(log, snap)

(* The same in the environments where the code keeps the promise.          *)
AckedRecoverableWhenSafe == Safe => AckedRecoverable

(* While Safe a restart is invisible: a start from the files of a running  *)
(* engine with no call in progress would rebuild its memory and nothing    *)
(* else but the mutation the client got an error for, if it is in the log  *)
(* all the same, although the log holds records older than the snapshot    *)
(* after an interrupted or failed checkpoint.                              *)
RestartInvisible ==
  (Safe /\ At("idle")) =>
    /\ live \subseteq Recovered(log, snap) /\ \A r \in live : r.seq <= seq
    /\ \A r \in Recovered(log, snap) \ live : r.seq = seq + 1 /\ r.mut \in raised

(* While Safe no two acknowledged mutations share a sequence number,       *)
(* although numbers of unacknowledged mutations are handed out again after *)
(* a crash and after an error: as_of reads and point-in-time restore       *)
(* identify versions by them.                                              *)
SequenceUnique ==
  Safe => \A a, b \in acked : a.seq = b.seq => a = b

(* "malformed records in the middle of the log fail startup"               *)
(* (ARCHITECTURE.md).  So does a wrong checksum, also that of the final    *)
(* record, which the same document says is not applied; and so does a      *)
(* record with the number of the one before, whose call had raised.        *)
(* Nothing else does, and a torn tail, whatever crash left it, never.      *)
RefusedOnlyForDamage ==
  mode = "refused" =>
    \E i \in 1 .. Len(log) :
      \/ log[i].kind = "badsum" \/ (log[i].kind = "garbled" /\ i < Len(log))
      \/ i > 1 /\ log[i].seq = log[i - 1].seq /\ log[i - 1].mut \in raised

(* A start never drops a record silently, except for the final line: all   *)
(* intact records before it that the snapshot does not include are loaded. *)
NothingBeforeTailDropped ==
  [][Open => \A i \in 1 .. Len(log) - 1 :
               /\ log[i].kind = "record"
               /\ log[i].seq > snap.seq => log[i] \in live']_vars

Recoverable == IF LoadFails THEN {} ELSE Recovered(log, snap)

Promise == INSTANCE DurableStore WITH store <- Recoverable, failed <- raised,
                                      intact <- ~spoiled

(* The mutations a start would show behave as DurableStore: they appear    *)
(* one by one in sequence order, checkpoints remove none that a client was *)
(* told of, and a crash, with torn lines or without, takes away at most an *)
(* unacknowledged suffix and brings back at most one mutation whose call   *)
(* had raised, until a stored record is spoiled.                           *)
ImplementsDurableStore == Promise!Spec
=============================================================================
