--------------------------- MODULE WriteAheadLog ---------------------------
(***************************************************************************)
(* The checksummed append-only log of src/wal.py: one JSON line per        *)
(* mutation, opened in append mode.  A line is abstracted to what replay   *)
(* can tell of it: a valid record with its sequence number, an             *)
(* unterminated (torn) line, a JSON record whose checksum or version is    *)
(* wrong (badsum), or a line on which decoding, or the apply callback,     *)
(* raises ValueError, KeyError or TypeError (garbled).                     *)
(*                                                                         *)
(* log is what the file system shows to every process; disk is the set of  *)
(* contents a power loss may leave, so fsync is disk' = {log}.  buffer has *)
(* the lines the handle keeps because writing them raised: what is already *)
(* in the file of the first is counted as buffered, until the process      *)
(* writes the rest or ends.                                                *)
(***************************************************************************)
EXTENDS Naturals, Sequences

CONSTANTS
  Sync,         \* WriteAheadLog(sync=...): is each append synced?
  TornWrites,   \* may an interrupted write leave part of a line?
  IOErrors,     \* may a write, a flush or an fsync raise OSError?
  Damage        \* the ways the medium may damage a stored line

ASSUME SyncAssumption == Sync \in BOOLEAN
ASSUME TornWritesAssumption == TornWrites \in BOOLEAN
ASSUME IOErrorsAssumption == IOErrors \in BOOLEAN
ASSUME DamageAssumption == Damage \subseteq {"garbled", "badsum"}

VARIABLES log, disk, buffer

walVars == <<log, disk, buffer>>

Record(n, m) == [kind |-> "record", seq |-> n, mut |-> m]
Blank(k)     == [kind |-> k, seq |-> 0, mut |-> 0]

Records == [kind : {"record"}, seq : Nat \ {0}, mut : Nat]
Line    == Records \union {Blank(k) : k \in {"torn", "garbled", "badsum"}}

Unterminated(f) == f # << >> /\ f[Len(f)].kind = "torn"

(* The file after record r and its newline are written at the end of f: on *)
(* an unterminated last line the two run together into one line that is    *)
(* not JSON.                                                               *)
Written(f, r) ==
  IF Unterminated(f) THEN [f EXCEPT ![Len(f)] = Blank("garbled")]
                     ELSE Append(f, r)

(* The contents an interrupted write may leave.                            *)
PartlyWritten(f) ==
  {f} \union IF TornWrites /\ ~Unterminated(f)
               THEN {Append(f, Blank("torn"))} ELSE {}

----------------------------------------------------------------------------
(* replay: lines are applied from the first while they are valid and their *)
(* sequence numbers increase.  The line that stops it is skipped if it is  *)
(* unterminated, or malformed and last; any other raises                   *)
(* WALCorruptionError.                                                     *)

Intact(f, i) ==
  /\ f[i].kind = "record"
  /\ f[i].seq > IF i = 1 THEN 0 ELSE f[i - 1].seq

Replayed(f) == {f[i] : i \in {k \in 1 .. Len(f) : \A j \in 1 .. k : Intact(f, j)}}

(* A mutant: a malformed line is skipped wherever it stands.               *)
TornTailAnywhere(f, i) == f[i].kind \in {"torn", "garbled"}

(* A mutant: the comparison with the last line is off by one.              *)
TornTailNeverLast(f, i) == f[i].kind = "torn" \/ (f[i].kind = "garbled" /\ i = Len(f) - 1)

IgnoredAsTorn(f, i) == f[i].kind = "torn" \/ (f[i].kind = "garbled" /\ i = Len(f))

ReplayFails(f) ==
  \E i \in 1 .. Len(f) :
    /\ \A j \in 1 .. i - 1 : Intact(f, j)
    /\ ~Intact(f, i)
    /\ ~IgnoredAsTorn(f, i)

----------------------------------------------------------------------------
(* The operations, and what the environment does to the file.              *)

WalInit == log = << >> /\ disk = {<< >>} /\ buffer = << >>

(* write and flush of append: the line reaches the page cache, behind what *)
(* is buffered.                                                            *)
WriteRecord(r) ==
  /\ buffer = << >> /\ buffer' = buffer
  /\ log'  = Written(log, r)
  /\ disk' = disk \union {log'} \union PartlyWritten(log)

(* Any flush of the handle writes what is buffered first, line by line.    *)
FlushLine ==
  /\ buffer # << >> /\ buffer' = Tail(buffer)
  /\ log'  = Written(log, Head(buffer))
  /\ disk' = disk \union {log'} \union PartlyWritten(log)
                  \union IF buffer' = << >> THEN {} ELSE PartlyWritten(log')

(* write or flush raises: the handle keeps the line; or, if it is too long *)
(* for the buffer, drops it, and part of it may stay in the file.          *)
WriteFails(r) ==
  /\ IOErrors
  /\ \/ log' = log /\ buffer' \in {buffer, Append(buffer, r)}
     \/ buffer = << >> /\ buffer' = buffer /\ log' \in PartlyWritten(log)
  /\ disk' = disk \union PartlyWritten(log)

(* A mutant: the fsync is forgotten.                                       *)
NoSync == UNCHANGED walVars

SyncLog == disk' = (IF Sync THEN {log} ELSE disk) /\ UNCHANGED <<log, buffer>>

TruncateLog ==
  /\ buffer = << >> /\ buffer' = buffer
  /\ log' = << >> /\ disk' = disk \union {<< >>}

(* The process ends, inside a write if it has something to write.          *)
HandleLost(writing) ==
  /\ log' \in IF writing \/ buffer # << >> THEN PartlyWritten(log) ELSE {log}
  /\ disk' = disk \union {log'}
  /\ buffer' = << >>

LogLosesPower == (\E f \in disk : log' = f /\ disk' = {f}) /\ buffer' = << >>

DamageLine(i, k) ==
  /\ disk = {log}
  /\ log[i].kind = "record"
  /\ log' = [log EXCEPT ![i] = Blank(k)]
  /\ disk' = {log'} /\ buffer' = buffer
=============================================================================
