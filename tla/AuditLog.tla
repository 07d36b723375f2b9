------------------------------ MODULE AuditLog ------------------------------
(***************************************************************************)
(* AuditLogger of src/core.py: handler threads append events to a file,    *)
(* each event with the hash of the one before it.  record reads the last   *)
(* hash without the lock, then takes the lock to write, sync and publish   *)
(* the new hash.  The process may be killed and the power lost at every    *)
(* step, and a write or an fsync may fail.                                 *)
(*                                                                         *)
(* The SHA-256 of an event is taken to be unique and stands for the event: *)
(* events are numbered, and 0 is the initial hash, 64 zeros.               *)
(***************************************************************************)
EXTENDS Naturals, Sequences

CONSTANTS
  Threads, NoThread,
  Faults,       \* the faults of the environment
  MaxEvents     \* bound on the calls of record

ASSUME ThreadsAssumption == NoThread \notin Threads
ASSUME FaultsAssumption == Faults \subseteq {"torn", "fsync", "power"}
ASSUME MaxEventsAssumption == MaxEvents \in Nat

VARIABLES
  mode,         \* "up", "down", or "refused" when the constructor raises
  lines,        \* the lines of the file
  synced,       \* how many of them fsync has made durable
  previous,     \* _previous_hash
  lock,         \* the holder of _lock
  pc,           \* the step of record each thread is at
  event,        \* the event each thread has built
  begun,        \* the number of events built so far
  logged,       \* history: the events whose record has returned
  interrupted   \* history: some write left part of a line

fileVars == <<lines, synced>>
threadVars == <<pc, event>>
vars == <<mode, fileVars, previous, lock, threadVars, begun, logged, interrupted>>

Genesis == 0
NoEvent == [id |-> 0, prev |-> Genesis]

(* A line: an event, or what is left of one: without its newline           *)
(* (unterminated), cut (torn), or run together with the line before it.    *)
Line(e, k) == [id |-> e.id, prev |-> e.prev, kind |-> k]

Readable(l) == l.kind \in {"event", "unterminated"}

(* The file after event e and its newline are written at the end of f.     *)
Written(f, e) ==
  IF f # << >> /\ f[Len(f)].kind \in {"unterminated", "torn"}
    THEN [f EXCEPT ![Len(f)] = Line(e, "garbled")]
    ELSE Append(f, Line(e, "event"))

(* What an interrupted or failing write may leave of the file.             *)
PartlyWritten(f, e) ==
  {f} \union
  IF f # << >> /\ f[Len(f)].kind \in {"unterminated", "torn"}
    THEN {[f EXCEPT ![Len(f)] = Line(e, "torn")]}
    ELSE {Append(f, Line(e, k)) : k \in {"unterminated", "torn"}}

Init ==
  /\ mode = "down" /\ lines = << >> /\ synced = 0
  /\ previous = Genesis /\ lock = NoThread
  /\ pc = [t \in Threads |-> "idle"] /\ event = [t \in Threads |-> NoEvent]
  /\ begun = 0 /\ logged = {} /\ interrupted = FALSE

At(t, l) == mode = "up" /\ pc[t] = l
Goto(t, l) == pc' = [pc EXCEPT ![t] = l] /\ mode' = mode

----------------------------------------------------------------------------
(* record.                                                                 *)

(* The event is built with the hash read here, without the lock.           *)
Build(t) ==
  /\ At(t, "idle") /\ begun < MaxEvents
  /\ begun' = begun + 1
  /\ event' = [event EXCEPT ![t] = [id |-> begun + 1, prev |-> previous]]
  /\ Goto(t, "built")
  /\ UNCHANGED <<fileVars, previous, lock, logged, interrupted>>

(* A mutant: the hash is published before the line is written.             *)
PublishFirst(t) ==
  /\ At(t, "built") /\ lock = NoThread
  /\ lock' = t
  /\ previous' = event[t].id
  /\ Goto(t, "locked")
  /\ UNCHANGED <<fileVars, event, begun, logged, interrupted>>

Acquire(t) ==
  /\ At(t, "built") /\ lock = NoThread
  /\ lock' = t
  /\ Goto(t, "locked")
  /\ UNCHANGED <<fileVars, previous, event, begun, logged, interrupted>>

(* open, write, flush.                                                     *)
WriteLine(t) ==
  /\ At(t, "locked")
  /\ lines' = Written(lines, event[t])
  /\ Goto(t, "written")
  /\ UNCHANGED <<synced, previous, lock, event, begun, logged, interrupted>>

(* A mutant: there is no fsync.                                            *)
SkipSync(t) ==
  /\ At(t, "written")
  /\ Goto(t, "synced")
  /\ UNCHANGED <<fileVars, previous, lock, event, begun, logged, interrupted>>

SyncLine(t) ==
  /\ At(t, "written")
  /\ synced' = Len(lines)
  /\ Goto(t, "synced")
  /\ UNCHANGED <<lines, previous, lock, event, begun, logged, interrupted>>

(* A mutant: the lock is released before the hash is published.            *)
PublishUnlocked(t) ==
  \/ /\ At(t, "synced") /\ lock = t
     /\ lock' = NoThread
     /\ UNCHANGED <<mode, fileVars, previous, threadVars, begun, logged, interrupted>>
  \/ /\ At(t, "synced") /\ lock # t
     /\ previous' = event[t].id
     /\ logged' = logged \union {event[t].id}
     /\ Goto(t, "idle")
     /\ UNCHANGED <<fileVars, lock, event, begun, interrupted>>

Publish(t) ==
  /\ At(t, "synced")
  /\ previous' = event[t].id
  /\ lock' = NoThread
  /\ logged' = logged \union {event[t].id}
  /\ Goto(t, "idle")
  /\ UNCHANGED <<fileVars, event, begun, interrupted>>

(* open or write raises OSError: record leaves its lock, and part of the   *)
(* line may stay.                                                          *)
WriteFails(t) ==
  /\ At(t, "locked") /\ "torn" \in Faults
  /\ lines' \in PartlyWritten(lines, event[t])
  /\ interrupted' = (interrupted \/ lines' # lines)
  /\ lock' = NoThread
  /\ Goto(t, "idle")
  /\ UNCHANGED <<synced, previous, event, begun, logged>>

(* fsync raises OSError: the line is in the file, its hash not published.  *)
SyncFails(t) ==
  /\ At(t, "written") /\ "fsync" \in Faults
  /\ lock' = NoThread
  /\ Goto(t, "idle")
  /\ UNCHANGED <<fileVars, previous, event, begun, logged, interrupted>>

----------------------------------------------------------------------------
(* The constructor, and the end of the process.                            *)

Corrupt == \E i \in 1 .. Len(lines) : ~Readable(lines[i])

Start ==
  /\ mode = "down" /\ ~Corrupt
  /\ previous' = IF lines = << >> THEN Genesis ELSE lines[Len(lines)].id
  /\ mode' = "up"
  /\ UNCHANGED <<fileVars, lock, threadVars, begun, logged, interrupted>>

StartRefused ==
  /\ mode = "down" /\ Corrupt
  /\ mode' = "refused"
  /\ UNCHANGED <<fileVars, previous, lock, threadVars, begun, logged, interrupted>>

Stopped ==
  /\ mode' = "down" /\ lock' = NoThread /\ previous' = Genesis
  /\ pc' = [t \in Threads |-> "idle"] /\ event' = [t \in Threads |-> NoEvent]

Kill ==
  /\ mode = "up"
  /\ Stopped
  /\ lines' \in {lines} \union
       UNION {PartlyWritten(lines, event[t]) :
                t \in {t \in Threads : pc[t] = "locked" /\ "torn" \in Faults}}
  /\ interrupted' = (interrupted \/ lines' # lines)
  /\ UNCHANGED <<synced, begun, logged>>

PowerLoss ==
  /\ "power" \in Faults /\ mode = "up"
  /\ Stopped
  /\ \E n \in synced .. Len(lines) :
       lines' = SubSeq(lines, 1, n) /\ synced' = n
  /\ UNCHANGED <<begun, logged, interrupted>>

Next ==
  \/ \E t \in Threads :
       Build(t) \/ Acquire(t) \/ WriteLine(t) \/ SyncLine(t) \/ Publish(t)
         \/ WriteFails(t) \/ SyncFails(t)
  \/ Start \/ StartRefused \/ Kill \/ PowerLoss

Spec == Init /\ [][Next]_vars

----------------------------------------------------------------------------
(* Properties.                                                             *)

Events == [id : Nat, prev : Nat]
Lines  == [id : Nat, prev : Nat, kind : {"event", "unterminated", "torn", "garbled"}]

(* Every variable keeps its type, and a thread inside the locked part of   *)
(* record holds the lock.                                                  *)
TypeOK ==
  /\ mode \in {"up", "down", "refused"}
  /\ lines \in Seq(Lines) /\ synced \in 0 .. Len(lines)
  /\ previous \in Nat /\ begun \in Nat /\ logged \subseteq 1 .. begun
  /\ lock \in Threads \union {NoThread}
  /\ pc \in [Threads -> {"idle", "built", "locked", "written", "synced"}]
  /\ event \in [Threads -> Events]
  /\ \A t \in Threads : pc[t] \in {"locked", "written", "synced"} <=> lock = t
  /\ interrupted \in BOOLEAN

Before(i) == IF i = 1 THEN Genesis ELSE lines[i - 1].id

(* "An audit hash chain" (README.md): each event carries the hash of the   *)
(* event on the line before it.                                            *)
ChainUnbroken ==
  \A i \in 1 .. Len(lines) :
    lines[i].kind = "event" /\ (i = 1 \/ Readable(lines[i - 1]))
      => lines[i].prev = Before(i)

(* What holds for any number of threads: up to the first unreadable line,  *)
(* an event refers to the initial hash or to an event on an earlier line,  *)
(* so the file is a tree that a reader can verify although it may fork.    *)
ChainRooted ==
  \A i \in 1 .. Len(lines) :
    lines[i].kind = "event" =>
      \/ lines[i].prev = Genesis
      \/ \E j \in 1 .. i - 1 : lines[j].id = lines[i].prev \/ ~Readable(lines[j])

(* While no thread is writing, and no write was cut short, the published   *)
(* hash is that of a line after which no record has returned: an event     *)
(* built now extends everything that was reported as logged, although the  *)
(* lines of failed fsyncs may stand behind it.                             *)
HeadIsLast ==
  (mode = "up" /\ lock = NoThread /\ ~interrupted) =>
    \E i \in 0 .. Len(lines) :
      /\ previous = IF i = 0 THEN Genesis ELSE lines[i].id
      /\ \A j \in i + 1 .. Len(lines) : lines[j].id \notin logged

(* An event whose record returned can be read back after a crash, and a    *)
(* start is refused only when some write was cut short.                    *)
LoggedReadable ==
  ~interrupted =>
    /\ mode # "refused"
    /\ \A e \in logged : \E i \in 1 .. Len(lines) : lines[i].id = e /\ Readable(lines[i])
=============================================================================
