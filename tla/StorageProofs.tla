--------------------------- MODULE StorageProofs ---------------------------
(***************************************************************************)
(* Proofs about StorageEngine: every variable keeps its type, and, in the  *)
(* environments where the code keeps its promise, an acknowledged mutation *)
(* is always recoverable, a restart is invisible and sequence numbers are  *)
(* unique; in every environment a start is refused only for damage and     *)
(* drops nothing before the last line; and the engine implements           *)
(* DurableStore where the code syncs what power can lose.                  *)
(***************************************************************************)
EXTENDS StorageEngine, WellFoundedInduction, TLAPS

(* A file replay reads to its end: records in increasing order, and at     *)
(* most the last line torn.                                                *)
Sound(f) ==
  \A i \in 1 .. Len(f) : Intact(f, i) \/ (i = Len(f) /\ f[i].kind = "torn")

(* The files the next start may find.                                      *)
Logs  == {log}  \union IF PowerLosses THEN disk ELSE {}
Snaps == {snap} \union IF PowerLosses THEN snapDisk ELSE {}

LogsSound   == \A f \in Logs : Sound(f)
(* No two records have the same number.                                    *)
Injective(S) == \A a, b \in S : a.seq = b.seq => a = b

SnapsLoad ==
  \A s \in Snaps :
    /\ s.file \in {"absent", "synced"} /\ s.seq <= snap.seq
    /\ Injective(s.recs) /\ \A r \in s.recs : r.seq <= s.seq

AckedOnDisk == \A f \in Logs, s \in Snaps : acked \subseteq Recovered(f, s)

(* The number of the snapshot, and those a start would load.               *)
Numbers == {snap.seq} \union {r.seq : r \in Recovered(log, snap)}

(* No file is more than one number ahead of what a start would show.       *)
NoneFarAhead == \A f \in Logs : \A r \in Replayed(f) : \E n \in Numbers : r.seq <= n + 1

(* Memory and files while the engine runs.                                 *)
Numbered ==
  /\ snap.seq <= seq
  /\ acked \subseteq live
  /\ Injective(live) /\ \A r \in live : r.seq <= seq
  /\ seq = snap.seq \/ \E r \in live : r.seq = seq
  /\ \A f \in Logs : \A r \in Replayed(f) : r.seq <= seq + 1

Current == Record(seq + 1, issued)

(* A start would show what is in memory, and a record not in memory only   *)
(* if its call goes on or has raised.                                      *)
MemoryMatches ==
  /\ live \subseteq Recovered(log, snap)
  /\ pc = "written" =>
       Current \in Replayed(log) /\ Recovered(log, snap) \subseteq live \union {Current}
  /\ pc # "written" =>
       \A r \in Recovered(log, snap) \ live : r.seq = seq + 1 /\ r.mut \in raised

CheckpointHolds ==
  /\ pc \in {"temporary", "tempSynced"} => tmp.seq = seq /\ tmp.recs = live
  /\ pc = "tempSynced" => tmp.file = "synced"
  /\ pc \in {"replaced", "truncate", "truncated"} => snap.recs = live /\ snap.seq = seq
  /\ pc \in {"truncate", "truncated"} => \A s \in Snaps : s = snap

Running == mode = "up" => Numbered /\ MemoryMatches /\ CheckpointHolds

SafeInv ==
  LogsSound /\ SnapsLoad /\ AckedOnDisk /\ NoneFarAhead /\ Running /\ Injective(acked)

(* What is buffered has the next number, and its calls have raised; the    *)
(* mutation in progress is neither acknowledged nor raised.                *)
Control ==
  /\ mode # "up" => pc = "idle" /\ buffer = << >>
  /\ pc = "written" => buffer = << >>
  /\ \A i \in 1 .. Len(buffer) : buffer[i].seq = seq + 1 /\ buffer[i].mut \in raised
  /\ \A m \in raised \union {r.mut : r \in acked} :
       m <= issued /\ (pc \in {"append", "written"} => m # issued)

IInv == TypeOK /\ Control /\ (Safe => SafeInv)

----------------------------------------------------------------------------
(* Lemmas about the operators on files.                                    *)

(* Records and blank lines have the types the variables need.              *)
LEMMA RecordTypes ==
  /\ \A n \in Nat \ {0}, m \in Nat : Record(n, m) \in Records /\ Record(n, m) \in Line
  /\ Blank("torn") \in Line /\ Blank("garbled") \in Line /\ Blank("badsum") \in Line
  /\ \A r \in Records : r.seq \in Nat \ {0} /\ r.kind = "record" /\ r \in Line
  /\ NoSnapshot \in SnapFiles
BY DEF Record, Records, Line, Blank, NoSnapshot, SnapFiles, FileStates

(* The log stays a sequence of lines when a record is written.             *)
LEMMA WrittenType ==
  ASSUME NEW f \in LineSeqs, NEW r \in Records
  PROVE  Written(f, r) \in LineSeqs
<1>1. r \in Line /\ Blank("garbled") \in Line
  BY RecordTypes
<1>2. CASE Unterminated(f)
  <2>1. Len(f) \in 1 .. Len(f)
    BY <1>2 DEF Unterminated, LineSeqs
  <2> QED BY <1>1, <1>2, <2>1 DEF Written, LineSeqs
<1>3. CASE ~Unterminated(f)
  BY <1>1, <1>3 DEF Written, LineSeqs
<1> QED BY <1>2, <1>3

(* What an interrupted write leaves is a sequence of lines.                *)
LEMMA PartlyWrittenType ==
  ASSUME NEW f \in LineSeqs
  PROVE  PartlyWritten(f) \subseteq LineSeqs
<1>1. Append(f, Blank("torn")) \in LineSeqs
  BY RecordTypes DEF LineSeqs
<1> QED BY <1>1 DEF PartlyWritten

(* Replay returns records of the file.                                     *)
LEMMA ReplayedType ==
  ASSUME NEW f \in LineSeqs
  PROVE  Replayed(f) \subseteq Records
<1>1. \A i \in 1 .. Len(f) : f[i] \in Line
  BY DEF LineSeqs
<1>2. \A l \in Line : l.kind = "record" => l \in Records
  BY DEF Line, Blank
<1>3. \A i \in 1 .. Len(f) : (\A j \in 1 .. i : Intact(f, j)) => f[i].kind = "record"
  BY DEF Intact, LineSeqs
<1> QED BY <1>1, <1>2, <1>3 DEF Replayed

(* What a start rebuilds is a set of records.                              *)
LEMMA RecoveredType ==
  ASSUME NEW f \in LineSeqs, NEW s \in SnapFiles
  PROVE  Recovered(f, s) \subseteq Records
BY ReplayedType DEF Recovered, SnapFiles

(* A set of natural numbers has a least one.                               *)
LEMMA LeastNumber ==
  ASSUME NEW S \in SUBSET Nat, S # {}
  PROVE  \E x \in S : \A y \in S : x <= y
<1> DEFINE R == {ss \in Nat \X Nat : ss[1] < ss[2]}
<1>1. IsWellFoundedOn(R, Nat)
  BY NatLessThanWellFounded, Zenon DEF OpToRel
<1> HIDE DEF R
<1>2. PICK x \in S : \A y \in S : ~(<<y, x>> \in R)
  BY <1>1, WFMin
<1>3. \A y \in S : ~(y < x)
  BY <1>2 DEF R
<1> QED BY <1>3

(* Where a file stops to be intact there is a first such line.             *)
LEMMA FirstNotIntact ==
  ASSUME NEW f \in LineSeqs, NEW n \in 1 .. Len(f), ~Intact(f, n)
  PROVE  \E i \in 1 .. n : ~Intact(f, i) /\ \A j \in 1 .. i - 1 : Intact(f, j)
<1> DEFINE S == {i \in 1 .. n : ~Intact(f, i)}
<1>1. Len(f) \in Nat
  BY DEF LineSeqs
<1>2. S \in SUBSET Nat /\ n \in S
  BY <1>1
<1>3. PICK i \in S : \A j \in S : i <= j
  BY <1>2, LeastNumber
<1>4. ASSUME NEW j \in 1 .. i - 1 PROVE Intact(f, j)
  <2>1. j \in 1 .. n /\ ~(i <= j)
    BY <1>1, <1>3
  <2> QED BY <1>3, <2>1
<1> QED BY <1>3, <1>4

(* The numbers of an intact prefix increase.                               *)
LEMMA Increasing ==
  ASSUME NEW f \in LineSeqs, NEW k \in 1 .. Len(f), \A j \in 1 .. k : Intact(f, j),
         NEW i \in 1 .. k - 1
  PROVE  f[i].seq < f[k].seq
<1> DEFINE S == {j \in i + 1 .. k : ~(f[i].seq < f[j].seq)}
<1>1. /\ Len(f) \in Nat /\ i \in Nat /\ k \in Nat /\ i >= 1 /\ k <= Len(f)
      /\ \A j \in 1 .. k : f[j].seq \in Nat
  <2>1. \A j \in 1 .. k : f[j] \in Line
    BY DEF LineSeqs
  <2> QED BY <2>1 DEF LineSeqs, Line, Records, Blank
<1>2. ASSUME S # {} PROVE FALSE
  <2>1. S \in SUBSET Nat
    BY <1>1
  <2>2. PICK j \in S : \A m \in S : j <= m
    BY <1>2, <2>1, LeastNumber
  <2>3. j \in 2 .. k /\ j - 1 \in 1 .. k /\ f[j].seq > f[j - 1].seq
    BY <1>1, <2>2 DEF Intact
  <2>4. CASE j = i + 1
    BY <1>1, <2>2, <2>3, <2>4
  <2>5. CASE j # i + 1
    <3>1. j - 1 \in i + 1 .. k /\ ~(j <= j - 1)
      BY <1>1, <2>2, <2>5
    <3>2. f[i].seq < f[j - 1].seq
      BY <2>2, <3>1
    <3> QED BY <1>1, <2>2, <2>3, <3>2
  <2> QED BY <2>4, <2>5
<1> QED BY <1>1, <1>2

(* So replay returns no number twice.                                      *)
LEMMA ReplayedInjective ==
  ASSUME NEW f \in LineSeqs
  PROVE  Injective(Replayed(f))
<1> SUFFICES ASSUME NEW i \in 1 .. Len(f), \A j \in 1 .. i : Intact(f, j),
                    NEW k \in 1 .. Len(f), \A j \in 1 .. k : Intact(f, j),
                    f[i].seq = f[k].seq
             PROVE  f[i] = f[k]
  BY DEF Injective, Replayed
<1>1. Len(f) \in Nat /\ f[i].seq \in Nat
  <2>1. f[i] \in Line
    BY DEF LineSeqs
  <2> QED BY <2>1 DEF LineSeqs, Line, Records, Blank
<1>2. ~(i < k)
  <2>1. ASSUME i < k PROVE FALSE
    <3>1. i \in 1 .. k - 1
      BY <1>1, <2>1
    <3>2. f[i].seq < f[k].seq
      BY <3>1, Increasing
    <3> QED BY <1>1, <3>2
  <2> QED BY <2>1
<1>3. ~(k < i)
  <2>1. ASSUME k < i PROVE FALSE
    <3>1. k \in 1 .. i - 1
      BY <1>1, <2>1
    <3>2. f[k].seq < f[i].seq
      BY <3>1, Increasing
    <3> QED BY <1>1, <3>2
  <2> QED BY <2>1
<1> QED BY <1>1, <1>2, <1>3

(* Nor does a start, from a snapshot that covers its own records.          *)
LEMMA RecoveredInjective ==
  ASSUME NEW f \in LineSeqs, NEW s \in SnapFiles, Injective(s.recs),
         \A r \in s.recs : r.seq <= s.seq
  PROVE  Injective(Recovered(f, s))
<1>1. s.seq \in Nat /\ \A r \in Recovered(f, s) : r.seq \in Nat
  BY RecoveredType, RecordTypes DEF SnapFiles
<1> SUFFICES ASSUME NEW a \in Recovered(f, s), NEW b \in Recovered(f, s), a.seq = b.seq
             PROVE  a = b
  BY DEF Injective
<1>2. CASE a \in s.recs
  BY <1>1, <1>2 DEF Recovered, Injective
<1>3. CASE a \notin s.recs
  <2>1. a \in Replayed(f) /\ a.seq > s.seq
    BY <1>3 DEF Recovered
  <2>2. b \in Replayed(f)
    BY <1>1, <2>1 DEF Recovered
  <2> QED BY <2>1, <2>2, ReplayedInjective DEF Injective
<1> QED BY <1>2, <1>3

(* A sound file loads.                                                     *)
LEMMA SoundLoads ==
  ASSUME NEW f \in LineSeqs, Sound(f)
  PROVE  ~ReplayFails(f)
BY DEF Sound, ReplayFails, IgnoredAsTorn

(* Replay of a sound file returns all its records.                         *)
LEMMA SoundReplays ==
  ASSUME NEW f \in LineSeqs, Sound(f)
  PROVE  Replayed(f) = {f[i] : i \in {k \in 1 .. Len(f) : f[k].kind = "record"}}
<1>1. ASSUME NEW k \in 1 .. Len(f)
      PROVE  (\A j \in 1 .. k : Intact(f, j)) <=> f[k].kind = "record"
  <2>1. (\A j \in 1 .. k : Intact(f, j)) => f[k].kind = "record"
    BY DEF Intact, LineSeqs
  <2>2. ASSUME f[k].kind = "record", NEW j \in 1 .. k PROVE Intact(f, j)
    BY <2>2 DEF Sound, LineSeqs
  <2> QED BY <2>1, <2>2
<1> QED BY <1>1 DEF Replayed

(* A record that replay takes at the end of a sound file is read back      *)
(* after all the others; that it is taken means that no torn line is there *)
(* and all other numbers are smaller.                                      *)
LEMMA AppendSound ==
  ASSUME NEW f \in LineSeqs, Sound(f), NEW r \in Records,
         Intact(Written(f, r), Len(Written(f, r)))
  PROVE  /\ ~Unterminated(f) /\ Sound(Written(f, r))
         /\ \A q \in Replayed(f) : q.seq < r.seq
         /\ Replayed(Written(f, r)) = Replayed(f) \union {r}
<1> DEFINE g == Append(f, r)
<1>0. ~Unterminated(f) /\ Written(f, r) = g
  <2>1. ASSUME Unterminated(f) PROVE FALSE
    <3> DEFINE h == [f EXCEPT ![Len(f)] = Blank("garbled")]
    <3>1. Len(h) = Len(f) /\ Len(f) \in 1 .. Len(f) /\ h[Len(f)].kind = "garbled"
      BY <2>1 DEF Unterminated, LineSeqs, Blank
    <3>2. Intact(h, Len(h))
      BY <2>1 DEF Written
    <3>3. h[Len(h)].kind = "record"
      BY <3>2 DEF Intact
    <3> QED BY <3>1, <3>3
  <2> QED BY <2>1 DEF Written
<1>1. /\ g \in LineSeqs /\ Len(g) = Len(f) + 1 /\ Len(f) \in Nat
      /\ g[Len(f) + 1] = r
      /\ \A i \in 1 .. Len(f) : g[i] = f[i]
  BY RecordTypes DEF LineSeqs
<1>2. r.kind = "record" /\ r.seq \in Nat \ {0}
  BY RecordTypes
<1>3. \A i \in 1 .. Len(f) : Intact(f, i)
  BY <1>0 DEF Sound, Unterminated, LineSeqs
<1>4. \A i \in 1 .. Len(f) : Intact(g, i)
  BY <1>1, <1>3 DEF Intact
<1>5. Intact(g, Len(f) + 1)
  BY <1>0, <1>1
<1>6. \A i \in 1 .. Len(g) : Intact(g, i)
  BY <1>1, <1>4, <1>5
<1>7. Sound(g)
  BY <1>6 DEF Sound
<1>8. Replayed(f) = {f[i] : i \in 1 .. Len(f)}
  <2>1. \A k \in 1 .. Len(f) : \A j \in 1 .. k : Intact(f, j)
    BY <1>1, <1>3
  <2> QED BY <2>1 DEF Replayed
<1>9. Replayed(g) = {g[i] : i \in 1 .. Len(g)}
  <2>1. \A k \in 1 .. Len(g) : \A j \in 1 .. k : Intact(g, j)
    BY <1>1, <1>6
  <2> QED BY <2>1 DEF Replayed
<1>10. {g[i] : i \in 1 .. Len(g)} = {f[i] : i \in 1 .. Len(f)} \union {r}
  <2>1. 1 .. Len(g) = (1 .. Len(f)) \union {Len(f) + 1}
    BY <1>1
  <2> QED BY <1>1, <2>1
<1>11. ASSUME NEW q \in Replayed(f) PROVE q.seq < r.seq
  <2>1. PICK i \in 1 .. Len(f) : q = f[i]
    BY <1>8
  <2>2. /\ Len(g) \in 1 .. Len(g) /\ i \in 1 .. Len(g) - 1
        /\ \A j \in 1 .. Len(g) : Intact(g, j)
    BY <1>1, <1>6, <2>1
  <2> HIDE DEF g
  <2>3. g[i].seq < g[Len(g)].seq
    BY <1>1, <2>2, Increasing
  <2> QED BY <1>1, <2>1, <2>3
<1> QED BY <1>0, <1>7, <1>8, <1>9, <1>10, <1>11

(* A torn line at the end of a sound file changes nothing that is read.    *)
LEMMA TornSound ==
  ASSUME NEW f \in LineSeqs, Sound(f), NEW g \in PartlyWritten(f)
  PROVE  Sound(g) /\ Replayed(g) = Replayed(f)
<1>1. CASE g = f
  BY <1>1
<1>2. CASE g = Append(f, Blank("torn")) /\ ~Unterminated(f)
  <2>1. /\ g \in LineSeqs /\ Len(g) = Len(f) + 1 /\ Len(f) \in Nat
        /\ g[Len(f) + 1].kind = "torn"
        /\ \A i \in 1 .. Len(f) : g[i] = f[i]
    BY <1>2, RecordTypes DEF LineSeqs, Blank
  <2>2. \A i \in 1 .. Len(f) : Intact(f, i)
    BY <1>2 DEF Sound, Unterminated, LineSeqs
  <2>3. \A i \in 1 .. Len(f) : Intact(g, i)
    <3>1. ASSUME NEW i \in 1 .. Len(f), i # 1 PROVE i - 1 \in 1 .. Len(f)
      BY <2>1, <3>1
    <3> QED BY SMTT(30), <2>1, <2>2, <3>1 DEF Intact
  <2>4. ~Intact(g, Len(g))
    BY <2>1 DEF Intact
  <2>5. Sound(g)
    BY <2>1, <2>3 DEF Sound
  <2>6. {k \in 1 .. Len(g) : \A j \in 1 .. k : Intact(g, j)} = 1 .. Len(f)
    BY <2>1, <2>3, <2>4
  <2>7. {k \in 1 .. Len(f) : \A j \in 1 .. k : Intact(f, j)} = 1 .. Len(f)
    BY <2>1, <2>2
  <2> QED BY <2>1, <2>5, <2>6, <2>7 DEF Replayed
<1> QED BY <1>1, <1>2 DEF PartlyWritten

(* An empty log is sound and restores nothing.                             *)
LEMMA EmptyLog == << >> \in LineSeqs /\ Sound(<< >>) /\ Replayed(<< >>) = {}
BY DEF LineSeqs, Sound, Replayed

----------------------------------------------------------------------------
(* Type correctness.                                                       *)

(* The initial state is typed.                                             *)
LEMMA InitTypeOK == Init => TypeOK
<1> SUFFICES ASSUME Init PROVE TypeOK
  OBVIOUS
<1>1. log \in LineSeqs /\ disk \in SUBSET LineSeqs /\ buffer \in Seq(Records)
  BY EmptyLog DEF Init, WalInit
<1>2. snap \in SnapFiles /\ tmp \in SnapFiles /\ snapDisk \in SUBSET SnapFiles
  BY RecordTypes DEF Init, SnapInit
<1> QED BY <1>1, <1>2 DEF Init, TypeOK, Steps

(* The appends and the operations on the log keep the log typed.           *)
LogTyped == log \in LineSeqs /\ disk \in SUBSET LineSeqs /\ buffer \in Seq(Records)

LEMMA LogOpsTyped ==
  ASSUME TypeOK
  PROVE  /\ \A r \in Records : WriteRecord(r) \/ WriteFails(r) => LogTyped'
         /\ FlushLine \/ SyncLog \/ TruncateLog \/ LogLosesPower => LogTyped'
         /\ \A w \in BOOLEAN : HandleLost(w) => LogTyped'
<1>1. log \in LineSeqs /\ disk \in SUBSET LineSeqs /\ buffer \in Seq(Records)
  BY DEF TypeOK
<1> USE <1>1 DEF LogTyped
<1>2. ASSUME NEW r \in Records, WriteRecord(r) PROVE LogTyped'
  BY <1>2, WrittenType, PartlyWrittenType DEF WriteRecord
<1>3. ASSUME NEW r \in Records, WriteFails(r) PROVE LogTyped'
  BY <1>3, PartlyWrittenType DEF WriteFails
<1>4. ASSUME FlushLine PROVE LogTyped'
  <2>1. Head(buffer) \in Records /\ Tail(buffer) \in Seq(Records)
    BY <1>4 DEF FlushLine
  <2>2. log' \in LineSeqs
    BY <1>4, <2>1, WrittenType DEF FlushLine
  <2> QED BY <1>4, <2>1, <2>2, PartlyWrittenType DEF FlushLine
<1>5. ASSUME NEW w \in BOOLEAN, HandleLost(w) PROVE LogTyped'
  BY <1>5, PartlyWrittenType DEF HandleLost
<1>6. ASSUME TruncateLog PROVE LogTyped'
  BY <1>6, EmptyLog DEF TruncateLog
<1>7. ASSUME SyncLog PROVE LogTyped'
  BY <1>7 DEF SyncLog
<1>8. ASSUME LogLosesPower PROVE LogTyped'
  BY <1>8 DEF LogLosesPower
<1> QED BY <1>2, <1>3, <1>4, <1>5, <1>6, <1>7, <1>8

(* A damaged line is a line.                                               *)
LEMMA DamageTyped ==
  ASSUME TypeOK, NEW i \in 1 .. Len(log), NEW k \in Damage, DamageLine(i, k)
  PROVE  LogTyped'
<1>1. Blank(k) \in Line
  BY DamageAssumption, RecordTypes
<1>2. [log EXCEPT ![i] = Blank(k)] \in LineSeqs
  BY <1>1 DEF TypeOK, LineSeqs
<1> QED BY <1>2 DEF DamageLine, LogTyped, TypeOK

(* Each step keeps the types.                                              *)
LEMMA NextTypeOK == TypeOK /\ [Next]_vars => TypeOK'
<1> SUFFICES ASSUME TypeOK, [Next]_vars PROVE TypeOK'
  OBVIOUS
<1> USE DEF TypeOK, Goto, At, Steps
<1>1. Record(seq + 1, issued) \in Records
  BY RecordTypes
<1>2. Recovered(log, snap) \subseteq Records
  BY RecoveredType
<1>3. CASE BeginMutation
  BY <1>3 DEF BeginMutation, walVars, snapVars
<1>4. CASE AppendRecord
  BY <1>4, <1>1, LogOpsTyped DEF AppendRecord, snapVars, LogTyped, LastSpoiled, Intact
<1>5. CASE CommitMutation
  BY <1>5, <1>1, LogOpsTyped DEF CommitMutation, snapVars, LogTyped
<1>19. CASE FlushBuffered
  BY <1>19, LogOpsTyped DEF FlushBuffered, snapVars, LogTyped, LastSpoiled, Intact
<1>20. CASE AppendFails
  BY <1>20, <1>1, LogOpsTyped DEF AppendFails, MutationRaises, snapVars, LogTyped
<1>21. CASE SyncFails \/ CheckpointFails
  BY <1>21 DEF SyncFails, MutationRaises, CheckpointFails, walVars, snapVars
<1>6. CASE BeginCheckpoint
  BY <1>6 DEF BeginCheckpoint, WriteTemporary, walVars, SnapFiles, FileStates
<1>7. CASE SyncSnapshot
  BY <1>7 DEF SyncSnapshot, FsyncTemporary, walVars, SnapFiles, FileStates
<1>8. CASE InstallSnapshot
  <2>1. OnMedium(tmp) \in SnapFiles /\ NoSnapshot \in SnapFiles
    BY RecordTypes DEF OnMedium, SnapFiles, FileStates
  <2> QED BY <1>8, <2>1 DEF InstallSnapshot, ReplaceTarget, walVars
<1>9. CASE SyncDirectory
  <2>1. OnMedium(snap) \in SnapFiles
    BY DEF OnMedium, SnapFiles, FileStates
  <2> QED BY <1>9, <2>1 DEF SyncDirectory, FsyncDirectory, walVars
<1>10. CASE DropLog
  BY <1>10, LogOpsTyped DEF DropLog, snapVars, LogTyped
<1>11. CASE FinishCheckpoint
  BY <1>11, LogOpsTyped DEF FinishCheckpoint, snapVars, LogTyped
<1>12. CASE Open
  <2>1. \A r \in Recovered(log, snap) : r.seq \in Nat
    BY <1>2, RecordTypes
  <2>2. snap.seq \in Nat
    BY DEF SnapFiles
  <2> QED BY <1>12, <1>2, <2>1, <2>2 DEF Open, walVars, snapVars
<1>13. CASE OpenRefused
  BY <1>13 DEF OpenRefused, walVars, snapVars
<1>14. CASE Close
  BY <1>14 DEF Close, Stopped, walVars, snapVars
<1>15. CASE Kill
  BY <1>15, LogOpsTyped DEF Kill, Stopped, walVars, snapVars, LogTyped
<1>16. CASE PowerLoss
  BY <1>16, LogOpsTyped, RecordTypes DEF PowerLoss, Stopped, SnapshotLosesPower, LogTyped
<1>17. CASE Decay
  BY <1>17, DamageTyped DEF Decay, snapVars, LogTyped
<1>18. CASE UNCHANGED vars
  BY <1>18 DEF vars, walVars, snapVars, engineVars
<1> QED
  BY <1>3, <1>4, <1>5, <1>6, <1>7, <1>8, <1>9, <1>10, <1>11, <1>12, <1>13,
     <1>14, <1>15, <1>16, <1>17, <1>18, <1>19, <1>20, <1>21 DEF Next

(* Every variable keeps its type, for every environment and every number   *)
(* of mutations.                                                           *)
THEOREM TypeCorrect == Spec => []TypeOK
BY InitTypeOK, NextTypeOK, PTL DEF Spec

----------------------------------------------------------------------------
(* The inductive invariant, one lemma per group of actions.                *)

(* The initial state satisfies it.                                         *)
LEMMA InitIInv == Init => IInv
<1> SUFFICES ASSUME Init PROVE IInv
  OBVIOUS
<1> USE DEF Init, WalInit, SnapInit
<1>1. TypeOK
  BY InitTypeOK
<1>2. Logs = {<< >>} /\ Snaps = {NoSnapshot}
  BY DEF Logs, Snaps
<1>3. LogsSound /\ SnapsLoad /\ AckedOnDisk /\ NoneFarAhead /\ Running /\ Injective(acked)
  BY <1>2, EmptyLog
     DEF LogsSound, SnapsLoad, AckedOnDisk, NoneFarAhead, Running, Injective, NoSnapshot
<1>4. Control
  BY DEF Control
<1> QED BY <1>1, <1>3, <1>4 DEF IInv, SafeInv

(* A step keeps the control part of the invariant.                         *)
LEMMA NextControl ==
  ASSUME TypeOK, Control, [Next]_vars
  PROVE  Control'
<1> USE DEF At, Goto
<1>0. /\ issued \in Nat /\ seq \in Nat /\ buffer \in Seq(Records)
      /\ \A r \in Records : r.mut \in Nat
      /\ \A m \in raised \union {r.mut : r \in acked} : m \in Nat
  BY DEF TypeOK, Records
<1>1. CASE BeginMutation
  <2>1. /\ UNCHANGED <<mode, buffer, seq, acked, raised>> /\ mode = "up" /\ pc' = "append"
        /\ issued' = issued + 1
    BY <1>1 DEF BeginMutation, walVars
  <2>2. ASSUME NEW m \in raised \union {r.mut : r \in acked} PROVE m <= issued' /\ m # issued'
    <3>1. m <= issued /\ m \in Nat
      BY <1>0 DEF Control
    <3> QED BY <1>0, <2>1, <3>1
  <2> QED BY <2>1, <2>2 DEF Control
<1>2. CASE AppendRecord
  <2>1. /\ UNCHANGED <<mode, buffer, seq, acked, issued, raised>> /\ mode = "up"
        /\ pc = "append" /\ pc' = "written" /\ buffer = << >>
    BY <1>2 DEF AppendRecord, WriteRecord
  <2> QED BY <2>1 DEF Control
<1>3. CASE CommitMutation
  <2>1. Record(seq + 1, issued).mut = issued
    BY DEF Record
  <2> QED BY <1>0, <1>3, <2>1 DEF CommitMutation, SyncLog, Control
<1>4. CASE FlushBuffered
  <2>1. /\ mode = "up" /\ pc # "written" /\ UNCHANGED <<mode, pc, seq, acked, issued, raised>>
        /\ buffer # << >> /\ buffer' = Tail(buffer)
    BY <1>4 DEF FlushBuffered, FlushLine
  <2>2. \A i \in 1 .. Len(buffer') : i + 1 \in 1 .. Len(buffer) /\ (buffer')[i] = buffer[i + 1]
    BY <1>0, <2>1
  <2> QED BY <2>1, <2>2 DEF Control
<1>5. CASE AppendFails
  <2> DEFINE r == Record(seq + 1, issued)
  <2>1. /\ mode = "up" /\ pc = "append" /\ UNCHANGED <<mode, seq, acked, issued>>
        /\ pc' = "idle" /\ raised' = raised \union {issued}
        /\ buffer' \in {buffer, Append(buffer, r)}
    BY <1>5 DEF AppendFails, WriteFails, MutationRaises
  <2>2. r \in Records /\ r.seq = seq + 1 /\ r.mut = issued
    BY <1>0, RecordTypes DEF Record
  <2> HIDE DEF r
  <2>3. ASSUME NEW i \in 1 .. Len(buffer')
        PROVE  (buffer')[i].seq = seq' + 1 /\ (buffer')[i].mut \in raised'
    <3>1. CASE i \in 1 .. Len(buffer) /\ (buffer')[i] = buffer[i]
      BY <2>1, <3>1 DEF Control
    <3>2. CASE (buffer')[i] = r
      BY <2>1, <2>2, <3>2
    <3> QED BY <1>0, <2>1, <2>2, <2>3, <3>1, <3>2
  <2> QED BY <1>0, <2>1, <2>3 DEF Control
<1>6. CASE SyncFails
  BY <1>0, <1>6 DEF SyncFails, MutationRaises, Control, walVars
<1>7. CASE \/ BeginCheckpoint \/ SyncSnapshot \/ InstallSnapshot \/ SyncDirectory
           \/ CheckpointFails \/ DropLog \/ FinishCheckpoint
  <2>1. /\ UNCHANGED <<mode, buffer, seq, acked, issued, raised>> /\ mode = "up"
        /\ pc' \notin {"append", "written"}
    BY <1>7 DEF BeginCheckpoint, SyncSnapshot, InstallSnapshot, SyncDirectory,
                CheckpointFails, DropLog, FinishCheckpoint, TruncateLog, SyncLog, walVars
  <2> QED BY <2>1 DEF Control
<1>8. CASE Open \/ OpenRefused
  <2>1. /\ UNCHANGED <<buffer, acked, issued, raised>> /\ mode = "down" /\ pc' = pc
    BY <1>8 DEF Open, OpenRefused, walVars
  <2> QED BY <2>1 DEF Control
<1>9. CASE Close \/ Kill \/ PowerLoss
  <2>1. /\ UNCHANGED <<acked, issued, raised>> /\ mode' = "down" /\ pc' = "idle"
        /\ buffer' = << >>
    BY <1>9 DEF Close, Kill, PowerLoss, Stopped, HandleLost, LogLosesPower, walVars
  <2> QED BY <2>1 DEF Control
<1>10. CASE Decay
  BY <1>10 DEF Decay, DamageLine, Control
<1>11. CASE UNCHANGED vars
  BY <1>11 DEF vars, engineVars, walVars, Control
<1> QED
  BY <1>1, <1>2, <1>3, <1>4, <1>5, <1>6, <1>7, <1>8, <1>9, <1>10, <1>11 DEF Next

(* Steps that leave the log as it is read, but perhaps for a torn line.    *)
LEMMA LogRead ==
  ASSUME TypeOK, SafeInv, UNCHANGED <<snap, snapDisk>>,
         log' \in PartlyWritten(log), disk' \subseteq disk \union {log'} \union PartlyWritten(log)
  PROVE  /\ Snaps' = Snaps /\ Replayed(log)' = Replayed(log)
         /\ Recovered(log, snap)' = Recovered(log, snap)
         /\ \A f \in Logs' : \E g \in Logs : Replayed(f) = Replayed(g)
         /\ LogsSound' /\ SnapsLoad' /\ NoneFarAhead'
         /\ \A f \in Logs', s \in Snaps' : acked \subseteq Recovered(f, s)
<1>1. log \in LineSeqs /\ Sound(log) /\ log \in Logs
  BY DEF TypeOK, SafeInv, LogsSound, Logs
<1>2. Snaps' = Snaps
  BY DEF Snaps
<1>3. Replayed(log') = Replayed(log)
  BY <1>1, TornSound
<1>4. Replayed(log)' = Replayed(log)
  BY <1>3 DEF Replayed, Intact
<1>5. Recovered(log, snap)' = Recovered(log, snap)
  BY <1>4 DEF Recovered
<1>6. ASSUME NEW f \in Logs' PROVE Sound(f) /\ \E g \in Logs : Replayed(f) = Replayed(g)
  <2>1. CASE f \in Logs
    BY <2>1 DEF SafeInv, LogsSound
  <2>2. CASE f \in PartlyWritten(log)
    BY <2>2, <1>1, TornSound
  <2> QED BY <2>1, <2>2 DEF Logs
<1>7. LogsSound'
  BY <1>6 DEF LogsSound
<1>8. SnapsLoad'
  BY <1>2 DEF SafeInv, SnapsLoad, Injective
<1>9. NoneFarAhead'
  <2>1. Numbers' = Numbers
    BY <1>5 DEF Numbers
  <2> QED BY <1>6, <2>1 DEF SafeInv, NoneFarAhead
<1>10. \A f \in Logs', s \in Snaps' : acked \subseteq Recovered(f, s)
  BY <1>2, <1>6 DEF SafeInv, AckedOnDisk, Recovered
<1> QED BY <1>2, <1>4, <1>5, <1>6, <1>7, <1>8, <1>9, <1>10

(* A file is one of those an interrupted write may leave of it.            *)
LEMMA LogItself == \A f : f \in PartlyWritten(f)
BY DEF PartlyWritten

(* Steps of a running engine that touch neither the log nor the snapshot.  *)
LEMMA MemoryStepsSafe ==
  ASSUME TypeOK, SafeInv,
         \/ BeginMutation \/ AppendFails \/ SyncFails \/ CheckpointFails
         \/ BeginCheckpoint \/ SyncSnapshot
  PROVE  SafeInv'
<1> USE DEF At, Goto
<1>1. /\ UNCHANGED <<snap, snapDisk, seq, live, acked>> /\ mode' = "up" /\ mode = "up"
      /\ log' \in PartlyWritten(log) /\ disk' \subseteq disk \union {log'} \union PartlyWritten(log)
  BY LogItself
     DEF BeginMutation, AppendFails, WriteFails, SyncFails, MutationRaises, CheckpointFails,
         BeginCheckpoint, SyncSnapshot, WriteTemporary, FsyncTemporary, walVars, snapVars
<1>2. /\ pc' # "written" /\ raised \subseteq raised'
      /\ pc = "written" => pc' = "idle" /\ raised' = raised \union {issued}
  BY DEF BeginMutation, AppendFails, SyncFails, MutationRaises, CheckpointFails,
         BeginCheckpoint, SyncSnapshot
<1>3. /\ Recovered(log, snap)' = Recovered(log, snap) /\ Snaps' = Snaps
      /\ \A f \in Logs' : \E g \in Logs : Replayed(f) = Replayed(g)
      /\ LogsSound' /\ SnapsLoad' /\ NoneFarAhead'
      /\ \A f \in Logs', s \in Snaps' : acked \subseteq Recovered(f, s)
  BY <1>1, LogRead
<1>4. AckedOnDisk' /\ Injective(acked)'
  BY <1>1, <1>3 DEF SafeInv, AckedOnDisk, Injective
<1>5. Numbered'
  <2>1. \A f \in Logs' : \A r \in Replayed(f) : r.seq <= seq' + 1
    BY <1>1, <1>3 DEF SafeInv, Running, Numbered
  <2> QED BY <1>1, <2>1 DEF SafeInv, Running, Numbered, Injective
<1>6. MemoryMatches'
  <2>1. Current.seq = seq + 1 /\ Current.mut = issued
    BY DEF Current, Record
  <2>2. \A r \in Recovered(log, snap) \ live : r.seq = seq + 1 /\ r.mut \in raised'
    BY <1>1, <1>2, <2>1 DEF SafeInv, Running, MemoryMatches
  <2> QED BY <1>1, <1>2, <1>3, <2>2 DEF SafeInv, Running, MemoryMatches
<1>7. CheckpointHolds'
  <2>1. CASE BeginMutation \/ AppendFails \/ SyncFails \/ CheckpointFails
    BY <2>1 DEF BeginMutation, AppendFails, SyncFails, MutationRaises, CheckpointFails,
                CheckpointHolds
  <2>2. CASE BeginCheckpoint
    BY <2>2 DEF BeginCheckpoint, WriteTemporary, CheckpointHolds
  <2>3. CASE SyncSnapshot
    BY <2>3, <1>1 DEF SyncSnapshot, FsyncTemporary, CheckpointHolds, SafeInv, Running, TypeOK, SnapFiles
  <2> QED BY <2>1, <2>2, <2>3
<1> QED BY <1>1, <1>3, <1>4, <1>5, <1>6, <1>7 DEF SafeInv, Running

(* A record that replay takes, with the next number, at the end of the     *)
(* log.                                                                    *)
LEMMA RecordWritten ==
  ASSUME TypeOK, SafeInv, mode = "up", UNCHANGED <<snap, snapDisk>>,
         NEW r \in Records, r.seq = seq + 1,
         log' = Written(log, r), Intact(Written(log, r), Len(Written(log, r))),
         disk' \subseteq disk \union {log'} \union PartlyWritten(log) \union PartlyWritten(log')
  PROVE  /\ log \in LineSeqs /\ Sound(log) /\ Snaps' = Snaps
         /\ \A q \in Replayed(log) : q.seq \in Nat /\ q.seq <= seq
         /\ Replayed(log') = Replayed(log) \union {r}
         /\ \A f \in Logs' :
              \/ Replayed(f) = Replayed(log')
              \/ \E g \in Logs : Replayed(f) = Replayed(g)
         /\ \A f \in Logs' : Sound(f) /\ \A q \in Replayed(f) : q.seq <= seq + 1
         /\ \A f \in Logs', s \in Snaps' : acked \subseteq Recovered(f, s)
         /\ Recovered(log, snap)' = Recovered(log, snap) \union {r}
<1>1. log \in LineSeqs /\ Sound(log) /\ log \in Logs /\ seq \in Nat /\ Snaps' = Snaps
  BY DEF TypeOK, SafeInv, LogsSound, Logs, Snaps
<1>2. /\ Sound(Written(log, r)) /\ Replayed(Written(log, r)) = Replayed(log) \union {r}
      /\ \A q \in Replayed(log) : q.seq < r.seq
  BY <1>1, AppendSound
<1>3. Sound(log') /\ Replayed(log') = Replayed(log) \union {r} /\ log' \in LineSeqs
  BY <1>1, <1>2, WrittenType
<1>4. \A q \in Replayed(log) : q.seq \in Nat /\ q.seq <= seq
  <2>1. \A q \in Replayed(log) : q.seq \in Nat
    BY <1>1, ReplayedType, RecordTypes
  <2> QED BY <1>1, <1>2, <2>1
<1>5. ASSUME NEW f \in Logs'
      PROVE  /\ Sound(f)
             /\ Replayed(f) = Replayed(log') \/ \E g \in Logs : Replayed(f) = Replayed(g)
  <2>1. CASE f \in Logs
    BY <2>1 DEF SafeInv, LogsSound
  <2>2. CASE f \in PartlyWritten(log)
    BY <2>2, <1>1, TornSound
  <2>3. CASE f = log'
    BY <2>3, <1>3
  <2>4. CASE f \in PartlyWritten(log')
    BY <2>4, <1>3, TornSound
  <2> QED BY <2>1, <2>2, <2>3, <2>4 DEF Logs
<1>6. ASSUME NEW f \in Logs', NEW q \in Replayed(f) PROVE q.seq <= seq + 1
  <2>1. CASE q \in Replayed(log')
    BY <2>1, <1>1, <1>3, <1>4
  <2>2. CASE \E g \in Logs : q \in Replayed(g)
    BY <2>2 DEF SafeInv, Running, Numbered
  <2> QED BY <1>5, <2>1, <2>2
<1>7. \A f \in Logs', s \in Snaps' : acked \subseteq Recovered(f, s)
  <2>1. \A f \in Logs' : \E g \in Logs : Replayed(g) \subseteq Replayed(f)
    BY <1>1, <1>3, <1>5
  <2> QED BY <1>1, <2>1 DEF SafeInv, AckedOnDisk, Recovered
<1>8. Recovered(log, snap)' = Recovered(log, snap) \union {r}
  <2>1. Replayed(log)' = Replayed(log) \union {r}
    BY <1>3 DEF Replayed, Intact
  <2>2. r.seq > snap.seq
    BY <1>1 DEF SafeInv, Running, Numbered, TypeOK, SnapFiles
  <2> QED BY <2>1, <2>2 DEF Recovered
<1> QED BY <1>1, <1>3, <1>4, <1>5, <1>6, <1>7, <1>8

(* write and flush, of a new record and of what is buffered: the record    *)
(* follows all others in the file, and every file power loss may leave     *)
(* still holds the acknowledged ones.                                      *)
LEMMA AppendSafe ==
  ASSUME TypeOK, Control, SafeInv, AppendRecord \/ FlushBuffered, ~spoiled'
  PROVE  SafeInv'
<1> USE DEF At, Goto
<1> DEFINE r == IF pc' = "written" THEN Current ELSE Head(buffer)
<1>1. Current \in Records /\ Current.seq = seq + 1 /\ seq \in Nat
  BY RecordTypes DEF TypeOK, Current, Record
<1>2. /\ UNCHANGED <<snap, snapDisk, seq, live, acked, issued, raised>>
      /\ mode = "up" /\ mode' = "up" /\ pc # "written"
      /\ log' = Written(log, r) /\ r \in Records /\ r.seq = seq + 1
      /\ disk' \subseteq disk \union {log'} \union PartlyWritten(log) \union PartlyWritten(log')
      /\ pc' # "written" => pc' = pc /\ r.mut \in raised
  <2>1. CASE AppendRecord
    BY <1>1, <2>1 DEF AppendRecord, WriteRecord, snapVars, Current
  <2>2. CASE FlushBuffered
    <3>1. /\ pc' = pc /\ pc # "written" /\ buffer # << >> /\ buffer \in Seq(Records)
      BY <2>2 DEF FlushBuffered, FlushLine, TypeOK
    <3>2. /\ Head(buffer) \in Records /\ Head(buffer) = buffer[1] /\ 1 \in 1 .. Len(buffer)
      BY <3>1
    <3>3. /\ UNCHANGED <<snap, snapDisk, seq, live, acked, issued, raised>>
          /\ mode = "up" /\ mode' = "up" /\ log' = Written(log, Head(buffer))
          /\ disk' \subseteq disk \union {log'} \union PartlyWritten(log) \union PartlyWritten(log')
      BY <2>2 DEF FlushBuffered, FlushLine, snapVars
    <3>4. Head(buffer).seq = seq + 1 /\ Head(buffer).mut \in raised
      BY <3>2 DEF Control
    <3> QED BY <3>1, <3>2, <3>3, <3>4
  <2> QED BY <2>1, <2>2
<1> HIDE DEF r
<1>3. Intact(Written(log, r), Len(Written(log, r)))
  <2>1. Intact(log', Len(log'))
    BY DEF AppendRecord, FlushBuffered, LastSpoiled
  <2> QED BY <1>2, <2>1
<1>4. /\ Snaps' = Snaps /\ \A q \in Replayed(log) : q.seq \in Nat /\ q.seq <= seq
      /\ Replayed(log') = Replayed(log) \union {r}
      /\ \A f \in Logs' : Sound(f) /\ \A q \in Replayed(f) : q.seq <= seq + 1
      /\ \A f \in Logs', s \in Snaps' : acked \subseteq Recovered(f, s)
      /\ Recovered(log, snap)' = Recovered(log, snap) \union {r}
  BY <1>2, <1>3, RecordWritten
<1>5. LogsSound' /\ SnapsLoad' /\ AckedOnDisk' /\ Injective(acked)'
  BY <1>2, <1>4 DEF SafeInv, LogsSound, SnapsLoad, AckedOnDisk, Injective
<1>6. Numbered'
  BY <1>2, <1>4 DEF SafeInv, Running, Numbered, Injective
<1>7. MemoryMatches'
  <2>1. r \in Replayed(log)'
    BY <1>4 DEF Replayed, Intact
  <2>2. ASSUME NEW q \in Recovered(log, snap) PROVE q \in live
    <3>1. q \in Replayed(log) \/ q \in snap.recs
      BY DEF Recovered
    <3>2. snap.seq <= seq /\ snap.seq \in Nat /\ \A p \in snap.recs : p.seq <= snap.seq /\ p.seq \in Nat
      BY <1>2, RecordTypes DEF SafeInv, Running, Numbered, SnapsLoad, Snaps, TypeOK, SnapFiles
    <3>3. q.seq # seq + 1
      BY <1>1, <1>4, <3>1, <3>2
    <3> QED BY <1>2, <3>3 DEF SafeInv, Running, MemoryMatches
  <2>3. pc' = "written" => r = Current /\ Current' = Current
    BY <1>2 DEF r, Current, Record
  <2> QED BY <1>2, <1>4, <2>1, <2>2, <2>3 DEF SafeInv, Running, MemoryMatches
<1>8. CheckpointHolds'
  <2>1. CASE pc' = "written"
    BY <2>1 DEF CheckpointHolds
  <2>2. CASE pc' # "written"
    <3>1. pc \in {"idle", "append", "truncate"}
      BY <1>2, <2>2 DEF FlushBuffered, AppendRecord
    <3> QED BY <1>2, <1>4, <2>2, <3>1 DEF SafeInv, Running, CheckpointHolds
  <2> QED BY <2>1, <2>2
<1>9. NoneFarAhead'
  <2>1. seq \in Numbers'
    BY <1>2, <1>6, <1>7 DEF Numbers, Numbered, MemoryMatches
  <2> QED BY <1>4, <2>1 DEF NoneFarAhead
<1> QED BY <1>5, <1>6, <1>7, <1>8, <1>9 DEF SafeInv, Running

(* fsync, apply and acknowledge: the record is in the only file power loss *)
(* can leave, with a number no acknowledged mutation has.                  *)
LEMMA CommitSafe ==
  ASSUME TypeOK, Safe, SafeInv, CommitMutation
  PROVE  SafeInv'
<1> USE DEF At, Goto
<1>1. /\ UNCHANGED <<log, snap, snapDisk, issued>> /\ disk' \subseteq disk \union {log'}
      /\ pc = "written" /\ mode = "up" /\ pc' = "idle" /\ mode' = "up"
      /\ seq' = seq + 1 /\ live' = live \union {Current} /\ acked' = acked \union {Current}
  BY DEF CommitMutation, SyncLog, snapVars, Current
<1>2. Logs' = {log} /\ Snaps' = Snaps /\ log \in Logs
  BY <1>1 DEF CommitMutation, SyncLog, Safe, Logs, Snaps
<1>3. Current \in Records /\ Current.seq = seq + 1 /\ seq \in Nat
  BY RecordTypes DEF TypeOK, Current, Record
<1>4. AckedOnDisk /\ Numbered /\ MemoryMatches /\ SnapsLoad
  BY <1>1 DEF SafeInv, Running
<1>5. \A s \in Snaps : s.seq \in Nat /\ s.seq <= seq
  <2>1. \A s \in Snaps : s \in SnapFiles
    BY DEF TypeOK, Snaps
  <2>2. snap.seq \in Nat /\ \A s \in Snaps : s.seq \in Nat
    BY <2>1 DEF SnapFiles, Snaps
  <2> QED BY <1>3, <1>4, <2>2 DEF SnapsLoad, Numbered
<1>6. /\ LogsSound' /\ SnapsLoad' /\ NoneFarAhead'
      /\ Recovered(log, snap)' = Recovered(log, snap)
  BY <1>1, LogItself, LogRead
<1>7. \A s \in Snaps : Current \in Recovered(log, s)
  BY <1>1, <1>3, <1>4, <1>5 DEF MemoryMatches, Recovered
<1>8. AckedOnDisk'
  BY <1>1, <1>2, <1>4, <1>7 DEF AckedOnDisk
<1>9. \A r \in live : r.seq \in Nat /\ r.seq <= seq
  <2>1. \A r \in live : r.seq \in Nat
    BY RecordTypes DEF TypeOK
  <2> QED BY <2>1, <1>4 DEF Numbered
<1>10. Numbered'
  <2>1. Injective(live')
    BY <1>1, <1>3, <1>4, <1>9 DEF Numbered, Injective
  <2>2. \A r \in Replayed(log) : r.seq \in Nat /\ r.seq <= seq + 1
    BY <1>2, <1>4, ReplayedType, RecordTypes DEF Numbered, TypeOK
  <2>3. snap.seq <= seq + 1 /\ acked' \subseteq live'
    BY <1>1, <1>3, <1>4, <1>5 DEF Numbered, Snaps
  <2>4. (\A r \in live' : r.seq <= seq + 1) /\ Current \in live'
    BY <1>1, <1>3, <1>9
  <2>5. \A f \in Logs' : \A r \in Replayed(f) : r.seq <= seq' + 1
    BY <1>1, <1>2, <1>3, <2>2
  <2>6. \E r \in live' : r.seq = seq + 1
    BY <1>3, <2>4
  <2>7. (\A r \in live' : r.seq <= seq') /\ (\E r \in live' : r.seq = seq') /\ snap' = snap
        /\ snap.seq <= seq'
    BY <1>1, <2>3, <2>4, <2>6
  <2> QED BY <2>1, <2>3, <2>5, <2>7 DEF Numbered, Injective
<1>11. MemoryMatches' /\ CheckpointHolds'
  <2>1. Recovered(log, snap) = live \union {Current}
    BY <1>1, <1>4, <1>7 DEF MemoryMatches, Snaps
  <2> QED BY <1>1, <1>6, <2>1 DEF MemoryMatches, CheckpointHolds
<1>12. Injective(acked)'
  <2>1. \A a \in acked : a.seq # Current.seq
    BY <1>3, <1>4, <1>9 DEF Numbered
  <2> QED BY <2>1, <1>1 DEF SafeInv, Injective
<1> QED BY <1>6, <1>8, <1>10, <1>11, <1>12 DEF SafeInv, Running

(* os.replace: the snapshot holds the memory, which holds what a start     *)
(* from any of the files must rebuild.                                     *)
LEMMA InstallSafe ==
  ASSUME TypeOK, SafeInv, InstallSnapshot
  PROVE  SafeInv'
<1> USE DEF At, Goto
<1>1. /\ UNCHANGED <<log, disk, seq, live, acked, issued, raised>>
      /\ pc = "tempSynced" /\ mode = "up" /\ pc' = "replaced" /\ mode' = "up"
      /\ snap' = tmp /\ snapDisk' = snapDisk \union {OnMedium(tmp)}
  BY DEF InstallSnapshot, ReplaceTarget, walVars
<1>2. LogsSound /\ SnapsLoad /\ AckedOnDisk /\ Numbered /\ MemoryMatches /\ CheckpointHolds
  BY <1>1 DEF SafeInv, Running
<1>3. tmp.seq = seq /\ tmp.recs = live /\ tmp.file = "synced" /\ OnMedium(tmp) = tmp /\ seq \in Nat
  BY <1>1, <1>2 DEF CheckpointHolds, OnMedium, TypeOK
<1>4. Logs' = Logs /\ Snaps' \subseteq Snaps \union {tmp}
  BY <1>1, <1>3 DEF Logs, Snaps
<1>5. \A s \in Snaps : s.seq <= seq
  <2>1. \A s \in Snaps : s.seq \in Nat
    BY DEF TypeOK, Snaps, SnapFiles
  <2> QED BY <2>1, <1>2 DEF SnapsLoad, Numbered, Snaps, TypeOK
<1>6. LogsSound' /\ Injective(acked)'
  BY <1>1, <1>2, <1>4 DEF LogsSound, Injective, SafeInv
<1>7. SnapsLoad'
  BY <1>1, <1>2, <1>3, <1>4, <1>5 DEF SnapsLoad, Numbered, Injective
<1>8. AckedOnDisk'
  <2>1. ASSUME NEW f \in Logs, NEW s \in Snaps' PROVE acked \subseteq Recovered(f, s)
    BY <1>2, <1>3, <1>4 DEF AckedOnDisk, Recovered, Numbered
  <2> QED BY <2>1, <1>1, <1>4 DEF AckedOnDisk
<1>9. ASSUME NEW r \in Replayed(log), r.seq > seq PROVE r \in Recovered(log, snap) \ live
  <2>1. r.seq \in Nat /\ snap.seq \in Nat
    BY ReplayedType, RecordTypes DEF TypeOK, SnapFiles
  <2> QED BY <1>2, <1>3, <1>9, <2>1 DEF Numbered, Recovered
<1>10. Recovered(log, snap)' = live \union {r \in Replayed(log) : r.seq > seq}
  <2>1. Replayed(log)' = Replayed(log)
    BY <1>1 DEF Replayed, Intact
  <2> QED BY <2>1, <1>1, <1>3 DEF Recovered
<1>11. Numbered' /\ CheckpointHolds'
  BY <1>1, <1>2, <1>3, <1>4 DEF Numbered, CheckpointHolds, Injective
<1>12. MemoryMatches'
  BY <1>1, <1>2, <1>9, <1>10 DEF MemoryMatches
<1>13. NoneFarAhead'
  <2>1. seq \in Numbers'
    BY <1>1, <1>3 DEF Numbers
  <2> QED BY <1>2, <1>4, <2>1 DEF NoneFarAhead, Numbered
<1> QED BY <1>6, <1>7, <1>8, <1>11, <1>12, <1>13 DEF SafeInv, Running

(* The directory sync, the truncation and its sync: the snapshot holds all *)
(* the log can lose.                                                       *)
LEMMA TruncateSafe ==
  ASSUME TypeOK, Safe, SafeInv, SyncDirectory \/ DropLog \/ FinishCheckpoint
  PROVE  SafeInv'
<1> USE DEF At, Goto
<1>1. UNCHANGED <<snap, seq, live, acked, issued, raised>> /\ mode = "up" /\ mode' = "up"
  BY DEF SyncDirectory, FsyncDirectory, DropLog, FinishCheckpoint, walVars, snapVars
<1>2. LogsSound /\ SnapsLoad /\ AckedOnDisk /\ NoneFarAhead /\ Injective(acked)
      /\ Numbered /\ MemoryMatches /\ CheckpointHolds
  BY <1>1 DEF SafeInv, Running
<1>3. Injective(acked)'
  BY <1>1, <1>2 DEF Injective
<1>4. CASE SyncDirectory
  <2>1. /\ pc = "replaced" /\ pc' = "truncate" /\ UNCHANGED <<log, disk>>
        /\ snapDisk' = IF DirFsync THEN {OnMedium(snap)} ELSE snapDisk
    BY <1>4 DEF SyncDirectory, FsyncDirectory, walVars
  <2>2. OnMedium(snap) = snap
    BY <1>2 DEF SnapsLoad, Snaps, OnMedium
  <2>3. Snaps' = {snap} /\ Logs' = Logs /\ snap \in Snaps
    BY <1>1, <2>1, <2>2 DEF Snaps, Logs, Safe
  <2>4. LogsSound' /\ SnapsLoad' /\ AckedOnDisk'
    BY <1>1, <1>2, <2>3 DEF LogsSound, SnapsLoad, AckedOnDisk, Injective
  <2>5. Recovered(log, snap)' = Recovered(log, snap)
    BY <1>1, <2>1 DEF Recovered, Replayed, Intact
  <2>6. MemoryMatches' /\ CheckpointHolds' /\ Numbered' /\ NoneFarAhead'
    BY <1>1, <1>2, <2>1, <2>3, <2>5
       DEF MemoryMatches, CheckpointHolds, Numbered, NoneFarAhead, Numbers, Injective
  <2> QED BY <1>3, <2>4, <2>6 DEF SafeInv, Running
<1>5. CASE DropLog
  <2>1. /\ pc = "truncate" /\ pc' = "truncated" /\ UNCHANGED snapDisk
        /\ log' = << >> /\ disk' = disk \union {<< >>}
    BY <1>5 DEF DropLog, TruncateLog, snapVars
  <2>2. Snaps' = Snaps /\ Snaps = {snap} /\ snap.recs = live /\ snap.seq = seq
    BY <1>1, <1>2, <2>1 DEF CheckpointHolds, Snaps
  <2>3. Logs' \subseteq Logs \union {<< >>}
    BY <2>1 DEF Logs
  <2>4. LogsSound' /\ SnapsLoad'
    BY <1>1, <1>2, <2>2, <2>3, EmptyLog DEF LogsSound, SnapsLoad, Injective
  <2>5. \A f \in Logs', s \in Snaps' : acked' \subseteq Recovered(f, s)
    BY <1>1, <1>2, <2>2 DEF Numbered, Recovered
  <2>6. Recovered(log, snap)' = live
    <3>1. Recovered(log, snap)' = Recovered(<< >>, snap)
      BY <1>1, <2>1 DEF Recovered, Replayed, Intact
    <3>2. Recovered(<< >>, snap) = snap.recs
      BY EmptyLog DEF Recovered
    <3> QED BY <3>1, <3>2, <2>2
  <2>7. MemoryMatches' /\ CheckpointHolds'
    BY <1>1, <2>1, <2>2, <2>6 DEF MemoryMatches, CheckpointHolds
  <2>8. \A f \in Logs' : \A r \in Replayed(f) : r.seq <= seq + 1
    BY <1>2, <2>3, EmptyLog DEF Numbered
  <2>9. Numbered'
    BY <1>1, <1>2, <2>8 DEF Numbered, Injective
  <2>10. NoneFarAhead'
    <3>1. seq \in Numbers'
      BY <1>1, <2>2 DEF Numbers
    <3> QED BY <2>8, <3>1 DEF NoneFarAhead
  <2> QED BY <1>3, <2>4, <2>5, <2>7, <2>9, <2>10 DEF SafeInv, Running, AckedOnDisk
<1>6. CASE FinishCheckpoint
  <2>1. /\ pc = "truncated" /\ pc' = "idle" /\ UNCHANGED <<log, snapDisk>>
        /\ Logs' \subseteq Logs /\ disk' \subseteq disk \union {log'}
    BY <1>6 DEF FinishCheckpoint, SyncLog, Logs, snapVars
  <2>2. /\ Recovered(log, snap)' = Recovered(log, snap)
        /\ LogsSound' /\ SnapsLoad' /\ NoneFarAhead'
        /\ \A f \in Logs', s \in Snaps' : acked \subseteq Recovered(f, s)
    BY <1>1, <2>1, LogItself, LogRead
  <2>3. MemoryMatches' /\ CheckpointHolds' /\ Numbered'
    BY <1>1, <1>2, <2>1, <2>2 DEF MemoryMatches, CheckpointHolds, Numbered, Injective
  <2> QED BY <1>1, <1>3, <2>2, <2>3 DEF SafeInv, Running, AckedOnDisk
<1> QED BY <1>4, <1>5, <1>6

(* A start loads the files: memory is what they rebuild.                   *)
LEMMA OpenSafe ==
  ASSUME TypeOK, Control, SafeInv, Open
  PROVE  SafeInv'
<1>1. /\ UNCHANGED <<log, disk, snap, snapDisk, pc, acked, issued, raised>>
      /\ pc = "idle" /\ live' = Recovered(log, snap)
      /\ seq' >= snap.seq /\ \A r \in Recovered(log, snap) : r.seq <= seq'
      /\ seq' \in Numbers
  BY DEF Open, Control, walVars, snapVars, Numbers
<1>2. /\ Snaps' = Snaps /\ Recovered(log, snap)' = Recovered(log, snap) /\ Logs' = Logs
      /\ LogsSound' /\ SnapsLoad' /\ NoneFarAhead'
      /\ \A f \in Logs', s \in Snaps' : acked \subseteq Recovered(f, s)
  BY <1>1, LogItself, LogRead DEF Logs
<1>3. AckedOnDisk' /\ Injective(acked)'
  BY <1>1, <1>2 DEF SafeInv, AckedOnDisk, Injective
<1>4. snap.seq \in Nat /\ \A r \in Recovered(log, snap) : r.seq \in Nat
  BY RecoveredType, RecordTypes DEF TypeOK, SnapFiles
<1>5. Numbered'
  <2>1. log \in Logs /\ snap \in Snaps
    BY DEF Logs, Snaps
  <2>2. acked \subseteq Recovered(log, snap)
    BY <2>1 DEF SafeInv, AckedOnDisk
  <2>3. Injective(Recovered(log, snap))
    BY <2>1, RecoveredInjective DEF SafeInv, SnapsLoad, TypeOK
  <2>4. ASSUME NEW f \in Logs, NEW r \in Replayed(f) PROVE r.seq <= seq' + 1
    <3>1. PICK n \in Numbers : r.seq <= n + 1
      BY DEF SafeInv, NoneFarAhead
    <3>2. n \in Nat /\ n <= seq' /\ seq' \in Nat
      BY <1>1, <1>4 DEF Numbers
    <3>3. r.seq \in Nat
      BY ReplayedType, RecordTypes DEF TypeOK, Logs
    <3> QED BY <3>1, <3>2, <3>3
  <2>5. seq' = snap.seq \/ \E r \in Recovered(log, snap) : r.seq = seq'
    BY <1>1 DEF Numbers
  <2>6. snap.seq <= seq'
    BY <1>1, <1>4 DEF Numbers
  <2> QED BY <1>1, <1>2, <2>2, <2>3, <2>4, <2>5, <2>6 DEF Numbered, Injective
<1>6. MemoryMatches' /\ CheckpointHolds'
  BY <1>1, <1>2 DEF MemoryMatches, CheckpointHolds
<1> QED BY <1>2, <1>3, <1>5, <1>6 DEF SafeInv, Running

(* Stopping the process, by itself, by a kill or by a power loss, leaves   *)
(* one of the files a start can load.                                      *)
LEMMA StopSafe ==
  ASSUME TypeOK, SafeInv, OpenRefused \/ Close \/ Kill \/ PowerLoss
  PROVE  SafeInv'
<1>1. acked' = acked /\ mode' # "up"
  BY DEF OpenRefused, Close, Kill, PowerLoss, Stopped
<1>2. Injective(acked)' /\ Running'
  BY <1>1 DEF SafeInv, Injective, Running
<1>3. CASE OpenRefused \/ Close \/ Kill
  <2>1. /\ UNCHANGED <<snap, snapDisk>> /\ log' \in PartlyWritten(log)
        /\ disk' \subseteq disk \union {log'} \union PartlyWritten(log)
    BY <1>3, LogItself DEF OpenRefused, Close, Kill, HandleLost, walVars, snapVars
  <2>2. /\ LogsSound' /\ SnapsLoad' /\ NoneFarAhead'
        /\ \A f \in Logs', s \in Snaps' : acked \subseteq Recovered(f, s)
    BY <2>1, LogRead
  <2> QED BY <1>1, <1>2, <2>2 DEF SafeInv, AckedOnDisk
<1>4. CASE PowerLoss
  <2>1. /\ Logs' = {log'} /\ log' \in Logs /\ log' \in LineSeqs
        /\ Snaps' = {snap'} /\ snap' \in Snaps /\ snap' \in SnapFiles
    BY <1>4 DEF PowerLoss, LogLosesPower, SnapshotLosesPower, Logs, Snaps, TypeOK
  <2>2. LogsSound' /\ AckedOnDisk'
    BY <1>1, <2>1 DEF SafeInv, LogsSound, AckedOnDisk
  <2>3. (snap').seq \in Nat
    BY <2>1 DEF SnapFiles
  <2>4. SnapsLoad'
    <3>1. (snap').seq <= (snap').seq
      BY <2>3
    <3> QED BY <2>1, <3>1 DEF SafeInv, SnapsLoad, Injective
  <2>5. NoneFarAhead'
    <3> SUFFICES ASSUME NEW r \in Replayed(log') PROVE \E n \in Numbers' : r.seq <= n + 1
      BY <2>1 DEF NoneFarAhead
    <3>1. r.seq \in Nat /\ (snap').seq \in Numbers'
      BY <2>1, ReplayedType, RecordTypes DEF Numbers
    <3>2. CASE r.seq > (snap').seq
      <4>1. r \in Recovered(log', snap')
        BY <3>2 DEF Recovered
      <4>2. r \in Recovered(log, snap)'
        BY <4>1 DEF Recovered, Replayed, Intact
      <4>3. r.seq \in Numbers'
        BY <4>2 DEF Numbers
      <4> QED BY <3>1, <4>3
    <3>3. CASE ~(r.seq > (snap').seq)
      BY <2>3, <3>1, <3>3
    <3> QED BY <3>2, <3>3
  <2> QED BY <1>2, <2>2, <2>4, <2>5 DEF SafeInv
<1> QED BY <1>3, <1>4

(* Only three kinds of steps can spoil a record.                           *)
LEMMA SpoiledKept ==
  ASSUME [Next]_vars
  PROVE  spoiled => spoiled'
BY DEF Next, vars, engineVars, BeginMutation, AppendRecord, CommitMutation, FlushBuffered,
       AppendFails, SyncFails, MutationRaises, CheckpointFails, BeginCheckpoint, SyncSnapshot,
       InstallSnapshot, SyncDirectory, DropLog, FinishCheckpoint, Open, OpenRefused, Close,
       Kill, PowerLoss, Decay

(* Every step keeps the invariant; a spoiled record ends the promise.      *)
LEMMA NextIInv == IInv /\ [Next]_vars => IInv'
<1> SUFFICES ASSUME IInv, [Next]_vars PROVE IInv'
  OBVIOUS
<1>1. TypeOK /\ Control /\ (Safe => SafeInv)
  BY DEF IInv
<1>2. TypeOK' /\ Control'
  BY <1>1, NextTypeOK, NextControl
<1>3. ASSUME Safe' PROVE SafeInv'
  <2>1. Safe /\ ~spoiled'
    BY <1>3, SpoiledKept DEF Safe
  <2>2. SafeInv
    BY <1>1, <2>1
  <2>3. CASE \/ BeginMutation \/ AppendFails \/ SyncFails \/ CheckpointFails
             \/ BeginCheckpoint \/ SyncSnapshot
    BY <1>1, <2>2, <2>3, MemoryStepsSafe
  <2>4. CASE AppendRecord \/ FlushBuffered
    BY <1>1, <2>1, <2>2, <2>4, AppendSafe
  <2>5. CASE CommitMutation
    BY <1>1, <2>1, <2>2, <2>5, CommitSafe
  <2>6. CASE InstallSnapshot
    BY <1>1, <2>2, <2>6, InstallSafe
  <2>7. CASE SyncDirectory \/ DropLog \/ FinishCheckpoint
    BY <1>1, <2>1, <2>2, <2>7, TruncateSafe
  <2>8. CASE Open
    BY <1>1, <2>2, <2>8, OpenSafe
  <2>9. CASE OpenRefused \/ Close \/ Kill \/ PowerLoss
    BY <1>1, <2>2, <2>9, StopSafe
  <2>10. CASE Decay
    BY <2>1, <2>10 DEF Decay
  <2>11. CASE UNCHANGED vars
    <3>1. UNCHANGED <<log, disk, snap, snapDisk, tmp, mode, pc, seq, live, acked, issued, raised>>
      BY <2>11 DEF vars, walVars, snapVars, engineVars
    <3>2. Logs' = Logs /\ Snaps' = Snaps /\ Current' = Current
      BY <3>1 DEF Logs, Snaps, Current, Record
    <3>3. Recovered(log, snap)' = Recovered(log, snap) /\ Replayed(log)' = Replayed(log)
      BY <3>1 DEF Recovered, Replayed, Intact
    <3>4. LogsSound' /\ SnapsLoad' /\ AckedOnDisk' /\ NoneFarAhead' /\ Injective(acked)'
      BY <2>2, <3>1, <3>2, <3>3
         DEF SafeInv, LogsSound, SnapsLoad, AckedOnDisk, NoneFarAhead, Numbers, Injective
    <3>5. Running'
      BY <2>2, <3>1, <3>2, <3>3
         DEF SafeInv, Running, Numbered, MemoryMatches, CheckpointHolds, Injective
    <3> QED BY <3>4, <3>5 DEF SafeInv
  <2> QED BY <2>3, <2>4, <2>5, <2>6, <2>7, <2>8, <2>9, <2>10, <2>11 DEF Next
<1> QED BY <1>2, <1>3 DEF IInv

----------------------------------------------------------------------------
(* The promises.                                                           *)

(* The invariant holds for every environment and every number of mutations.*)
LEMMA Invariance == Spec => []IInv
BY InitIInv, NextIInv, PTL DEF Spec

(* "An acknowledged mutation is recoverable": in an environment that loses *)
(* power only where the code syncs log and directory, and until a stored   *)
(* record is damaged, runs into a torn line or is written behind a raised  *)
(* one with its number, the next start loads the files and shows every     *)
(* acknowledged mutation, whatever instant the process or the machine      *)
(* stopped at and whichever write or fsync raised.                         *)
THEOREM AcknowledgedSurvives == Spec => []AckedRecoverableWhenSafe
<1>1. IInv => AckedRecoverableWhenSafe
  <2> SUFFICES ASSUME TypeOK, SafeInv PROVE AckedRecoverable
    BY DEF IInv, AckedRecoverableWhenSafe
  <2>1. log \in Logs /\ snap \in Snaps /\ log \in LineSeqs
    BY DEF Logs, Snaps, TypeOK
  <2>2. ~ReadFails(snap)
    BY <2>1 DEF SafeInv, SnapsLoad, ReadFails
  <2>3. ~ReplayFails(log)
    BY <2>1, SoundLoads DEF SafeInv, LogsSound
  <2>4. acked \subseteq Recovered(log, snap)
    BY <2>1 DEF SafeInv, AckedOnDisk
  <2> QED BY <2>2, <2>3, <2>4 DEF AckedRecoverable, LoadFails
<1> QED BY <1>1, Invariance, PTL

(* While Safe, a restart between two calls rebuilds the memory of the      *)
(* engine, also from a log the interrupted checkpoint did not truncate,    *)
(* and beyond it at most a mutation whose call raised.                     *)
THEOREM RestartIsInvisible == Spec => []RestartInvisible
<1>1. IInv => RestartInvisible
  BY DEF IInv, SafeInv, Running, Numbered, MemoryMatches, RestartInvisible, At
<1> QED BY <1>1, Invariance, PTL

(* While Safe, no two acknowledged mutations share a sequence number.      *)
THEOREM SequenceNumbersUnique == Spec => []SequenceUnique
<1>1. IInv => SequenceUnique
  BY DEF IInv, SafeInv, Injective, SequenceUnique
<1> QED BY <1>1, Invariance, PTL
----------------------------------------------------------------------------
(* Refusals.  Replay meets a valid record that is out of order only behind *)
(* one whose call raised, and never a snapshot whose data was lost; this   *)
(* holds in every environment, also after damage and without syncing.      *)

(* In a file, the record behind an intact prefix is in order, or has the   *)
(* number of the one before, which is of the mutations R.                  *)
Ordered(f, R) ==
  \A i \in 1 .. Len(f) :
    (\A j \in 1 .. i - 1 : Intact(f, j)) /\ f[i].kind = "record" =>
      Intact(f, i) \/ (i > 1 /\ f[i].seq = f[i - 1].seq /\ f[i - 1].mut \in R)

(* The records that may be in the log with the next number.                *)
Early(r) == r.seq = seq + 1 /\ (r.mut \in raised \/ (pc = "written" /\ r.mut = issued))

OrderInv ==
  /\ Ordered(log, raised) /\ \A f \in disk : Ordered(f, raised)
  /\ \A s \in {snap} \union snapDisk : s.file \in {"absent", "synced"}
  /\ mode = "up" /\ pc = "tempSynced" => tmp.file = "synced"
  /\ mode = "up" => \A r \in Replayed(log) : r.seq <= seq \/ Early(r)

RefusalInv == TypeOK /\ Control /\ OrderInv /\ RefusedOnlyForDamage

(* An empty log is in order.                                               *)
LEMMA EmptyOrdered == \A R : Ordered(<< >>, R)
BY DEF Ordered

(* More mutations whose call raised leave the order as it is.              *)
LEMMA OrderedMore ==
  ASSUME NEW f, NEW R, NEW Q, R \subseteq Q, Ordered(f, R)
  PROVE  Ordered(f, Q)
BY DEF Ordered

(* So does a torn line at the end.                                         *)
LEMMA TornOrdered ==
  ASSUME NEW f \in LineSeqs, NEW R, Ordered(f, R), NEW g \in PartlyWritten(f)
  PROVE  Ordered(g, R) /\ Replayed(g) = Replayed(f)
<1>1. CASE g = f
  BY <1>1
<1>2. CASE g = Append(f, Blank("torn"))
  <2>1. /\ Len(g) = Len(f) + 1 /\ Len(f) \in Nat
        /\ g[Len(f) + 1].kind = "torn"
        /\ \A i \in 1 .. Len(f) : g[i] = f[i]
    BY <1>2, RecordTypes DEF LineSeqs, Blank
  <2>2. \A i \in 1 .. Len(f) : Intact(g, i) <=> Intact(f, i)
    BY <2>1 DEF Intact
  <2>3. ~Intact(g, Len(g))
    BY <2>1 DEF Intact
  <2>4. Ordered(g, R)
    <3> SUFFICES ASSUME NEW i \in 1 .. Len(g), \A j \in 1 .. i - 1 : Intact(g, j),
                        g[i].kind = "record"
                 PROVE  Intact(g, i) \/ (i > 1 /\ g[i].seq = g[i - 1].seq /\ g[i - 1].mut \in R)
      BY DEF Ordered
    <3>1. i \in 1 .. Len(f) /\ (i > 1 => i - 1 \in 1 .. Len(f))
      BY <2>1
    <3>2. \A j \in 1 .. i - 1 : Intact(f, j)
      BY <2>1, <2>2, <3>1
    <3> QED BY <2>1, <2>2, <3>1, <3>2 DEF Ordered
  <2>5. {k \in 1 .. Len(g) : \A j \in 1 .. k : Intact(g, j)}
          = {k \in 1 .. Len(f) : \A j \in 1 .. k : Intact(f, j)}
    <3>1. ASSUME NEW k \in 1 .. Len(g), \A j \in 1 .. k : Intact(g, j)
          PROVE  k \in 1 .. Len(f)
      <4>1. k # Len(g)
        BY <2>1, <2>3, <3>1
      <4> QED BY <2>1, <4>1
    <3> QED BY <2>1, <2>2, <3>1
  <2>6. Replayed(g) = Replayed(f)
    <3> DEFINE K == {k \in 1 .. Len(f) : \A j \in 1 .. k : Intact(f, j)}
    <3>1. K \subseteq 1 .. Len(f) /\ Replayed(f) = {f[i] : i \in K}
      BY DEF Replayed
    <3>2. Replayed(g) = {g[i] : i \in K}
      BY <2>5 DEF Replayed
    <3> HIDE DEF K
    <3>3. \A i \in K : g[i] = f[i]
      BY <2>1, <3>1
    <3> QED BY <3>1, <3>2, <3>3
  <2> QED BY <2>4, <2>6
<1> QED BY <1>1, <1>2 DEF PartlyWritten

(* So does a record at the end with a number above all that are replayed,  *)
(* or with that of one whose call raised, and the line it makes together   *)
(* with a torn one.                                                        *)
LEMMA WrittenOrdered ==
  ASSUME NEW f \in LineSeqs, NEW R, Ordered(f, R), NEW r \in Records,
         \A q \in Replayed(f) : q.seq < r.seq \/ (q.seq = r.seq /\ q.mut \in R)
  PROVE  /\ Ordered(Written(f, r), R)
         /\ Replayed(Written(f, r)) \subseteq Replayed(f) \union {r}
<1> DEFINE g == Written(f, r)
<1>1. Len(f) \in Nat /\ r.kind = "record" /\ r.seq \in Nat \ {0}
  BY RecordTypes DEF LineSeqs
<1>2. CASE Unterminated(f)
  <2>1. /\ Len(f) \in 1 .. Len(f) /\ Len(g) = Len(f)
        /\ g[Len(f)].kind = "garbled"
        /\ \A i \in 1 .. Len(f) - 1 : g[i] = f[i]
    BY <1>1, <1>2 DEF Unterminated, Written, LineSeqs, Blank
  <2>2. \A i \in 1 .. Len(f) - 1 : Intact(g, i) <=> Intact(f, i)
    BY <1>1, <2>1 DEF Intact
  <2>3. ~Intact(g, Len(f))
    BY <2>1 DEF Intact
  <2>4. Ordered(g, R)
    <3> SUFFICES ASSUME NEW i \in 1 .. Len(g), \A j \in 1 .. i - 1 : Intact(g, j),
                        g[i].kind = "record"
                 PROVE  Intact(g, i) \/ (i > 1 /\ g[i].seq = g[i - 1].seq /\ g[i - 1].mut \in R)
      BY DEF Ordered
    <3>1. i \in 1 .. Len(f) - 1 /\ (i > 1 => i - 1 \in 1 .. Len(f) - 1)
      BY <1>1, <2>1
    <3>2. \A j \in 1 .. i - 1 : Intact(f, j)
      BY <1>1, <2>2, <3>1
    <3> QED BY <1>1, <2>1, <2>2, <3>1, <3>2 DEF Ordered
  <2>5. ASSUME NEW k \in 1 .. Len(g), \A j \in 1 .. k : Intact(g, j)
        PROVE  g[k] \in Replayed(f)
    <3>1. k \in 1 .. Len(f) - 1
      BY <1>1, <2>1, <2>3, <2>5
    <3>2. \A j \in 1 .. k : Intact(f, j)
      BY <1>1, <2>2, <2>5, <3>1
    <3> QED BY <1>1, <2>1, <3>1, <3>2 DEF Replayed
  <2> QED BY <2>4, <2>5 DEF Replayed
<1>3. CASE ~Unterminated(f)
  <2>1. /\ Len(g) = Len(f) + 1 /\ g[Len(f) + 1] = r
        /\ \A i \in 1 .. Len(f) : g[i] = f[i]
    BY <1>1, <1>3, RecordTypes DEF Written, LineSeqs
  <2>2. \A i \in 1 .. Len(f) : Intact(g, i) <=> Intact(f, i)
    BY <1>1, <2>1 DEF Intact
  <2>3. (\A j \in 1 .. Len(f) : Intact(g, j)) =>
          \/ Intact(g, Len(f) + 1)
          \/ Len(f) # 0 /\ r.seq = f[Len(f)].seq /\ f[Len(f)].mut \in R
    <3> SUFFICES ASSUME \A j \in 1 .. Len(f) : Intact(f, j)
                 PROVE  \/ Intact(g, Len(f) + 1)
                        \/ Len(f) # 0 /\ r.seq = f[Len(f)].seq /\ f[Len(f)].mut \in R
      BY <2>2
    <3>1. CASE Len(f) = 0
      BY <1>1, <2>1, <3>1 DEF Intact
    <3>2. CASE Len(f) # 0
      <4>1. Len(f) \in 1 .. Len(f)
        BY <1>1, <3>2
      <4>2. f[Len(f)] \in Replayed(f)
        BY <4>1 DEF Replayed
      <4>3. f[Len(f)].seq < r.seq \/ (f[Len(f)].seq = r.seq /\ f[Len(f)].mut \in R)
        BY <4>2
      <4>4. f[Len(f)].seq < r.seq => Intact(g, Len(f) + 1)
        <5>1. Len(f) + 1 # 1 /\ (Len(f) + 1) - 1 = Len(f) /\ g[Len(f)] = f[Len(f)]
          BY <1>1, <2>1, <3>2, <4>1
        <5> QED BY <1>1, <2>1, <5>1 DEF Intact
      <4> QED BY <3>2, <4>3, <4>4
    <3> QED BY <3>1, <3>2
  <2>4. Ordered(g, R)
    <3> SUFFICES ASSUME NEW i \in 1 .. Len(g), \A j \in 1 .. i - 1 : Intact(g, j),
                        g[i].kind = "record"
                 PROVE  Intact(g, i) \/ (i > 1 /\ g[i].seq = g[i - 1].seq /\ g[i - 1].mut \in R)
      BY DEF Ordered
    <3>1. CASE i = Len(f) + 1
      <4>1. /\ \A j \in 1 .. Len(f) : Intact(g, j)
            /\ i - 1 = Len(f) /\ (Len(f) # 0 => i > 1 /\ Len(f) \in 1 .. Len(f))
        BY <1>1, <3>1
      <4> QED BY <2>1, <2>3, <3>1, <4>1
    <3>2. CASE i # Len(f) + 1
      <4>1. i \in 1 .. Len(f) /\ (i > 1 => i - 1 \in 1 .. Len(f))
        BY <1>1, <2>1, <3>2
      <4>2. \A j \in 1 .. i - 1 : Intact(f, j)
        BY <1>1, <2>2, <4>1
      <4> QED BY <2>1, <2>2, <4>1, <4>2 DEF Ordered
    <3> QED BY <3>1, <3>2
  <2>5. ASSUME NEW k \in 1 .. Len(g), \A j \in 1 .. k : Intact(g, j)
        PROVE  g[k] \in Replayed(f) \union {r}
    <3>1. CASE k = Len(f) + 1
      BY <2>1, <3>1
    <3>2. CASE k # Len(f) + 1
      <4>1. k \in 1 .. Len(f)
        BY <1>1, <2>1, <3>2
      <4>2. \A j \in 1 .. k : Intact(f, j)
        BY <1>1, <2>2, <2>5, <4>1
      <4> QED BY <2>1, <4>1, <4>2 DEF Replayed
    <3> QED BY <3>1, <3>2
  <2> QED BY <2>4, <2>5 DEF Replayed
<1> QED BY <1>2, <1>3

(* Damage of a record leaves the order as it is.                           *)
LEMMA DamagedOrdered ==
  ASSUME NEW f \in LineSeqs, NEW R, Ordered(f, R), NEW n \in 1 .. Len(f), NEW k \in Damage
  PROVE  Ordered([f EXCEPT ![n] = Blank(k)], R)
<1> DEFINE g == [f EXCEPT ![n] = Blank(k)]
<1>0. Blank(k).kind # "record"
  BY DamageAssumption DEF Blank
<1>1. /\ Len(f) \in Nat /\ Len(g) = Len(f) /\ g[n].kind # "record"
      /\ \A i \in 1 .. Len(f) : i # n => g[i] = f[i]
  BY <1>0 DEF LineSeqs
<1>2. ~Intact(g, n)
  BY <1>1 DEF Intact
<1> HIDE DEF g
<1> SUFFICES ASSUME NEW i \in 1 .. Len(g), \A j \in 1 .. i - 1 : Intact(g, j),
                    g[i].kind = "record"
             PROVE  Intact(g, i) \/ (i > 1 /\ g[i].seq = g[i - 1].seq /\ g[i - 1].mut \in R)
  BY DEF Ordered, g
<1>3. i \in 1 .. Len(f) /\ i < n
  BY <1>1, <1>2
<1>4. \A j \in 1 .. i : g[j] = f[j]
  BY <1>1, <1>3
<1>5. \A j \in 1 .. i : Intact(g, j) <=> Intact(f, j)
  BY <1>3, <1>4 DEF Intact
<1>6. \A j \in 1 .. i - 1 : Intact(f, j)
  BY <1>3, <1>5
<1>7. i > 1 => i - 1 \in 1 .. i
  BY <1>3
<1> QED BY <1>3, <1>4, <1>5, <1>6, <1>7 DEF Ordered

(* What replay refuses in a file that is in order is damage, or a record   *)
(* with the number of one whose call raised.                               *)
RefusedAt(i) ==
  \/ log[i].kind = "badsum" \/ (log[i].kind = "garbled" /\ i < Len(log))
  \/ i > 1 /\ log[i].seq = log[i - 1].seq /\ log[i - 1].mut \in raised

LEMMA RefusalsAreDamage ==
  ASSUME TypeOK, OrderInv, LoadFails
  PROVE  \E i \in 1 .. Len(log) : RefusedAt(i)
<1>1. ~ReadFails(snap)
  BY DEF OrderInv, ReadFails
<1>2. PICK i \in 1 .. Len(log) :
        /\ \A j \in 1 .. i - 1 : Intact(log, j)
        /\ ~Intact(log, i) /\ ~IgnoredAsTorn(log, i)
  BY <1>1 DEF LoadFails, ReplayFails
<1>3. log[i] \in Line /\ Len(log) \in Nat
  BY DEF TypeOK, LineSeqs
<1>4. CASE log[i].kind = "record"
  BY <1>2, <1>4 DEF OrderInv, Ordered, RefusedAt
<1>5. CASE log[i].kind # "record"
  <2>1. log[i].kind \in {"torn", "garbled", "badsum"}
    BY <1>3, <1>5 DEF Line, Records, Blank
  <2> QED BY <1>2, <1>3, <2>1 DEF IgnoredAsTorn, RefusedAt
<1> QED BY <1>4, <1>5

(* The initial files are in order.                                         *)
LEMMA InitRefusal == Init => RefusalInv
<1> SUFFICES ASSUME Init PROVE RefusalInv
  OBVIOUS
<1>1. TypeOK /\ Control
  BY InitIInv DEF IInv
<1>2. OrderInv
  BY EmptyOrdered DEF Init, WalInit, SnapInit, NoSnapshot, OrderInv
<1> QED BY <1>1, <1>2 DEF Init, RefusalInv, RefusedOnlyForDamage

(* What is read of a log, and its order, are a matter of the log alone and *)
(* of the mutations whose call raised.                                     *)
LEMMA FilesKept ==
  /\ Ordered(log, raised)' = Ordered(log', raised') /\ Replayed(log)' = Replayed(log')
  /\ \A f : Ordered(f, raised)' = Ordered(f, raised')
BY DEF Ordered, Replayed, Intact

(* Steps that write no record to the log: what is in order stays in order. *)
LEMMA OrderKept ==
  ASSUME TypeOK, OrderInv, raised \subseteq raised',
         NEW F, \A f \in F : f \in disk \union {log, << >>} \/ \E g \in disk \union {log} : f \in PartlyWritten(g)
  PROVE  \A f \in F : Ordered(f, raised)'
<1>1. ASSUME NEW f \in F PROVE Ordered(f, raised)
  <2>1. \A g \in disk \union {log} : g \in LineSeqs /\ Ordered(g, raised)
    BY DEF TypeOK, OrderInv
  <2> QED BY <1>1, <2>1, EmptyOrdered, TornOrdered
<1>2. ASSUME NEW f \in F PROVE Ordered(f, raised')
  BY <1>1, OrderedMore
<1> QED BY <1>2, FilesKept

(* Every step keeps the files in order.                                    *)
LEMMA NextOrder ==
  ASSUME TypeOK, Control, OrderInv, [Next]_vars
  PROVE  OrderInv'
<1> USE DEF At, Goto
<1>0. /\ log \in LineSeqs /\ disk \in SUBSET LineSeqs /\ seq \in Nat
      /\ Ordered(log, raised) /\ \A f \in disk : Ordered(f, raised)
      /\ \A r \in Replayed(log) : r.seq \in Nat
  BY ReplayedType, RecordTypes DEF TypeOK, OrderInv
<1>1. CASE \/ BeginMutation \/ BeginCheckpoint \/ SyncSnapshot
           \/ AppendFails \/ SyncFails \/ CheckpointFails
  <2>1. /\ UNCHANGED <<snap, snapDisk, seq, mode>> /\ mode = "up" /\ pc' # "written"
        /\ raised \subseteq raised'
        /\ log' \in PartlyWritten(log) /\ disk' \subseteq disk \union {log'} \union PartlyWritten(log)
        /\ pc = "written" => raised' = raised \union {issued}
    BY <1>1, LogItself
       DEF BeginMutation, AppendFails, WriteFails, SyncFails, MutationRaises, CheckpointFails,
           BeginCheckpoint, SyncSnapshot, WriteTemporary, FsyncTemporary, walVars, snapVars
  <2>2. \A f \in {log'} \union disk' : Ordered(f, raised)'
    BY <2>1, OrderKept
  <2>3. Replayed(log)' = Replayed(log)
    BY <1>0, <2>1, TornOrdered, FilesKept
  <2>4. \A r \in Replayed(log)' : r.seq <= seq' \/ Early(r)'
    BY <2>1, <2>3 DEF OrderInv, Early
  <2>5. pc' = "tempSynced" => (tmp').file = "synced"
    BY <1>1 DEF BeginMutation, AppendFails, SyncFails, MutationRaises, CheckpointFails,
                BeginCheckpoint, SyncSnapshot, FsyncTemporary, TypeOK, SnapFiles
  <2> QED BY <2>1, <2>2, <2>4, <2>5, FilesKept DEF OrderInv
<1>2. CASE AppendRecord \/ FlushBuffered
  <2> DEFINE r == IF pc' = "written" THEN Record(seq + 1, issued) ELSE Head(buffer)
  <2>1. /\ UNCHANGED <<snap, snapDisk, seq, mode, issued, raised>> /\ mode = "up" /\ pc # "written"
        /\ log' = Written(log, r) /\ r \in Records /\ r.seq = seq + 1
        /\ disk' \subseteq disk \union {log'} \union PartlyWritten(log) \union PartlyWritten(log')
        /\ IF pc' = "written" THEN r.mut = issued ELSE r.mut \in raised
        /\ pc' # "tempSynced"
    <3>1. CASE AppendRecord
      <4>1. /\ Record(seq + 1, issued) \in Records /\ Record(seq + 1, issued).seq = seq + 1
            /\ Record(seq + 1, issued).mut = issued
        BY RecordTypes DEF TypeOK, Record
      <4> QED BY <3>1, <4>1 DEF AppendRecord, WriteRecord, snapVars
    <3>2. CASE FlushBuffered
      <4>1. /\ pc' = pc /\ pc \in {"idle", "append", "truncate"}
            /\ buffer # << >> /\ buffer \in Seq(Records)
        BY <3>2 DEF FlushBuffered, FlushLine, TypeOK
      <4>2. /\ Head(buffer) \in Records /\ Head(buffer) = buffer[1] /\ 1 \in 1 .. Len(buffer)
        BY <4>1
      <4>3. /\ UNCHANGED <<snap, snapDisk, seq, mode, issued, raised>>
            /\ mode = "up" /\ log' = Written(log, Head(buffer))
            /\ disk' \subseteq disk \union {log'} \union PartlyWritten(log) \union PartlyWritten(log')
        BY <3>2 DEF FlushBuffered, FlushLine, snapVars
      <4>4. Head(buffer).seq = seq + 1 /\ Head(buffer).mut \in raised
        BY <4>2 DEF Control
      <4> QED BY <4>1, <4>2, <4>3, <4>4
    <3> QED BY <1>2, <3>1, <3>2
  <2> HIDE DEF r
  <2>2. \A q \in Replayed(log) : q.seq <= seq \/ (q.seq = seq + 1 /\ q.mut \in raised)
    BY <2>1 DEF OrderInv, Early
  <2>3. \A q \in Replayed(log) : q.seq < r.seq \/ (q.seq = r.seq /\ q.mut \in raised)
    BY <1>0, <2>1, <2>2
  <2>4. /\ Ordered(Written(log, r), raised)
        /\ Replayed(Written(log, r)) \subseteq Replayed(log) \union {r}
    BY <1>0, <2>1, <2>3, WrittenOrdered
  <2>5. /\ log' \in LineSeqs /\ Ordered(log', raised)
        /\ Replayed(log') \subseteq Replayed(log) \union {r}
    BY <1>0, <2>1, <2>4, WrittenType
  <2>6. \A q \in Replayed(log') : q.seq <= seq' \/ Early(q)'
    BY <2>1, <2>2, <2>5 DEF Early
  <2>7. \A f \in {log'} \union disk' : Ordered(f, raised')
    BY <1>0, <2>1, <2>5, TornOrdered
  <2> QED BY <2>1, <2>6, <2>7, FilesKept DEF OrderInv
<1>3. CASE CommitMutation
  <2>1. /\ UNCHANGED <<log, snap, snapDisk, mode, raised>> /\ pc = "written" /\ pc' = "idle"
        /\ seq' = seq + 1 /\ disk' \subseteq disk \union {log} /\ mode = "up"
    BY <1>3 DEF CommitMutation, SyncLog, snapVars
  <2>2. \A f \in {log'} \union disk' : Ordered(f, raised)'
    BY <2>1, OrderKept
  <2>3. \A q \in Replayed(log) : q.seq <= seq + 1
    BY <1>0, <2>1 DEF OrderInv, Early
  <2> QED BY <2>1, <2>2, <2>3, FilesKept DEF OrderInv
<1>4. CASE InstallSnapshot \/ SyncDirectory
  <2>1. /\ UNCHANGED <<log, disk, seq, mode, raised>> /\ mode = "up" /\ pc # "written"
        /\ pc' \notin {"written", "tempSynced"}
    BY <1>4 DEF InstallSnapshot, SyncDirectory, walVars
  <2>2. \A s \in {snap'} \union snapDisk' : s.file \in {"absent", "synced"}
    <3>1. CASE InstallSnapshot
      <4>1. tmp.file = "synced" /\ OnMedium(tmp) = tmp
        BY <3>1 DEF InstallSnapshot, OrderInv, OnMedium
      <4> QED BY <3>1, <4>1 DEF InstallSnapshot, ReplaceTarget, OrderInv
    <3>2. CASE SyncDirectory
      <4>1. OnMedium(snap) = snap
        BY DEF OrderInv, OnMedium
      <4> QED BY <3>2, <4>1 DEF SyncDirectory, FsyncDirectory, OrderInv
    <3> QED BY <1>4, <3>1, <3>2
  <2>3. \A f \in {log'} \union disk' : Ordered(f, raised)'
    BY <2>1, OrderKept
  <2>4. \A q \in Replayed(log') : q.seq <= seq' \/ Early(q)'
    BY <2>1 DEF OrderInv, Early
  <2> QED BY <2>1, <2>2, <2>3, <2>4, FilesKept DEF OrderInv
<1>5. CASE DropLog \/ FinishCheckpoint
  <2>1. /\ UNCHANGED <<snap, snapDisk, seq, mode, raised>> /\ mode = "up" /\ pc # "written"
        /\ pc' \notin {"written", "tempSynced"}
    BY <1>5 DEF DropLog, FinishCheckpoint, snapVars
  <2>2. log' \in {log, << >>} /\ disk' \subseteq disk \union {log, << >>}
    BY <1>5 DEF DropLog, FinishCheckpoint, TruncateLog, SyncLog
  <2>3. \A f \in {log'} \union disk' : Ordered(f, raised)'
    BY <2>1, <2>2, OrderKept
  <2>4. Replayed(log') \subseteq Replayed(log)
    BY <2>2, EmptyLog
  <2>5. \A q \in Replayed(log') : q.seq <= seq' \/ Early(q)'
    BY <2>1, <2>4 DEF OrderInv, Early
  <2> QED BY <2>1, <2>3, <2>5, FilesKept DEF OrderInv
<1>6. CASE Open
  <2>1. /\ UNCHANGED <<log, disk, snap, snapDisk, raised>> /\ pc' = "idle"
        /\ seq' >= snap.seq /\ \A r \in Recovered(log, snap) : r.seq <= seq'
        /\ seq' \in {snap.seq} \union {r.seq : r \in Recovered(log, snap)}
    BY <1>6 DEF Open, Control, walVars, snapVars
  <2>2. snap.seq \in Nat /\ \A r \in Recovered(log, snap) : r.seq \in Nat
    BY RecoveredType, RecordTypes DEF TypeOK, SnapFiles
  <2>3. ASSUME NEW r \in Replayed(log) PROVE r.seq <= seq'
    <3>1. CASE r.seq > snap.seq
      BY <2>1, <3>1 DEF Recovered
    <3>2. CASE ~(r.seq > snap.seq)
      BY <1>0, <2>1, <2>2, <3>2
    <3> QED BY <3>1, <3>2
  <2>4. \A f \in {log'} \union disk' : Ordered(f, raised)'
    BY <2>1, OrderKept
  <2> QED BY <2>1, <2>3, <2>4, FilesKept DEF OrderInv
<1>7. CASE OpenRefused \/ Close \/ Kill
  <2>1. /\ UNCHANGED <<snap, snapDisk, raised>> /\ mode' # "up"
        /\ log' \in PartlyWritten(log) /\ disk' \subseteq disk \union {log'}
    BY <1>7, LogItself
       DEF OpenRefused, Close, Kill, Stopped, HandleLost, walVars, snapVars
  <2>2. \A f \in {log'} \union disk' : Ordered(f, raised)'
    BY <2>1, OrderKept
  <2> QED BY <2>1, <2>2, FilesKept DEF OrderInv
<1>8. CASE PowerLoss
  <2>1. /\ mode' # "up" /\ log' \in disk /\ disk' = {log'} /\ raised' = raised
        /\ snap' \in snapDisk /\ snapDisk' = {snap'}
    BY <1>8 DEF PowerLoss, Stopped, LogLosesPower, SnapshotLosesPower
  <2>2. \A f \in {log'} \union disk' : Ordered(f, raised)'
    BY <2>1, OrderKept
  <2> QED BY <2>1, <2>2, FilesKept DEF OrderInv
<1>9. CASE Decay
  <2>1. PICK i \in 1 .. Len(log), k \in Damage : DamageLine(i, k)
    BY <1>9 DEF Decay
  <2>2. /\ UNCHANGED <<snap, snapDisk, mode, raised>> /\ mode = "down"
        /\ log' = [log EXCEPT ![i] = Blank(k)] /\ disk' = {log'}
    BY <1>9, <2>1 DEF Decay, DamageLine, snapVars
  <2>3. Ordered(log', raised')
    BY <1>0, <2>2, DamagedOrdered
  <2> QED BY <2>2, <2>3, FilesKept DEF OrderInv
<1>10. CASE UNCHANGED vars
  <2>1. UNCHANGED <<log, disk, snap, snapDisk, tmp, mode, pc, seq, issued, raised>>
    BY <1>10 DEF vars, walVars, snapVars, engineVars
  <2> QED BY <2>1, FilesKept DEF OrderInv, Early
<1> QED
  BY <1>1, <1>2, <1>3, <1>4, <1>5, <1>6, <1>7, <1>8, <1>9, <1>10 DEF Next

(* A refused database stays as it is; a step that refuses found damage.    *)
LEMMA NextRefusal == RefusalInv /\ [Next]_vars => RefusalInv'
<1> SUFFICES ASSUME RefusalInv, [Next]_vars PROVE RefusalInv'
  OBVIOUS
<1>1. TypeOK /\ Control /\ OrderInv /\ RefusedOnlyForDamage
  BY DEF RefusalInv
<1>2. TypeOK' /\ Control' /\ OrderInv'
  BY <1>1, NextTypeOK, NextControl, NextOrder
<1>3. ASSUME mode' = "refused" PROVE \E i \in 1 .. Len(log') : RefusedAt(i)'
  <2>1. CASE OpenRefused
    <3>1. log' = log /\ raised' = raised /\ \E i \in 1 .. Len(log) : RefusedAt(i)
      BY <1>1, <2>1, RefusalsAreDamage DEF OpenRefused, walVars
    <3> QED BY <3>1 DEF RefusedAt
  <2>2. CASE ~OpenRefused
    <3>1. log' = log /\ raised' = raised /\ mode = "refused"
      BY <1>3, <2>2
         DEF Next, vars, walVars, engineVars, At, Goto, BeginMutation, AppendRecord,
             CommitMutation, FlushBuffered, AppendFails, SyncFails, MutationRaises,
             CheckpointFails, BeginCheckpoint, SyncSnapshot, InstallSnapshot, SyncDirectory,
             DropLog, FinishCheckpoint, Open, Close, Stopped, Kill, PowerLoss, Decay
    <3> QED BY <1>1, <3>1 DEF RefusedOnlyForDamage, RefusedAt
  <2> QED BY <2>1, <2>2
<1> QED BY <1>2, <1>3 DEF RefusalInv, RefusedOnlyForDamage, RefusedAt

(* "malformed records in the middle of the log fail startup": a start is   *)
(* refused for nothing else but a wrong checksum (wherever it stands, also *)
(* last, where ARCHITECTURE.md says that the record is not applied), or a  *)
(* record that was given the number of one whose append had raised, what-  *)
(* ever crashes, torn writes, lost syncs or damage came before.            *)
THEOREM RefusalsAreForDamage == Spec => []RefusedOnlyForDamage
<1>1. RefusalInv => RefusedOnlyForDamage
  BY DEF RefusalInv
<1> QED BY <1>1, InitRefusal, NextRefusal, PTL DEF Spec

----------------------------------------------------------------------------
(* What a start drops.  It reads on until it meets a line that is not      *)
(* intact, and only a torn or garbled one lets it end well.  A torn line   *)
(* is always the last: the next record runs into it.                       *)

TornLast(f) == \A i \in 1 .. Len(f) : f[i].kind = "torn" => i = Len(f)

TornInv == TypeOK /\ TornLast(log) /\ \A f \in disk : TornLast(f)

(* Writing to a file keeps torn lines at its end.                          *)
LEMMA WrittenTornLast ==
  ASSUME NEW f \in LineSeqs, TornLast(f), NEW r \in Records
  PROVE  TornLast(Written(f, r)) /\ \A g \in PartlyWritten(f) : TornLast(g)
<1>1. Len(f) \in Nat /\ r.kind # "torn" /\ Blank("garbled").kind # "torn"
  BY RecordTypes DEF LineSeqs, Blank
<1>2. ~Unterminated(f) => \A i \in 1 .. Len(f) : f[i].kind # "torn"
  BY <1>1 DEF TornLast, Unterminated
<1>3. TornLast(Written(f, r))
  <2>1. CASE Unterminated(f)
    <3> DEFINE g == [f EXCEPT ![Len(f)] = Blank("garbled")]
    <3>1. Len(g) = Len(f) /\ \A i \in 1 .. Len(f) : g[i] = f[i] \/ g[i] = Blank("garbled")
      BY <1>1 DEF LineSeqs
    <3> HIDE DEF g
    <3>2. TornLast(g)
      BY <1>1, <3>1 DEF TornLast
    <3> QED BY <2>1, <3>2 DEF Written, g
  <2>2. CASE ~Unterminated(f)
    <3> DEFINE g == Append(f, r)
    <3>1. /\ Len(g) = Len(f) + 1 /\ g[Len(f) + 1] = r
          /\ \A i \in 1 .. Len(f) : g[i] = f[i]
      BY <1>1, RecordTypes DEF LineSeqs
    <3> HIDE DEF g
    <3>2. TornLast(g)
      BY <1>1, <1>2, <2>2, <3>1 DEF TornLast
    <3> QED BY <2>2, <3>2 DEF Written, g
  <2> QED BY <2>1, <2>2
<1>4. ASSUME ~Unterminated(f) PROVE TornLast(Append(f, Blank("torn")))
  <2> DEFINE g == Append(f, Blank("torn"))
  <2>1. Len(g) = Len(f) + 1 /\ \A i \in 1 .. Len(f) : g[i] = f[i]
    BY <1>1, RecordTypes DEF LineSeqs
  <2> HIDE DEF g
  <2>2. TornLast(g)
    BY <1>1, <1>2, <1>4, <2>1 DEF TornLast
  <2> QED BY <2>2 DEF g
<1> QED BY <1>3, <1>4 DEF PartlyWritten

(* So no step leaves a torn line before the last.                          *)
LEMMA NextTorn == TornInv /\ [Next]_vars => TornInv'
<1> SUFFICES ASSUME TornInv, [Next]_vars
             PROVE  TornLast(log') /\ \A f \in disk' : TornLast(f)
  BY NextTypeOK DEF TornInv, TornLast
<1>1. /\ TypeOK /\ log \in LineSeqs /\ disk \in SUBSET LineSeqs
      /\ TornLast(log) /\ \A f \in disk : TornLast(f)
  BY DEF TornInv, TypeOK
<1>2. CASE AppendRecord \/ FlushBuffered
  <2>1. PICK r \in Records :
          /\ log' = Written(log, r)
          /\ disk' \subseteq disk \union {log'} \union PartlyWritten(log) \union PartlyWritten(log')
    <3>1. Record(seq + 1, issued) \in Records
      BY <1>1, RecordTypes DEF TypeOK
    <3>2. CASE AppendRecord
      BY <3>1, <3>2 DEF AppendRecord, WriteRecord
    <3>3. CASE FlushBuffered
      <4>1. Head(buffer) \in Records
        BY <1>1, <3>3 DEF FlushBuffered, FlushLine, TypeOK
      <4> QED BY <3>3, <4>1 DEF FlushBuffered, FlushLine
    <3> QED BY <1>2, <3>2, <3>3
  <2>2. log' \in LineSeqs /\ TornLast(log')
    BY <1>1, <2>1, WrittenType, WrittenTornLast
  <2> QED BY <1>1, <2>1, <2>2, WrittenTornLast
<1>3. CASE Kill \/ AppendFails
  <2>1. Record(1, 1) \in Records
    BY RecordTypes
  <2>2. log' \in PartlyWritten(log) /\ disk' \subseteq disk \union {log'} \union PartlyWritten(log)
    BY <1>3, LogItself DEF Kill, HandleLost, AppendFails, WriteFails
  <2> QED BY <1>1, <2>1, <2>2, WrittenTornLast
<1>4. CASE DropLog
  <2>1. TornLast(<< >>)
    BY DEF TornLast
  <2> QED BY <1>1, <1>4, <2>1 DEF DropLog, TruncateLog
<1>5. CASE Decay
  <2>1. PICK i \in 1 .. Len(log), k \in Damage : DamageLine(i, k)
    BY <1>5 DEF Decay
  <2> DEFINE g == [log EXCEPT ![i] = Blank(k)]
  <2>2. Blank(k).kind # "torn" /\ log' = g /\ disk' = {g}
    BY <2>1, DamageAssumption DEF DamageLine, Blank
  <2>3. Len(g) = Len(log) /\ \A j \in 1 .. Len(log) : g[j] = log[j] \/ g[j] = Blank(k)
    BY <1>1 DEF LineSeqs
  <2> HIDE DEF g
  <2>4. TornLast(g)
    BY <1>1, <2>2, <2>3 DEF TornLast
  <2> QED BY <2>2, <2>4
<1>6. CASE \/ BeginMutation \/ CommitMutation \/ BeginCheckpoint \/ SyncSnapshot
           \/ InstallSnapshot \/ SyncDirectory \/ FinishCheckpoint \/ Open \/ OpenRefused
           \/ SyncFails \/ CheckpointFails \/ Close \/ PowerLoss \/ UNCHANGED vars
  <2>1. log' \in {log} \union disk /\ disk' \subseteq {log'} \union disk
    BY SMTT(30), <1>6
       DEF vars, walVars, BeginMutation, CommitMutation, SyncLog, BeginCheckpoint, SyncSnapshot,
           InstallSnapshot, SyncDirectory, FinishCheckpoint, Open, OpenRefused, Close, PowerLoss,
           LogLosesPower, SyncFails, CheckpointFails
  <2> QED BY <1>1, <2>1
<1> QED BY <1>2, <1>3, <1>4, <1>5, <1>6 DEF Next

(* A start never drops a record silently, except for the final line: all   *)
(* that stands before it are records, and what is newer than the snapshot  *)
(* is loaded, whatever crashes, torn writes and damage came before.        *)
THEOREM TailOnlyDropped == Spec => NothingBeforeTailDropped
<1>1. Init => TornInv
  <2> SUFFICES ASSUME Init PROVE TornInv
    OBVIOUS
  <2>1. TornLast(<< >>)
    BY DEF TornLast
  <2> QED BY <2>1, InitTypeOK DEF Init, WalInit, TornInv
<1>2. ASSUME TornInv, Open, NEW i \in 1 .. Len(log) - 1
      PROVE  log[i].kind = "record" /\ (log[i].seq > snap.seq => log[i] \in live')
  <2>1. /\ ~ReplayFails(log) /\ live' = Recovered(log, snap)
        /\ log \in LineSeqs /\ TornLast(log) /\ Len(log) \in Nat
    BY <1>2 DEF Open, LoadFails, TornInv, TypeOK, LineSeqs
  <2>2. ASSUME NEW j \in 1 .. i, ~Intact(log, j) PROVE FALSE
    <3>1. j \in 1 .. Len(log)
      BY <2>1
    <3>2. PICK k \in 1 .. j : ~Intact(log, k) /\ \A m \in 1 .. k - 1 : Intact(log, m)
      BY <2>1, <2>2, <3>1, FirstNotIntact
    <3>3. k \in 1 .. Len(log) /\ k # Len(log)
      BY <2>1, <3>2
    <3>4. IgnoredAsTorn(log, k)
      BY <2>1, <3>2, <3>3 DEF ReplayFails
    <3> QED BY <2>1, <3>3, <3>4 DEF IgnoredAsTorn, TornLast
  <2>3. i \in 1 .. Len(log) /\ \A j \in 1 .. i : Intact(log, j)
    BY <2>1, <2>2
  <2>4. log[i] \in Replayed(log) /\ log[i].kind = "record"
    BY <2>3 DEF Replayed, Intact
  <2> QED BY <2>1, <2>4 DEF Recovered
<1>3. TornInv /\ [Next]_vars =>
        [Open => \A i \in 1 .. Len(log) - 1 :
                   /\ log[i].kind = "record"
                   /\ log[i].seq > snap.seq => log[i] \in live']_vars
  BY <1>2
<1> QED BY <1>1, <1>3, NextTorn, PTL DEF Spec, NothingBeforeTailDropped

----------------------------------------------------------------------------
(* The refinement.  A power loss must take away the latest mutations only: *)
(* what a start makes of any log and any snapshot the medium may hold has  *)
(* with each mutation all that come before it in what it would make of the *)
(* files a process sees, and none that is not there but of a raised call.  *)

(* Where power can be lost, the code syncs the log and the directory.      *)
Synced == PowerLosses => Sync /\ DirFsync

Near(part, all) ==
  /\ \A a \in part, b \in all : b.seq < a.seq => b \in part
  /\ \A a \in part \ all : a.mut \in raised

(* The snapshots differ only in what the log makes up for.                 *)
SnapshotsAgree == \A s \in Snaps : Recovered(log, s) = Recovered(log, snap)

MediumInv ==
  /\ SnapshotsAgree
  /\ \A f \in Logs, s \in Snaps : Near(Recovered(f, s), Recovered(log, snap))

(* What all steps below may assume.                                        *)
SafeState == TypeOK /\ Control /\ OrderInv /\ Safe /\ SafeInv

(* Numbers of a running engine without a record of its own in the log.     *)
LEMMA NumbersBelow ==
  ASSUME SafeState, mode = "up", pc # "written"
  PROVE  /\ seq \in Nat /\ live \subseteq Recovered(log, snap)
         /\ \A r \in Recovered(log, snap) \ live : r.seq = seq + 1 /\ r.mut \in raised
         /\ \A r \in live : r.seq \in Nat /\ r.seq <= seq
         /\ \A s \in Snaps : s.seq \in Nat /\ s.seq <= seq
         /\ \A s \in Snaps : \A r \in s.recs : r.seq \in Nat /\ r.seq <= seq
         /\ \A f \in Logs : \A r \in Replayed(f) : r.seq \in Nat /\ r.seq <= seq + 1
<1>1. Numbered /\ MemoryMatches /\ SnapsLoad
  BY DEF SafeState, SafeInv, Running
<1>2. seq \in Nat /\ snap.seq \in Nat /\ \A s \in Snaps : s.seq \in Nat /\ s.recs \subseteq Records
  BY DEF SafeState, TypeOK, Snaps, SnapFiles
<1>3. \A f \in Logs : \A r \in Replayed(f) : r.seq \in Nat
  BY ReplayedType, RecordTypes DEF SafeState, TypeOK, Logs
<1>4. \A s \in Snaps : s.seq <= seq
  BY <1>1, <1>2 DEF SnapsLoad, Numbered
<1>5. ASSUME NEW s \in Snaps, NEW r \in s.recs PROVE r.seq \in Nat /\ r.seq <= seq
  <2>1. r.seq <= s.seq /\ r.seq \in Nat
    BY <1>1, <1>2, RecordTypes DEF SnapsLoad
  <2> QED BY <2>1, <1>2, <1>4
<1>6. \A r \in live : r.seq \in Nat
  BY RecordTypes DEF SafeState, TypeOK
<1> QED BY <1>1, <1>2, <1>3, <1>4, <1>5, <1>6 DEF Numbered, MemoryMatches

(* What a start makes of the files does not depend on anything else.       *)
LEMMA RecoveredPrimed ==
  /\ Recovered(log, snap)' = Recovered(log', snap')
  /\ \A s : Recovered(log, s)' = Recovered(log', s)
BY DEF Recovered, Replayed, Intact

(* The invariant after a step, from what the step leaves.                  *)
LEMMA MediumLater ==
  ASSUME NEW all, Recovered(log', snap') = all, raised' = raised, SnapshotsAgree',
         \A f \in Logs', s \in Snaps' : Near(Recovered(f, s), all)
  PROVE  MediumInv'
<1>1. ASSUME NEW f \in Logs', NEW s \in Snaps'
      PROVE  Near(Recovered(f, s), Recovered(log, snap))'
  <2>1. Recovered(f, s)' = Recovered(f, s)
    BY DEF Recovered, Replayed, Intact
  <2>2. Recovered(log, snap)' = all
    BY RecoveredPrimed
  <2>3. Near(Recovered(f, s), all)
    OBVIOUS
  <2> QED BY <2>1, <2>2, <2>3 DEF Near
<1> QED BY <1>1 DEF MediumInv

(* What a record adds to the files, new or buffered.                       *)
LEMMA AppendAdds ==
  ASSUME SafeState, AppendRecord \/ FlushBuffered, ~spoiled'
  PROVE  /\ mode = "up" /\ pc # "written" /\ UNCHANGED <<snap, snapDisk, acked, raised>>
         /\ \E r \in Records :
              /\ r.seq = seq + 1 /\ Replayed(log') = Replayed(log) \union {r}
              /\ \A q \in Replayed(log) : q.seq \in Nat /\ q.seq <= seq
              /\ \A f \in Logs' :
                   Replayed(f) = Replayed(log') \/ \E g \in Logs : Replayed(f) = Replayed(g)
<1> USE DEF At, Goto, SafeState
<1>1. PICK r \in Records :
        /\ r.seq = seq + 1 /\ log' = Written(log, r)
        /\ disk' \subseteq disk \union {log'} \union PartlyWritten(log) \union PartlyWritten(log')
  <2>1. CASE AppendRecord
    <3>1. Record(seq + 1, issued) \in Records /\ Record(seq + 1, issued).seq = seq + 1
      BY RecordTypes DEF TypeOK, Record
    <3> QED BY <2>1, <3>1 DEF AppendRecord, WriteRecord
  <2>2. CASE FlushBuffered
    <3>1. buffer # << >> /\ buffer \in Seq(Records)
      BY <2>2 DEF FlushBuffered, FlushLine, TypeOK
    <3>2. Head(buffer) \in Records /\ Head(buffer) = buffer[1] /\ 1 \in 1 .. Len(buffer)
      BY <3>1
    <3>3. Head(buffer).seq = seq + 1
      BY <3>2 DEF Control
    <3> QED BY <2>2, <3>2, <3>3 DEF FlushBuffered, FlushLine
  <2> QED BY <2>1, <2>2
<1>2. mode = "up" /\ pc # "written" /\ UNCHANGED <<snap, snapDisk, acked, raised>>
  BY DEF AppendRecord, FlushBuffered, snapVars
<1>3. Intact(Written(log, r), Len(Written(log, r)))
  <2>1. Intact(log', Len(log'))
    BY DEF AppendRecord, FlushBuffered, LastSpoiled
  <2> QED BY <1>1, <2>1
<1>4. /\ Replayed(log') = Replayed(log) \union {r}
      /\ \A q \in Replayed(log) : q.seq \in Nat /\ q.seq <= seq
      /\ \A f \in Logs' : Replayed(f) = Replayed(log') \/ \E g \in Logs : Replayed(f) = Replayed(g)
  BY <1>1, <1>2, <1>3, RecordWritten
<1> QED BY <1>1, <1>2, <1>4

(* A new record comes after everything any of the files holds.             *)
LEMMA AppendMedium ==
  ASSUME SafeState, MediumInv, AppendRecord \/ FlushBuffered, ~spoiled'
  PROVE  MediumInv'
<1>1. mode = "up" /\ pc # "written" /\ UNCHANGED <<snap, snapDisk, raised>>
  BY AppendAdds
<1>2. PICK r \in Records :
        /\ r.seq = seq + 1 /\ Replayed(log') = Replayed(log) \union {r}
        /\ \A q \in Replayed(log) : q.seq \in Nat /\ q.seq <= seq
        /\ \A f \in Logs' : Replayed(f) = Replayed(log') \/ \E g \in Logs : Replayed(f) = Replayed(g)
  BY AppendAdds
<1>3. /\ seq \in Nat
      /\ \A s \in Snaps : s.seq \in Nat /\ s.seq <= seq
      /\ \A s \in Snaps : \A q \in s.recs : q.seq \in Nat /\ q.seq <= seq
      /\ \A f \in Logs : \A q \in Replayed(f) : q.seq \in Nat /\ q.seq <= seq + 1
  BY <1>1, NumbersBelow
<1>4. Snaps' = Snaps /\ snap \in Snaps /\ log \in Logs
  BY <1>1 DEF Snaps, Logs
<1>5. \A s \in Snaps : Recovered(log', s) = Recovered(log, s) \union {r}
  BY <1>2, <1>3 DEF Recovered
<1> DEFINE all == Recovered(log, snap)
<1>6. \A s \in Snaps : Recovered(log', s) = all \union {r}
  BY <1>5 DEF MediumInv, SnapshotsAgree
<1>7. Recovered(log, snap)' = all \union {r}
  BY <1>1, <1>4, <1>6, RecoveredPrimed
<1>8. SnapshotsAgree'
  BY <1>4, <1>6, <1>7, RecoveredPrimed DEF SnapshotsAgree
<1>9. ASSUME NEW f \in Logs', NEW s \in Snaps'
      PROVE  Near(Recovered(f, s), all \union {r})
  <2>1. CASE Replayed(f) = Replayed(log')
    <3>1. Recovered(f, s) = all \union {r}
      BY <2>1, <1>4, <1>6 DEF Recovered
    <3> QED BY <3>1 DEF Near
  <2>2. ASSUME NEW g \in Logs, Replayed(f) = Replayed(g)
        PROVE  Near(Recovered(f, s), all \union {r})
    <3>1. Recovered(f, s) = Recovered(g, s)
      BY <2>2 DEF Recovered
    <3>2. Near(Recovered(f, s), all)
      BY <3>1, <1>4 DEF MediumInv
    <3>3. \A a \in Recovered(f, s) : ~(r.seq < a.seq)
      BY <3>1, <1>2, <1>3, <1>4 DEF Recovered
    <3> QED BY <3>2, <3>3 DEF Near
  <2> QED BY <1>2, <2>1, <2>2
<1>10. Recovered(log', snap') = all \union {r}
  BY <1>7, RecoveredPrimed
<1> HIDE DEF all
<1> QED BY <1>1, <1>8, <1>9, <1>10, MediumLater

(* The snapshot that is put in place holds what any of the logs must hold. *)
LEMMA InstallMedium ==
  ASSUME SafeState, MediumInv, InstallSnapshot
  PROVE  MediumInv' /\ Recovered(log', snap') = Recovered(log, snap)
<1>1. /\ UNCHANGED <<log, disk, raised>> /\ mode = "up" /\ pc = "tempSynced"
      /\ snap' = tmp /\ snapDisk' = snapDisk \union {OnMedium(tmp)}
  BY DEF InstallSnapshot, ReplaceTarget, walVars, At, Goto
<1>2. tmp.seq = seq /\ tmp.recs = live /\ OnMedium(tmp) = tmp
  BY <1>1 DEF SafeState, SafeInv, Running, CheckpointHolds, OnMedium
<1>3. Logs' = Logs /\ Snaps' \subseteq Snaps \union {tmp} /\ snap \in Snaps /\ log \in Logs
  BY <1>1, <1>2 DEF Logs, Snaps
<1> DEFINE all == Recovered(log, snap)
<1>4. /\ seq \in Nat /\ snap.seq \in Nat /\ snap.seq <= seq /\ live \subseteq all
      /\ \A r \in all \ live : r.seq = seq + 1 /\ r.mut \in raised
      /\ \A r \in live \union snap.recs : r.seq \in Nat /\ r.seq <= seq
      /\ \A f \in Logs : \A r \in Replayed(f) : r.seq \in Nat /\ r.seq <= seq + 1
  BY <1>1, <1>3, NumbersBelow
<1>5. Recovered(log, tmp) = all
  <2>1. ASSUME NEW r \in Recovered(log, tmp) PROVE r \in all
    <3>1. CASE r \in live
      BY <3>1, <1>4
    <3>2. CASE r \notin live
      BY <3>2, <1>2, <1>3, <1>4 DEF Recovered
    <3> QED BY <3>1, <3>2
  <2>2. ASSUME NEW r \in all PROVE r \in Recovered(log, tmp)
    <3>1. CASE r \in live
      BY <3>1, <1>2 DEF Recovered
    <3>2. CASE r \notin live
      <4>1. r.seq = seq + 1 /\ r.seq > seq /\ r \notin snap.recs
        BY <3>2, <1>4
      <4> QED BY <4>1, <1>2 DEF Recovered
    <3> QED BY <3>1, <3>2
  <2> QED BY <2>1, <2>2
<1>6. Recovered(log', snap') = all
  BY <1>1, <1>5
<1>7. SnapshotsAgree'
  BY <1>1, <1>3, <1>5, <1>6, RecoveredPrimed DEF MediumInv, SnapshotsAgree
<1>8. ASSUME NEW f \in Logs, NEW s \in Snaps' PROVE Near(Recovered(f, s), all)
  <2>1. CASE s \in Snaps
    BY <2>1 DEF MediumInv
  <2>2. CASE s = tmp
    <3>1. ASSUME NEW a \in Recovered(f, tmp), NEW b \in all, b.seq < a.seq
          PROVE  b \in Recovered(f, tmp)
      <4>1. a.seq <= seq + 1 /\ a.seq \in Nat
        BY <1>2, <1>4 DEF Recovered
      <4>2. b \in live
        BY <3>1, <4>1, <1>4
      <4> QED BY <4>2, <1>2 DEF Recovered
    <3>2. ASSUME NEW a \in Recovered(f, tmp) \ all PROVE a.mut \in raised
      <4>1. a \in Replayed(f) /\ a.seq > seq
        BY <1>2, <1>4 DEF Recovered
      <4>2. a \in Recovered(f, snap)
        BY <4>1, <1>4 DEF Recovered
      <4> QED BY <4>2, <1>3 DEF MediumInv, Near
    <3> QED BY <2>2, <3>1, <3>2 DEF Near
  <2> QED BY <1>3, <2>1, <2>2
<1>9. MediumInv'
  BY <1>1, <1>3, <1>6, <1>7, <1>8, MediumLater
<1> QED BY <1>6, <1>9

(* Truncation adds an empty log, to a snapshot that holds everything but   *)
(* what a raised call may have left.                                       *)
LEMMA DropMedium ==
  ASSUME SafeState, MediumInv, DropLog
  PROVE  MediumInv' /\ Recovered(log', snap') = live
<1>1. /\ mode = "up" /\ pc = "truncate" /\ UNCHANGED <<snap, snapDisk, raised>>
      /\ log' = << >> /\ disk' = disk \union {<< >>}
  BY DEF DropLog, TruncateLog, snapVars, At, Goto
<1>2. Snaps' = {snap} /\ Snaps = {snap} /\ snap.recs = live
  BY <1>1 DEF SafeState, SafeInv, Running, CheckpointHolds, Snaps
<1>3. Logs' \subseteq Logs \union {<< >>}
  BY <1>1 DEF Logs
<1>4. Recovered(<< >>, snap) = live /\ Recovered(log', snap') = live
  BY <1>1, <1>2, EmptyLog DEF Recovered
<1>5. \A r \in Recovered(log, snap) \ live : r.mut \in raised
  BY <1>1, NumbersBelow
<1>6. ASSUME NEW f \in Logs', NEW s \in Snaps' PROVE Near(Recovered(f, s), live)
  <2>1. s = snap /\ live \subseteq Recovered(f, s)
    BY <1>2 DEF Recovered
  <2>2. CASE f = << >>
    BY <2>1, <2>2, <1>4 DEF Near
  <2>3. CASE f \in Logs
    <3>1. Near(Recovered(f, s), Recovered(log, snap))
      BY <2>1, <2>3, <1>2 DEF MediumInv
    <3> QED BY <2>1, <3>1, <1>5 DEF Near
  <2> QED BY <1>3, <2>2, <2>3
<1>7. SnapshotsAgree'
  BY <1>1, <1>2, <1>4, RecoveredPrimed DEF SnapshotsAgree
<1>8. MediumInv'
  BY <1>1, <1>4, <1>6, <1>7, MediumLater
<1> QED BY <1>4, <1>8

(* Steps after which a start would make the same of the visible files, and *)
(* the medium holds nothing else.                                          *)
LEMMA FewerFiles ==
  ASSUME MediumInv, Replayed(log') = Replayed(log), snap' = snap, Snaps' \subseteq Snaps,
         \A f \in Logs' : \E g \in Logs : Replayed(f) = Replayed(g), raised \subseteq raised'
  PROVE  MediumInv' /\ Recovered(log', snap') = Recovered(log, snap)
<1>1. \A s \in Snaps : Recovered(log', s) = Recovered(log, s)
  BY DEF Recovered
<1>2. Recovered(log', snap') = Recovered(log, snap)
  BY <1>1 DEF Snaps
<1>3. SnapshotsAgree'
  BY <1>1, <1>2, RecoveredPrimed DEF MediumInv, SnapshotsAgree
<1>4. ASSUME NEW f \in Logs', NEW s \in Snaps'
      PROVE  /\ Near(Recovered(f, s), Recovered(log, snap))
             /\ Near(Recovered(f, s), Recovered(log, snap))'
  <2>1. PICK g \in Logs : Recovered(f, s) = Recovered(g, s)
    BY DEF Recovered
  <2>2. Near(Recovered(f, s), Recovered(log, snap))
    BY <2>1 DEF MediumInv
  <2>3. Recovered(f, s)' = Recovered(f, s)
    BY DEF Recovered, Replayed, Intact
  <2>4. Near(Recovered(f, s), Recovered(log, snap))'
    BY <1>2, <2>2, <2>3, RecoveredPrimed DEF Near
  <2> QED BY <2>2, <2>4
<1> QED BY <1>2, <1>3, <1>4 DEF MediumInv

(* A power loss leaves one log and one snapshot.                           *)
LEMMA PowerLossMedium ==
  ASSUME PowerLoss
  PROVE  MediumInv' /\ log' \in Logs /\ snap' \in Snaps
<1>1. PowerLosses /\ log' \in disk /\ disk' = {log'} /\ snap' \in snapDisk /\ snapDisk' = {snap'}
  BY DEF PowerLoss, LogLosesPower, SnapshotLosesPower
<1>2. Logs' = {log'} /\ Snaps' = {snap'} /\ log' \in Logs /\ snap' \in Snaps
  BY <1>1 DEF Logs, Snaps
<1>3. SnapshotsAgree'
  BY <1>2, RecoveredPrimed DEF SnapshotsAgree
<1>4. ASSUME NEW f \in Logs', NEW s \in Snaps'
      PROVE  Near(Recovered(f, s), Recovered(log, snap))'
  <2>1. Recovered(f, s)' = Recovered(log, snap)'
    <3>1. f = log' /\ s = snap'
      BY <1>2
    <3> QED BY <3>1 DEF Recovered, Replayed, Intact
  <2> QED BY <2>1 DEF Near
<1> QED BY <1>2, <1>3, <1>4 DEF MediumInv

(* Steps that leave the log as it is read, with or without a torn line.    *)
LEMMA QuietMedium ==
  ASSUME SafeState, MediumInv, UNCHANGED <<snap, snapDisk>>, raised \subseteq raised',
         log' \in PartlyWritten(log), disk' \subseteq disk \union {log'} \union PartlyWritten(log)
  PROVE  MediumInv' /\ Recovered(log', snap') = Recovered(log, snap)
<1>1. log \in LineSeqs /\ Sound(log)
  BY DEF SafeState, SafeInv, LogsSound, Logs, TypeOK
<1>2. Replayed(log') = Replayed(log)
  BY <1>1, TornSound
<1>3. Snaps' = Snaps /\ \A f \in Logs' : \E g \in Logs : Replayed(f) = Replayed(g)
  BY LogRead DEF SafeState
<1> QED BY <1>2, <1>3, FewerFiles

(* The quiet steps.                                                        *)
Quiet ==
  \/ BeginMutation \/ CommitMutation \/ AppendFails \/ SyncFails \/ CheckpointFails
  \/ BeginCheckpoint \/ SyncSnapshot \/ FinishCheckpoint \/ Open \/ OpenRefused
  \/ Close \/ Kill \/ UNCHANGED vars

LEMMA QuietSteps ==
  ASSUME Quiet
  PROVE  /\ UNCHANGED <<snap, snapDisk>> /\ raised \subseteq raised'
         /\ log' \in PartlyWritten(log) /\ disk' \subseteq disk \union {log'} \union PartlyWritten(log)
<1> USE LogItself DEF walVars, snapVars
<1>1. CASE BeginMutation \/ BeginCheckpoint \/ SyncSnapshot \/ CheckpointFails \/ SyncFails
  BY <1>1 DEF BeginMutation, BeginCheckpoint, SyncSnapshot, WriteTemporary, FsyncTemporary,
              CheckpointFails, SyncFails, MutationRaises
<1>2. CASE CommitMutation \/ FinishCheckpoint
  BY <1>2 DEF CommitMutation, FinishCheckpoint, SyncLog
<1>3. CASE AppendFails
  BY <1>3 DEF AppendFails, WriteFails, MutationRaises
<1>4. CASE Open \/ OpenRefused \/ Close \/ Kill
  BY <1>4 DEF Open, OpenRefused, Close, Kill, HandleLost
<1>5. CASE UNCHANGED vars
  BY <1>5 DEF vars, engineVars
<1> QED BY <1>1, <1>2, <1>3, <1>4, <1>5 DEF Quiet

(* So does the sync of the directory.                                      *)
LEMMA DirectoryMedium ==
  ASSUME SafeState, MediumInv, SyncDirectory
  PROVE  MediumInv' /\ Recovered(log', snap') = Recovered(log, snap)
<1>1. UNCHANGED <<log, disk, snap, raised>> /\ snapDisk' \subseteq snapDisk \union {OnMedium(snap)}
  BY DEF SyncDirectory, FsyncDirectory, walVars
<1>2. OnMedium(snap) = snap
  BY DEF SafeState, OrderInv, OnMedium
<1>3. Snaps' \subseteq Snaps /\ Logs' = Logs
  BY <1>1, <1>2 DEF Snaps, Logs
<1>4. Replayed(log') = Replayed(log)
  BY <1>1
<1> QED BY <1>1, <1>3, <1>4, FewerFiles

(* Each step keeps the invariant as long as nothing is spoiled.            *)
LEMMA NextMedium ==
  ASSUME SafeState, MediumInv, [Next]_vars, ~spoiled'
  PROVE  MediumInv'
<1>1. CASE AppendRecord \/ FlushBuffered
  BY <1>1, AppendMedium
<1>2. CASE InstallSnapshot
  BY <1>2, InstallMedium
<1>3. CASE DropLog
  BY <1>3, DropMedium
<1>4. CASE PowerLoss
  BY <1>4, PowerLossMedium
<1>5. CASE Quiet
  BY <1>5, QuietSteps, QuietMedium
<1>6. CASE SyncDirectory
  BY <1>6, DirectoryMedium
<1>7. CASE Decay
  BY <1>7 DEF Decay
<1> QED BY <1>1, <1>2, <1>3, <1>4, <1>5, <1>6, <1>7 DEF Next, Quiet

(* The initial files agree.                                                *)
LEMMA InitMedium == Init => MediumInv
<1> SUFFICES ASSUME Init PROVE MediumInv
  OBVIOUS
<1>1. Logs = {log} /\ Snaps = {snap}
  BY DEF Init, WalInit, SnapInit, Logs, Snaps
<1> QED BY <1>1 DEF MediumInv, SnapshotsAgree, Near

(* The invariant of the refinement.                                        *)
RefinementInv == IInv /\ RefusalInv /\ (~spoiled => MediumInv)

(* It is kept, where the code syncs what power can lose.                   *)
LEMMA NextRefinement ==
  ASSUME Synced PROVE RefinementInv /\ [Next]_vars => RefinementInv'
<1> SUFFICES ASSUME RefinementInv, [Next]_vars PROVE RefinementInv'
  OBVIOUS
<1>1. IInv' /\ RefusalInv'
  BY NextIInv, NextRefusal DEF RefinementInv
<1>2. ASSUME ~spoiled' PROVE MediumInv'
  <2>1. ~spoiled
    BY <1>2, SpoiledKept
  <2>2. SafeState /\ MediumInv
    BY <2>1 DEF RefinementInv, IInv, RefusalInv, Safe, Synced, SafeState
  <2> QED BY <1>2, <2>2, NextMedium
<1> QED BY <1>1, <1>2 DEF RefinementInv

(* In a safe state a start loads the files.                                *)
LEMMA SafeLoads ==
  ASSUME SafeState PROVE Recoverable = Recovered(log, snap) /\ acked \subseteq Recoverable
<1>1. log \in Logs /\ snap \in Snaps /\ log \in LineSeqs
  BY DEF SafeState, TypeOK, Logs, Snaps
<1>2. ~ReadFails(snap)
  BY <1>1 DEF SafeState, SafeInv, SnapsLoad, ReadFails
<1>3. ~ReplayFails(log)
  BY <1>1, SoundLoads DEF SafeState, SafeInv, LogsSound
<1>4. Recoverable = Recovered(log, snap)
  BY <1>2, <1>3 DEF Recoverable, LoadFails
<1> QED BY <1>1, <1>4 DEF SafeState, SafeInv, AckedOnDisk

(* The initial state is one of DurableStore.                               *)
LEMMA InitPromised == Init => Promise!Init
<1> SUFFICES ASSUME Init PROVE Promise!Init
  OBVIOUS
<1>1. log = << >> /\ snap = NoSnapshot /\ acked = {} /\ raised = {} /\ spoiled = FALSE
  BY DEF Init, WalInit, SnapInit
<1>2. Recovered(<< >>, NoSnapshot) = {}
  BY EmptyLog DEF Recovered, NoSnapshot
<1>3. Recoverable = {}
  BY <1>1, <1>2 DEF Recoverable
<1> QED BY <1>1, <1>3 DEF Promise!Init

(* A record that reaches the log is a Commit of DurableStore, the commit   *)
(* an Acknowledge, a raised call a Fail, a power loss and a truncation a   *)
(* DropSuffix; every other step leaves its variables alone.                *)
LEMMA StepPromised ==
  ASSUME SafeState, SafeState', MediumInv, [Next]_vars
  PROVE  Promise!Commit \/ Promise!Acknowledge \/ Promise!Fail \/ Promise!DropSuffix
<1> DEFINE store == Recovered(log, snap)
<1>1. /\ Recoverable = store /\ acked \subseteq store
  BY SafeLoads
<1>2. /\ Recoverable' = Recovered(log', snap') /\ acked' \subseteq Recovered(log', snap')
      /\ Injective(Recovered(log', snap'))
  <2>1. LogsSound' /\ SnapsLoad' /\ TypeOK' /\ AckedOnDisk'
    BY DEF SafeState, SafeInv
  <2>2. snap' \in Snaps' /\ log' \in Logs' /\ log' \in LineSeqs /\ snap' \in SnapFiles
    BY <2>1 DEF TypeOK, Logs, Snaps
  <2>3. ~ReadFails(snap')
    BY <2>1, <2>2 DEF SnapsLoad, ReadFails
  <2>4. Sound(log')
    BY <2>1, <2>2 DEF LogsSound
  <2>5. ~ReplayFails(log')
    BY <2>2, <2>4, SoundLoads
  <2>6. ~LoadFails'
    BY <2>3, <2>5 DEF LoadFails, ReadFails, ReplayFails, Intact, IgnoredAsTorn
  <2>7. Injective((snap').recs) /\ \A r \in (snap').recs : r.seq <= (snap').seq
    BY <2>1, <2>2 DEF SnapsLoad, Injective
  <2>8. Injective(Recovered(log', snap'))
    BY <2>2, <2>7, RecoveredInjective
  <2>9. acked' \subseteq Recovered(log', snap')
    BY <2>1, <2>2 DEF AckedOnDisk
  <2>10. Recoverable' = Recovered(log, snap)'
    BY <2>6 DEF Recoverable
  <2> QED BY <2>8, <2>9, <2>10, RecoveredPrimed
<1>3. ASSUME Recovered(log', snap') = store, acked \subseteq acked', raised' = raised
      PROVE  Promise!Acknowledge
  BY <1>1, <1>2, <1>3 DEF Promise!Acknowledge
<1>4. CASE AppendRecord \/ FlushBuffered
  <2>1. ~spoiled'
    BY DEF SafeState, Safe
  <2>2. mode = "up" /\ pc # "written" /\ UNCHANGED <<snap, snapDisk, acked, raised>>
    BY <1>4, <2>1, AppendAdds
  <2>3. PICK r \in Records :
          /\ r.seq = seq + 1 /\ Replayed(log') = Replayed(log) \union {r}
          /\ \A q \in Replayed(log) : q.seq \in Nat /\ q.seq <= seq
    BY <1>4, <2>1, AppendAdds
  <2>4. /\ seq \in Nat /\ snap.seq \in Nat /\ snap.seq <= seq
        /\ \A q \in snap.recs : q.seq \in Nat /\ q.seq <= seq
    BY <2>2, NumbersBelow DEF Snaps
  <2>5. Recovered(log', snap') = store \union {r}
    BY <2>2, <2>3, <2>4 DEF Recovered
  <2>6. r \notin store /\ \A q \in store : q.seq < r.seq
    BY <2>3, <2>4 DEF Recovered
  <2>7. Promise!Commit
    BY <1>1, <1>2, <2>2, <2>5, <2>6 DEF Promise!Commit
  <2> QED BY <2>7
<1>5. ASSUME Near(Recovered(log', snap'), store), UNCHANGED <<acked, raised>>
      PROVE  Promise!DropSuffix
  BY <1>1, <1>2, <1>5 DEF Near, Injective, Promise!DropSuffix
<1>6. CASE PowerLoss
  <2>1. log' \in Logs /\ snap' \in Snaps /\ UNCHANGED <<acked, raised>>
    BY <1>6, PowerLossMedium DEF PowerLoss
  <2>2. Near(Recovered(log', snap'), store)
    BY <2>1 DEF MediumInv
  <2> QED BY <1>5, <2>1, <2>2
<1>7. CASE DropLog
  <2>1. mode = "up" /\ pc # "written" /\ UNCHANGED <<acked, raised>>
    BY <1>7 DEF DropLog, At
  <2>2. Recovered(log', snap') = live
    BY <1>7, DropMedium
  <2>3. Near(live, store)
    BY <2>1, NumbersBelow DEF Near
  <2> QED BY <1>5, <2>1, <2>2, <2>3
<1>8. CASE AppendFails \/ SyncFails
  <2>1. /\ Quiet /\ raised' = raised \union {issued} /\ acked' = acked
        /\ pc \in {"append", "written"}
    BY <1>8 DEF Quiet, AppendFails, SyncFails, MutationRaises, At
  <2>2. Recovered(log', snap') = store
    BY <2>1, QuietSteps, QuietMedium
  <2>3. issued \notin raised /\ \A r \in acked : r.mut # issued
    BY <2>1 DEF SafeState, Control
  <2>4. Promise!Fail
    BY <1>1, <1>2, <2>1, <2>2, <2>3 DEF Promise!Fail
  <2> QED BY <2>4
<1>9. CASE Quiet /\ ~AppendFails /\ ~SyncFails
  <2>1. acked \subseteq acked' /\ raised' = raised
    BY <1>9 DEF Quiet, BeginMutation, CommitMutation, CheckpointFails, BeginCheckpoint,
       SyncSnapshot, FinishCheckpoint, Open, OpenRefused, Close, Kill, vars, engineVars
  <2>2. Recovered(log', snap') = store
    BY <1>9, QuietSteps, QuietMedium
  <2> QED BY <1>3, <2>1, <2>2
<1>10. CASE SyncDirectory \/ InstallSnapshot
  <2>1. acked' = acked /\ raised' = raised
    BY <1>10 DEF SyncDirectory, InstallSnapshot
  <2>2. Recovered(log', snap') = store
    BY <1>10, DirectoryMedium, InstallMedium
  <2> QED BY <1>3, <2>1, <2>2
<1>11. CASE Decay
  BY <1>11 DEF Decay, SafeState, Safe
<1> QED
  BY <1>4, <1>6, <1>7, <1>8, <1>9, <1>10, <1>11 DEF Next, Quiet

(* The promise of the engine: where the code syncs what power can lose, a  *)
(* client cannot tell the engine, with its log, its checkpoints, its       *)
(* crashes and the errors of its writes, from a store that loses nothing   *)
(* but the latest mutations it did not acknowledge and may show one whose  *)
(* call failed, as long as no stored record is spoiled.                    *)
THEOREM EngineIsDurable == ASSUME Synced PROVE Spec => ImplementsDurableStore
<1>1. Init => RefinementInv /\ Promise!Init
  BY InitIInv, InitRefusal, InitMedium, InitPromised DEF RefinementInv
<1>2. RefinementInv /\ [Next]_vars => RefinementInv'
  BY NextRefinement
<1>3. RefinementInv /\ RefinementInv' /\ [Next]_vars => [Promise!Next]_Promise!vars
  <2> SUFFICES ASSUME RefinementInv, RefinementInv', [Next]_vars
               PROVE  Promise!Next
    OBVIOUS
  <2>1. CASE spoiled'
    BY <2>1 DEF Promise!Next, Promise!Damaged
  <2>2. CASE ~spoiled'
    <3>1. ~spoiled
      BY <2>2, SpoiledKept
    <3>2. SafeState /\ MediumInv
      BY <3>1 DEF RefinementInv, IInv, RefusalInv, Safe, Synced, SafeState
    <3>3. SafeState'
      BY <2>2 DEF RefinementInv, IInv, RefusalInv, Safe, Synced, SafeState
    <3> QED BY <2>2, <3>1, <3>2, <3>3, StepPromised DEF Promise!Next, Promise!Promised
  <2> QED BY <2>1, <2>2
<1> QED BY <1>1, <1>2, <1>3, PTL DEF Spec, ImplementsDurableStore, Promise!Spec
=============================================================================
