-------------------------- MODULE CredentialProofs --------------------------
(***************************************************************************)
(* Proofs about CredentialStore, for every number of processes, users,     *)
(* tokens, writes and ticks of the clock.                                  *)
(*                                                                         *)
(* The argument: while a clean change is being written nobody else writes, *)
(* so the temporary file is its own and what it writes is what the file    *)
(* shows taken further (Writing); once it is moved to the path the file    *)
(* has it (Written), and every later change either is clean too, and takes *)
(* the file further still, or ends what is promised (UncleanForgets).      *)
(***************************************************************************)
EXTENDS CredentialStore, TLAPS

Steps == {"down", "idle", "open", "write", "replace", "stat", "read", "decide"}

Data  == [Entries -> Statuses]
Files == [content : Data \union {Nothing}, time : Nat]
Calls == [entry : Entries \union {"none"}, status : Statuses, time : Nat]

(* A process at a step that reads the file finds one.                      *)
Started(p) ==
  /\ pc[p] \in {"idle", "stat", "read", "decide"} => path # 0
  /\ pc[p] \in {"write", "replace"} => temp # 0 \/ path # 0
  /\ pc[p] = "write" => fd[p] # 0

FilesInv ==
  /\ inodes \in Seq(Files) /\ \A i \in 1 .. Len(inodes) : inodes[i].time \in 1 .. clock
  /\ path \in 0 .. Len(inodes) /\ temp \in 0 .. Len(inodes) /\ (path = temp => path = 0)
  /\ clock \in Nat \ {0}

ProcessInv(p) ==
  /\ seen[p] <= clock /\ call[p].time <= clock /\ fd[p] <= Len(inodes)
  /\ Started(p)

TypeInv ==
  /\ FilesInv
  /\ pc \in [Processes -> Steps] /\ data \in [Processes -> Data]
  /\ seen \in [Processes -> Nat] /\ fd \in [Processes -> Nat]
  /\ call \in [Processes -> Calls]
  /\ \A p \in Processes : ProcessInv(p)

HistoryInv ==
  /\ clean \in SUBSET Processes /\ misled \in SUBSET Processes
  /\ known \in [Processes -> SUBSET Entries] /\ acked \in Data

----------------------------------------------------------------------------
(* What holds of clean changes.                                            *)

Reaches(d, b) == \A e \in Entries : Rank(d[e]) >= Rank(b[e])

(* A change takes its entry further: none, active, withdrawn.              *)
Further(p, e, s) == s = "active" => data[p][e] = "none"

(* A clean change that is being written: nobody else writes, the data are  *)
(* those of the file and the change.                                       *)
Writing(p) ==
  /\ Writers = {p}
  /\ path # 0 => inodes[path].content \in Data /\ Reaches(data[p], inodes[path].content)
  /\ call[p] # NoCall => call[p].entry \in Entries /\ data[p][call[p].entry] = call[p].status
  /\ pc[p] = "write" => fd[p] = temp
  /\ pc[p] = "replace" => temp # 0 /\ inodes[temp].content = data[p]

(* One that has been moved to the path: the file has it.                   *)
Written(p) ==
  /\ path # 0 /\ inodes[path].content \in Data
  /\ call[p] # NoCall =>
       /\ call[p].entry \in Entries
       /\ Rank(inodes[path].content[call[p].entry]) >= Rank(call[p].status)

CleanInv ==
  \A p \in clean : (p \in Writers /\ Writing(p)) \/ (pc[p] = "stat" /\ Written(p))

Kept ==
  /\ path = 0 => acked = NoEntries
  /\ path # 0 => \/ acked = NoEntries
                 \/ inodes[path].content \in Data /\ Reaches(inodes[path].content, acked)

(* What a call knew to be withdrawn stays so in the file it reads, and is  *)
(* so in what it decides from.                                             *)
Remembered ==
  \A p \in Processes :
    /\ pc[p] = "read" => \A e \in known[p] : inodes[path].content[e] = "withdrawn"
    /\ pc[p] = "decide" /\ p \notin misled => \A e \in known[p] : data[p][e] = "withdrawn"

IInv == CleanInv /\ Kept /\ Remembered

----------------------------------------------------------------------------
(* The types are kept by every action.                                     *)

LEMMA NothingApart == Nothing \notin Data
BY EntriesAssumption DEF Nothing, Data, Entries

(* Steps of one process that leave the files alone.                        *)
LEMMA FilesKept ==
  ASSUME FilesInv, UNCHANGED fsVars
  PROVE  FilesInv'
BY DEF FilesInv, fsVars

LEMMA LoadTypes ==
  ASSUME TypeInv, NEW p \in Processes, Load(p)
  PROVE  TypeInv'
<1>1. path # 0 => inodes[path].content \in Data
  <2> SUFFICES ASSUME path # 0 PROVE inodes[path].content \in Data
    OBVIOUS
  <2>1. inodes[path] \in Files /\ inodes[path].content # Nothing
    BY DEF Load, TypeInv, FilesInv
  <2> QED
    BY <2>1 DEF Files
<1>2. NoEntries \in Data
  BY DEF NoEntries, Data, Statuses
<1>3. /\ data' \in [Processes -> Data] /\ pc' \in [Processes -> Steps]
      /\ UNCHANGED <<fsVars, seen, fd, call>>
      /\ \A q \in Processes : q # p => pc'[q] = pc[q]
      /\ pc'[p] \in {"open", "stat"} /\ (pc'[p] = "stat" => path # 0)
  BY <1>1, <1>2 DEF Load, Goto, TypeInv, Steps
<1>4. ASSUME NEW q \in Processes PROVE ProcessInv(q)'
  BY <1>3 DEF TypeInv, ProcessInv, Started, fsVars
<1> QED
  BY <1>3, <1>4, FilesKept DEF TypeInv

LEMMA ChangeTypes ==
  ASSUME TypeInv, NEW p \in Processes, NEW e \in Entries, NEW s \in {"active", "withdrawn"},
         Change(p, e, s)
  PROVE  TypeInv'
<1>1. /\ data' \in [Processes -> Data] /\ pc' \in [Processes -> Steps]
      /\ call' \in [Processes -> Calls]
      /\ UNCHANGED <<fsVars, seen, fd>>
  BY DEF Change, Goto, TypeInv, Steps, Data, Statuses, Calls
<1>2. ASSUME NEW q \in Processes PROVE ProcessInv(q)'
  <2>1. call'[q].time <= clock
    BY DEF Change, TypeInv, ProcessInv, FilesInv, Calls
  <2>2. q # p => pc'[q] = pc[q]
    BY DEF Change, Goto, TypeInv
  <2>3. pc'[p] = "open"
    BY DEF Change, Goto, TypeInv
  <2> QED
    BY <1>1, <2>1, <2>2, <2>3 DEF TypeInv, ProcessInv, Started, fsVars
<1> QED
  BY <1>1, <1>2, FilesKept DEF TypeInv

LEMMA OpenTypes ==
  ASSUME TypeInv, NEW p \in Processes, OpenTemporary(p)
  PROVE  TypeInv'
<1>1. CASE temp = 0
  <2> DEFINE f == [content |-> Nothing, time |-> clock]
  <2>1. /\ f \in Files /\ f.time = clock /\ inodes \in Seq(Files) /\ clock \in Nat \ {0}
    BY DEF Files, TypeInv, FilesInv
  <2>2. inodes' = Append(inodes, f) /\ temp' = Len(inodes')
    BY <1>1 DEF OpenTemporary
  <2>3. /\ inodes' \in Seq(Files) /\ Len(inodes') = Len(inodes) + 1
        /\ inodes'[Len(inodes) + 1] = f
        /\ \A i \in 1 .. Len(inodes) : inodes'[i] = inodes[i]
    BY <2>1, <2>2
  <2>4. Len(inodes) \in Nat
    BY <2>1
  <2>5. path' = path /\ clock' = clock
    BY DEF OpenTemporary
  <2> HIDE DEF f
  <2>6. FilesInv'
    BY <2>1, <2>2, <2>3, <2>4, <2>5 DEF TypeInv, FilesInv
  <2>7. fd' \in [Processes -> Nat] /\ pc' \in [Processes -> Steps]
        /\ fd' = [fd EXCEPT ![p] = Len(inodes) + 1] /\ pc' = [pc EXCEPT ![p] = "write"]
        /\ UNCHANGED <<data, seen, call>>
    BY <2>2, <2>3, <2>4 DEF TypeInv, OpenTemporary, Goto, Steps
  <2>8. ASSUME NEW q \in Processes PROVE ProcessInv(q)'
    <3>1. fd'[q] = IF q = p THEN Len(inodes) + 1 ELSE fd[q]
      BY <2>7 DEF TypeInv
    <3>2. pc'[q] = IF q = p THEN "write" ELSE pc[q]
      BY <2>7 DEF TypeInv
    <3>3. ProcessInv(q) /\ fd[q] \in Nat
      BY DEF TypeInv
    <3> QED
      BY <2>2, <2>3, <2>4, <2>5, <2>7, <3>1, <3>2, <3>3 DEF ProcessInv, Started
  <2> QED
    BY <2>6, <2>7, <2>8 DEF TypeInv
<1>2. CASE temp # 0
  <2>1. inodes' = [inodes EXCEPT ![temp] = [content |-> Nothing, time |-> clock]] /\ temp' = temp
    BY <1>2 DEF OpenTemporary
  <2>2. path' = path /\ clock' = clock /\ temp \in 1 .. Len(inodes)
    BY <1>2 DEF OpenTemporary, TypeInv, FilesInv
  <2>3. /\ inodes' \in Seq(Files) /\ Len(inodes') = Len(inodes)
        /\ \A i \in 1 .. Len(inodes) : inodes'[i].time \in {inodes[i].time, clock}
    <3> DEFINE f == [content |-> Nothing, time |-> clock]
    <3>1. inodes \in Seq(Files)
      BY DEF TypeInv, FilesInv
    <3>2. f \in Files /\ f.time = clock
      BY DEF Files, TypeInv, FilesInv
    <3>3. inodes' = [inodes EXCEPT ![temp] = f]
      BY <2>1
    <3> HIDE DEF f
    <3> QED
      BY <2>2, <3>1, <3>2, <3>3
  <2>4. FilesInv'
    BY <2>1, <2>2, <2>3 DEF TypeInv, FilesInv
  <2>5. fd' \in [Processes -> Nat] /\ pc' \in [Processes -> Steps]
        /\ fd' = [fd EXCEPT ![p] = temp] /\ pc' = [pc EXCEPT ![p] = "write"]
        /\ UNCHANGED <<data, seen, call>>
    BY <2>1, <2>2 DEF TypeInv, OpenTemporary, Goto, Steps
  <2>6. ASSUME NEW q \in Processes PROVE ProcessInv(q)'
    <3>1. fd'[q] = IF q = p THEN temp ELSE fd[q]
      BY <2>5 DEF TypeInv
    <3>2. pc'[q] = IF q = p THEN "write" ELSE pc[q]
      BY <2>5 DEF TypeInv
    <3>3. ProcessInv(q) /\ fd[q] \in Nat
      BY DEF TypeInv
    <3> QED
      BY <1>2, <2>1, <2>2, <2>3, <2>5, <3>1, <3>2, <3>3 DEF ProcessInv, Started
  <2> QED
    BY <2>4, <2>5, <2>6 DEF TypeInv
<1> QED
  BY <1>1, <1>2

LEMMA WriteTypes ==
  ASSUME TypeInv, NEW p \in Processes, WriteTemporary(p)
  PROVE  TypeInv'
<1> DEFINE f == [content |-> data[p], time |-> clock']
<1>1. /\ fd[p] \in 1 .. Len(inodes) /\ clock \in Nat \ {0} /\ inodes \in Seq(Files)
      /\ clock' \in {clock, clock + 1} /\ f \in Files
  BY DEF TypeInv, FilesInv, ProcessInv, Started, WriteTemporary, Files
<1>2. /\ inodes' = [inodes EXCEPT ![fd[p]] = f]
      /\ path' = path /\ temp' = temp
  BY DEF WriteTemporary
<1>3. f.time = clock'
  OBVIOUS
<1> HIDE DEF f
<1>4. /\ inodes' \in Seq(Files) /\ Len(inodes') = Len(inodes)
      /\ \A i \in 1 .. Len(inodes) : inodes'[i] = IF i = fd[p] THEN f ELSE inodes[i]
  BY <1>1, <1>2
<1>5. FilesInv'
  BY <1>1, <1>2, <1>3, <1>4 DEF TypeInv, FilesInv
<1>6. /\ fd' = [fd EXCEPT ![p] = 0] /\ pc' = [pc EXCEPT ![p] = "replace"]
      /\ fd' \in [Processes -> Nat] /\ pc' \in [Processes -> Steps]
      /\ UNCHANGED <<data, seen, call>> /\ pc[p] = "write"
  BY DEF WriteTemporary, Goto, TypeInv, Steps
<1>7. ASSUME NEW q \in Processes PROVE ProcessInv(q)'
  <2>1. fd'[q] = IF q = p THEN 0 ELSE fd[q]
    BY <1>6 DEF TypeInv
  <2>2. pc'[q] = IF q = p THEN "replace" ELSE pc[q]
    BY <1>6 DEF TypeInv
  <2>3. ProcessInv(q) /\ ProcessInv(p) /\ seen[q] \in Nat /\ call[q].time \in Nat
    BY DEF TypeInv, Calls
  <2> QED
    BY <1>1, <1>2, <1>4, <1>6, <2>1, <2>2, <2>3 DEF ProcessInv, Started
<1> QED
  BY <1>5, <1>6, <1>7 DEF TypeInv

(* The rest changes no file.                                               *)
LEMMA ReplaceTypes ==
  ASSUME TypeInv, NEW p \in Processes, Replace(p)
  PROVE  TypeInv'
<1>1. /\ pc' \in [Processes -> Steps] /\ call' \in [Processes -> Calls]
      /\ UNCHANGED <<inodes, clock, data, seen, fd>>
      /\ \A q \in Processes : call'[q] = call[q] \/ call'[q].time = 0
  <2>1. NoCall \in Calls /\ NoCall.time = 0
    BY DEF NoCall, Calls, Statuses
  <2> QED
    BY <2>1 DEF Replace, Goto, TypeInv, Steps
<1>2. CASE temp = 0
  <2>1. path' = path /\ temp' = temp /\ pc' = [pc EXCEPT ![p] = "idle"] /\ path # 0
    BY <1>2 DEF Replace, Goto, TypeInv, ProcessInv, Started
  <2>2. FilesInv'
    BY <1>1, <2>1 DEF TypeInv, FilesInv
  <2>3. ASSUME NEW q \in Processes PROVE ProcessInv(q)'
    <3>1. pc'[q] = IF q = p THEN "idle" ELSE pc[q]
      BY <2>1 DEF TypeInv
    <3>2. ProcessInv(q) /\ clock \in Nat
      BY DEF TypeInv, FilesInv
    <3> QED
      BY <1>1, <2>1, <3>1, <3>2 DEF ProcessInv, Started
  <2> QED
    BY <1>1, <2>2, <2>3 DEF TypeInv
<1>3. CASE temp # 0
  <2>1. path' = temp /\ temp' = 0 /\ pc' = [pc EXCEPT ![p] = "stat"]
    BY <1>3 DEF Replace, Goto
  <2>2. FilesInv'
    BY <1>1, <1>3, <2>1 DEF TypeInv, FilesInv
  <2>3. ASSUME NEW q \in Processes PROVE ProcessInv(q)'
    <3>1. pc'[q] = IF q = p THEN "stat" ELSE pc[q]
      BY <2>1 DEF TypeInv
    <3>2. ProcessInv(q) /\ clock \in Nat
      BY DEF TypeInv, FilesInv
    <3> QED
      BY <1>1, <1>3, <2>1, <3>1, <3>2 DEF ProcessInv, Started
  <2> QED
    BY <1>1, <2>2, <2>3 DEF TypeInv
<1> QED
  BY <1>2, <1>3

(* Reading the time or the file, deciding, ending.                         *)
LEMMA ReaderTypes ==
  ASSUME TypeInv, NEW p \in Processes,
         \/ TakeTime(p) \/ (\E t \in Tokens : CheckTime(p, t)) \/ ReadAgain(p)
         \/ (\E accepted \in BOOLEAN : Decide(p, accepted)) \/ Kill(p)
  PROVE  TypeInv'
<1>1. UNCHANGED fsVars
  BY DEF TakeTime, CheckTime, Authenticating, ReadAgain, Decide, Kill, fsVars
<1>2. pc[p] # "down" /\ (pc[p] \in {"idle", "stat", "read", "decide"} => path # 0)
  BY DEF TakeTime, CheckTime, Authenticating, ReadAgain, Decide, Kill, TypeInv, ProcessInv, Started
<1>3. /\ path # 0 => inodes[path] \in Files /\ inodes[path].time \in 1 .. clock
      /\ clock \in Nat
  BY DEF TypeInv, FilesInv
<1>4. NoCall \in Calls /\ NoCall.time = 0 /\ NoEntries \in Data
  BY DEF NoCall, Calls, Statuses, NoEntries, Data
<1>5. CASE TakeTime(p)
  <2>1. path # 0 /\ pc[p] = "stat"
    BY <1>2, <1>5 DEF TakeTime
  <2>2. /\ seen' = [seen EXCEPT ![p] = inodes[path].time] /\ call' = [call EXCEPT ![p] = NoCall]
        /\ pc' = [pc EXCEPT ![p] = "idle"] /\ UNCHANGED <<data, fd>>
    BY <1>5 DEF TakeTime, Goto
  <2>4. /\ seen' \in [Processes -> Nat] /\ call' \in [Processes -> Calls]
        /\ pc' \in [Processes -> Steps]
    BY <1>3, <1>4, <2>1, <2>2 DEF TypeInv, Steps
  <2>5. ASSUME NEW q \in Processes PROVE ProcessInv(q)'
    <3>1. /\ pc'[q] = (IF q = p THEN "idle" ELSE pc[q])
          /\ seen'[q] = (IF q = p THEN inodes[path].time ELSE seen[q])
          /\ call'[q] = (IF q = p THEN NoCall ELSE call[q])
      BY <2>2 DEF TypeInv
    <3>2. ProcessInv(q)
      BY DEF TypeInv
    <3> QED
      BY <1>1, <1>3, <1>4, <2>1, <2>2, <3>1, <3>2 DEF ProcessInv, Started, fsVars
  <2> QED
    BY <1>1, <2>2, <2>4, <2>5, FilesKept DEF TypeInv
<1>6. CASE \E t \in Tokens : CheckTime(p, t)
  <2>1. PICK t \in Tokens : CheckTime(p, t)
    BY <1>6
  <2> DEFINE c == [entry |-> t, status |-> "none", time |-> inodes[path].time]
  <2>2. path # 0 /\ pc[p] = "idle"
    BY <1>2, <2>1 DEF CheckTime, Authenticating
  <2>3. c \in Calls /\ c.time = inodes[path].time
    BY <1>3, <2>2 DEF Calls, Statuses, Files, Entries
  <2>4. PICK l \in {"decide", "read"} : pc' = [pc EXCEPT ![p] = l]
    BY <2>1 DEF CheckTime, Goto
  <2>5. /\ call' = [call EXCEPT ![p] = c] /\ UNCHANGED <<data, seen, fd>>
    BY <2>1 DEF CheckTime, Authenticating, TypeInv
  <2> HIDE DEF c
  <2>6. pc' \in [Processes -> Steps] /\ call' \in [Processes -> Calls]
    BY <2>3, <2>4, <2>5 DEF TypeInv, Steps
  <2>7. ASSUME NEW q \in Processes PROVE ProcessInv(q)'
    <3>1. /\ pc'[q] = (IF q = p THEN l ELSE pc[q])
          /\ call'[q] = (IF q = p THEN c ELSE call[q])
      BY <2>4, <2>5 DEF TypeInv
    <3>2. ProcessInv(q)
      BY DEF TypeInv
    <3> QED
      BY <1>1, <1>3, <2>2, <2>3, <2>5, <3>1, <3>2 DEF ProcessInv, Started, fsVars
  <2> QED
    BY <1>1, <2>5, <2>6, <2>7, FilesKept DEF TypeInv
<1>7. CASE ReadAgain(p)
  <2>1. path # 0 /\ pc[p] = "read"
    BY <1>2, <1>7 DEF ReadAgain
  <2>2. /\ fd' = fd
        /\ \/ data' = data \/ data' = [data EXCEPT ![p] = inodes[path].content]
        /\ inodes[path].content = Nothing => data' = data
        /\ \/ seen' = seen \/ seen' = [seen EXCEPT ![p] = call[p].time]
        /\ \/ call' = call \/ call' = [call EXCEPT ![p] = NoCall]
        /\ \E l \in {"idle", "decide"} : pc' = [pc EXCEPT ![p] = l]
    BY <1>7 DEF ReadAgain, Goto
  <2>3. inodes[path].content \in Data \union {Nothing}
    BY <1>3, <2>1 DEF Files
  <2>4. data' \in [Processes -> Data]
    BY <2>2, <2>3 DEF TypeInv
  <2>5. call[p] \in Calls /\ call[p].time \in Nat /\ call[p].time <= clock
    BY DEF TypeInv, Calls, ProcessInv
  <2>6. /\ seen' \in [Processes -> Nat] /\ call' \in [Processes -> Calls]
        /\ pc' \in [Processes -> Steps]
    BY <1>4, <2>2, <2>5 DEF TypeInv, Steps
  <2>7. ASSUME NEW q \in Processes PROVE ProcessInv(q)'
    <3>1. /\ IF q = p THEN pc'[q] \in {"idle", "decide"} ELSE pc'[q] = pc[q]
          /\ seen'[q] \in {seen[q], call[q].time}
          /\ call'[q] \in {call[q], NoCall}
      BY <2>2 DEF TypeInv
    <3>2. ProcessInv(q)
      BY DEF TypeInv
    <3> QED
      BY <1>1, <1>3, <1>4, <2>1, <2>2, <3>1, <3>2 DEF ProcessInv, Started, fsVars
  <2> QED
    BY <1>1, <2>2, <2>4, <2>6, <2>7, FilesKept DEF TypeInv
<1>8. CASE (\E accepted \in BOOLEAN : Decide(p, accepted)) \/ Kill(p)
  <2>1. /\ data' = data \/ data' = [data EXCEPT ![p] = NoEntries]
        /\ seen' = seen \/ seen' = [seen EXCEPT ![p] = 0]
        /\ fd' = fd \/ fd' = [fd EXCEPT ![p] = 0]
        /\ call' = [call EXCEPT ![p] = NoCall]
        /\ \/ pc' = [pc EXCEPT ![p] = "down"]
           \/ pc' = [pc EXCEPT ![p] = "idle"] /\ path # 0
    BY <1>2, <1>8 DEF Decide, Kill, Goto
  <2>2. /\ data' \in [Processes -> Data] /\ seen' \in [Processes -> Nat]
        /\ fd' \in [Processes -> Nat] /\ call' \in [Processes -> Calls]
        /\ pc' \in [Processes -> Steps]
    BY <1>4, <2>1 DEF TypeInv, Steps
  <2>3. ASSUME NEW q \in Processes PROVE ProcessInv(q)'
    <3>1. /\ IF q = p THEN pc'[q] = "down" \/ (pc'[q] = "idle" /\ path # 0) ELSE pc'[q] = pc[q]
          /\ seen'[q] \in {seen[q], 0}
          /\ call'[q] \in {call[q], NoCall}
      BY <2>1 DEF TypeInv
    <3>2. (q # p => fd'[q] = fd[q]) /\ fd'[q] \in {fd[q], 0}
      BY <2>1 DEF TypeInv
    <3>3. ProcessInv(q) /\ Len(inodes) \in Nat
      BY DEF TypeInv, FilesInv
    <3> QED
      BY <1>1, <1>3, <1>4, <3>1, <3>2, <3>3 DEF ProcessInv, Started, fsVars
  <2> QED
    BY <1>1, <2>1, <2>2, <2>3, FilesKept DEF TypeInv
<1> QED
  BY <1>5, <1>6, <1>7, <1>8

LEMMA HistoryTypes ==
  ASSUME TypeInv, HistoryInv, NEW p \in Processes,
         \/ Load(p) \/ (\E e \in Entries, s \in Statuses : Change(p, e, s))
         \/ OpenTemporary(p) \/ WriteTemporary(p) \/ Replace(p) \/ TakeTime(p)
         \/ (\E t \in Tokens : CheckTime(p, t)) \/ ReadAgain(p)
         \/ (\E accepted \in BOOLEAN : Decide(p, accepted)) \/ Kill(p)
  PROVE  HistoryInv'
<1>1. NoEntries \in Data
  BY DEF NoEntries, Data, Statuses
<1>2. FileChangedBy(p) =>
        /\ clean' \in SUBSET Processes /\ acked' \in Data
        /\ known' \in [Processes -> SUBSET Entries]
  BY <1>1 DEF FileChangedBy, HistoryInv
<1>3. StartsWriting(p) => clean' \in SUBSET Processes
  BY DEF StartsWriting, HistoryInv
<1>4. CASE \/ Load(p) \/ (\E e \in Entries, s \in Statuses : Change(p, e, s))
           \/ OpenTemporary(p) \/ WriteTemporary(p) \/ Replace(p)
  BY <1>2, <1>3, <1>4 DEF Load, Change, OpenTemporary, WriteTemporary, Replace, historyVars,
     HistoryInv
<1>5. CASE TakeTime(p)
  BY <1>5 DEF TakeTime, HistoryInv, TypeInv, Data, Calls
<1>6. CASE \E t \in Tokens : CheckTime(p, t)
  BY <1>6 DEF CheckTime, Authenticating, HistoryInv
<1>7. CASE ReadAgain(p) \/ (\E accepted \in BOOLEAN : Decide(p, accepted)) \/ Kill(p)
  BY <1>7 DEF ReadAgain, Decide, Kill, HistoryInv, historyVars
<1> QED
  BY <1>4, <1>5, <1>6, <1>7

LEMMA Kinds ==
  ASSUME Next
  PROVE  \E p \in Processes :
           \/ Load(p) \/ (\E e \in Entries, s \in {"active", "withdrawn"} :
                            Change(p, e, s) /\ Further(p, e, s))
           \/ OpenTemporary(p) \/ WriteTemporary(p) \/ Replace(p) \/ TakeTime(p)
           \/ (\E t \in Tokens : CheckTime(p, t)) \/ ReadAgain(p)
           \/ (\E accepted \in BOOLEAN : Decide(p, accepted)) \/ Kill(p)
BY DEF Next, CreateUser, DisableUser, IssueToken, RevokeToken, NewToken, Further, Entries

LEMMA NextTypes == TypeInv /\ HistoryInv /\ [Next]_vars => TypeInv' /\ HistoryInv'
<1> SUFFICES ASSUME TypeInv, HistoryInv, [Next]_vars PROVE TypeInv' /\ HistoryInv'
  OBVIOUS
<1>1. CASE UNCHANGED vars
  BY <1>1 DEF vars, fsVars, processVars, historyVars, TypeInv, FilesInv, ProcessInv, Started,
     HistoryInv
<1>2. CASE Next
  <2>1. {"active", "withdrawn"} \subseteq Statuses
    BY DEF Statuses
  <2>2. TypeInv'
    BY <1>2, Kinds, LoadTypes, ChangeTypes, OpenTypes, WriteTypes, ReplaceTypes, ReaderTypes
  <2>3. HistoryInv'
    BY <1>2, <2>1, Kinds, HistoryTypes
  <2> QED
    BY <2>2, <2>3
<1> QED
  BY <1>1, <1>2

LEMMA InitTypes == Init => TypeInv /\ HistoryInv
<1> SUFFICES ASSUME Init PROVE TypeInv /\ HistoryInv
  OBVIOUS
<1>1. NoCall \in Calls /\ NoCall.time = 0 /\ NoEntries \in Data
  BY DEF NoCall, Calls, Statuses, NoEntries, Data
<1>2. FilesInv
  <2>1. inodes \in Seq(Files) /\ Len(inodes) = 0 /\ path = 0 /\ temp = 0 /\ clock = 1
    BY DEF Init
  <2> QED
    BY <2>1 DEF FilesInv
<1>3. ASSUME NEW p \in Processes PROVE ProcessInv(p)
  <2>1. /\ seen[p] = 0 /\ call[p] = NoCall /\ fd[p] = 0 /\ pc[p] = "down" /\ clock = 1
        /\ Len(inodes) = 0
    BY DEF Init
  <2> QED
    BY ONLY <1>1, <2>1 DEF ProcessInv, Started
<1> QED
  BY <1>1, <1>2, <1>3 DEF Init, TypeInv, HistoryInv, Steps

LEMMA TypesHold == Spec => [](TypeInv /\ HistoryInv)
BY InitTypes, NextTypes, PTL DEF Spec

(* Every variable keeps its type and the two paths never name one file,    *)
(* whatever the processes do to each other.                                *)
THEOREM TypeCorrect == Spec => []TypeOK
<1>1. TypeInv /\ HistoryInv => TypeOK
  <2> SUFFICES ASSUME TypeInv, HistoryInv PROVE TypeOK
    OBVIOUS
  <2>1. \A i \in 1 .. Len(inodes) :
          /\ inodes[i].content \in [Entries -> Statuses] \union {Nothing}
          /\ inodes[i].time \in 1 .. clock
    <3> SUFFICES ASSUME NEW i \in 1 .. Len(inodes)
                 PROVE  /\ inodes[i].content \in [Entries -> Statuses] \union {Nothing}
                        /\ inodes[i].time \in 1 .. clock
      OBVIOUS
    <3>1. inodes[i] \in Files /\ inodes[i].time \in 1 .. clock
      BY DEF TypeInv, FilesInv
    <3> QED
      BY <3>1 DEF Files, Data
  <2>2. /\ path \in 0 .. Len(inodes) /\ temp \in 0 .. Len(inodes) /\ (path = temp => path = 0)
        /\ clock \in Nat
    BY DEF TypeInv, FilesInv
  <2>3. ASSUME NEW p \in Processes
        PROVE  /\ pc[p] \in Steps /\ data[p] \in Data
               /\ seen[p] \in 0 .. clock /\ fd[p] \in 0 .. Len(inodes)
               /\ call[p].status \in Statuses /\ known[p] \subseteq Entries
    <3>1. seen[p] \in 0 .. clock /\ fd[p] \in 0 .. Len(inodes)
      <4>1. Len(inodes) \in Nat /\ seen[p] \in Nat /\ fd[p] \in Nat
        BY DEF TypeInv, FilesInv
      <4> QED
        BY <2>2, <4>1 DEF TypeInv, ProcessInv
    <3> QED
      BY <3>1 DEF TypeInv, Calls, HistoryInv
  <2> QED
    BY <2>1, <2>2, <2>3 DEF TypeOK, TypeInv, HistoryInv, Steps, Data
<1> QED
  BY <1>1, TypesHold, PTL

----------------------------------------------------------------------------
(* Clean changes.                                                          *)

LEMMA Ranks ==
  /\ \A s \in Statuses : Rank(s) \in 0 .. 2
  /\ Rank("none") = 0 /\ Rank("withdrawn") = 2 /\ Rank("active") = 1
  /\ \A s \in Statuses : Rank(s) >= 2 => s = "withdrawn"
BY DEF Statuses, Rank

LEMMA ReachesItself ==
  ASSUME NEW d \in Data
  PROVE  Reaches(d, d) /\ Reaches(d, NoEntries)
BY Ranks DEF Reaches, Data, NoEntries

(* Data that reach others hold what was withdrawn in them.                 *)
LEMMA HoldsWithdrawn ==
  ASSUME NEW d \in Data, NEW b \in Data, Reaches(d, b),
         NEW e \in Entries, b[e] = "withdrawn"
  PROVE  d[e] = "withdrawn"
BY Ranks DEF Reaches, Data

LEMMA ReachesFurther ==
  ASSUME NEW d \in Data, NEW b \in Data, NEW c \in Data, Reaches(d, b), Reaches(b, c)
  PROVE  Reaches(d, c)
BY Ranks DEF Reaches, Data

(* Whoever is at the path can change what the file shows only by writing   *)
(* to it or by moving another file there.                                  *)
LEMMA PathUntouched ==
  ASSUME TypeInv, NEW p \in Processes,
         OpenTemporary(p) \/ (WriteTemporary(p) /\ fd[p] # path)
  PROVE  path' = path /\ (path # 0 => inodes'[path] = inodes[path])
<1>1. path' = path /\ path \in 0 .. Len(inodes) /\ inodes \in Seq(Files)
  BY DEF OpenTemporary, WriteTemporary, TypeInv, FilesInv
<1>2. CASE OpenTemporary(p) /\ temp = 0
  <2>1. inodes' = Append(inodes, [content |-> Nothing, time |-> clock])
    BY <1>2 DEF OpenTemporary
  <2> QED
    BY <1>1, <2>1
<1>3. CASE OpenTemporary(p) /\ temp # 0
  <2>1. /\ inodes' = [inodes EXCEPT ![temp] = [content |-> Nothing, time |-> clock]]
        /\ path # temp
    BY <1>3 DEF OpenTemporary, TypeInv, FilesInv
  <2> QED
    BY <1>1, <2>1
<1>4. CASE WriteTemporary(p) /\ fd[p] # path
  <2>1. inodes' = [inodes EXCEPT ![fd[p]] = [content |-> data[p], time |-> clock']]
    BY <1>4 DEF WriteTemporary
  <2> QED
    BY <1>1, <1>4, <2>1
<1> QED
  BY <1>2, <1>3, <1>4

(* A process that starts to write takes the clean change of another away,  *)
(* and is clean itself only with the data of the file.                     *)
LEMMA StartKeeps ==
  ASSUME TypeInv, HistoryInv, IInv, NEW p \in Processes, pc[p] \in {"down", "idle"},
         UNCHANGED <<fsVars, seen, fd, acked, known, misled>>, StartsWriting(p),
         pc' = [pc EXCEPT ![p] = "open"],
         \A q \in Processes : q # p => data'[q] = data[q] /\ call'[q] = call[q],
         UpToDate(p) /\ path # 0 => data'[p] \in Data /\ Reaches(data'[p], data[p]),
         path = 0 \/ pc[p] = "idle",
         call'[p] # NoCall => call'[p].entry \in Entries
                              /\ data'[p][call'[p].entry] = call'[p].status
  PROVE  IInv'
<1>1. /\ \A q \in Processes : q # p => pc'[q] = pc[q]
      /\ pc'[p] = "open" /\ Writers' = Writers \union {p} /\ p \notin Writers
  BY DEF TypeInv, Writers
<1>2. p \notin clean
  BY DEF IInv, CleanInv, Writers
<1>3. CleanInv'
  <2> SUFFICES ASSUME NEW q \in clean'
               PROVE  (q \in Writers' /\ Writing(q)') \/ (pc'[q] = "stat" /\ Written(q)')
    BY DEF CleanInv
  <2>1. CASE q = p
    <3>1. Writers \ {p} = {} /\ UpToDate(p)
      BY <1>2, <2>1 DEF StartsWriting
    <3>2. Writers' = {p}
      BY <1>1, <3>1
    <3>3. path # 0 => inodes[path].content \in Data /\ Reaches(data'[p], inodes[path].content)
      BY <3>1 DEF UpToDate, TypeInv
    <3> QED
      BY <1>1, <2>1, <3>2, <3>3 DEF Writing, fsVars
  <2>2. CASE q # p
    <3>1. q \in clean
      BY <2>2 DEF StartsWriting
    <3>2. q \notin Writers
      BY <1>1, <2>2, <3>1 DEF StartsWriting
    <3>3. pc[q] = "stat" /\ Written(q) /\ q \in Processes
      BY <3>1, <3>2 DEF IInv, CleanInv, HistoryInv
    <3> QED
      BY <1>1, <2>2, <3>3 DEF Written, fsVars
  <2> QED
    BY <2>1, <2>2
<1>4. Kept'
  BY DEF IInv, Kept, Reaches, fsVars
<1>5. Remembered'
  BY <1>1 DEF IInv, Remembered, fsVars
<1> QED
  BY <1>3, <1>4, <1>5 DEF IInv

LEMMA LoadKeeps ==
  ASSUME TypeInv, HistoryInv, IInv, NEW p \in Processes, Load(p), call[p] = NoCall
  PROVE  IInv'
<1>1. CASE path = 0
  <2>1. /\ pc' = [pc EXCEPT ![p] = "open"] /\ StartsWriting(p) /\ pc[p] = "down"
        /\ UNCHANGED <<fsVars, seen, fd, acked, known, misled>> /\ call' = call
        /\ \A q \in Processes : q # p => data'[q] = data[q]
    BY <1>1 DEF Load, Goto, TypeInv
  <2> QED
    BY <1>1, <2>1, StartKeeps
<1>2. CASE path # 0
  <2>1. /\ UNCHANGED <<fsVars, seen, fd, call, historyVars>> /\ pc[p] = "down"
        /\ \A q \in Processes : q # p => data'[q] = data[q] /\ pc'[q] = pc[q]
        /\ pc'[p] = "stat"
    BY <1>2 DEF Load, Goto, TypeInv, historyVars
  <2>2. p \notin clean /\ Writers' = Writers
    BY <2>1 DEF IInv, CleanInv, Writers
  <2>3. CleanInv'
    BY <2>1, <2>2 DEF IInv, CleanInv, Writing, Written, Reaches, HistoryInv, historyVars, fsVars
  <2>4. Kept'
    BY <2>1 DEF IInv, Kept, Reaches, fsVars, historyVars
  <2>5. Remembered'
    BY <2>1 DEF IInv, Remembered, fsVars, historyVars
  <2> QED
    BY <2>3, <2>4, <2>5 DEF IInv
<1> QED
  BY <1>1, <1>2

LEMMA ChangeKeeps ==
  ASSUME TypeInv, HistoryInv, IInv, NEW p \in Processes,
         NEW e \in Entries, NEW s \in {"active", "withdrawn"}, Change(p, e, s), Further(p, e, s)
  PROVE  IInv'
<1>1. /\ pc[p] = "idle" /\ UNCHANGED <<fsVars, seen, fd, acked, known, misled>>
      /\ pc' = [pc EXCEPT ![p] = "open"] /\ StartsWriting(p) /\ data[p] \in Data
  BY DEF Change, Goto, TypeInv
<1>2. /\ \A q \in Processes : q # p => data'[q] = data[q] /\ call'[q] = call[q]
      /\ data'[p] = [data[p] EXCEPT ![e] = s]
      /\ call'[p] = [entry |-> e, status |-> s, time |-> 0]
  BY DEF Change, TypeInv
<1>3. data'[p] \in Data /\ data'[p][e] = s /\ \A f \in Entries : f # e => data'[p][f] = data[p][f]
  BY <1>1, <1>2 DEF Data, Statuses
<1>4. Rank(s) >= Rank(data[p][e])
  BY <1>1, Ranks DEF Further, Data
<1>5. Reaches(data'[p], data[p])
  BY <1>1, <1>3, <1>4, ReachesItself DEF Reaches
<1>6. call'[p].entry \in Entries /\ data'[p][call'[p].entry] = call'[p].status
  BY <1>2, <1>3
<1> QED
  BY <1>1, <1>2, <1>3, <1>5, <1>6, StartKeeps

LEMMA OpenKeeps ==
  ASSUME TypeInv, HistoryInv, IInv, NEW p \in Processes, OpenTemporary(p)
  PROVE  IInv'
<1>1. /\ pc[p] = "open" /\ UNCHANGED <<data, seen, call, historyVars>>
      /\ path' = path /\ (path # 0 => inodes'[path] = inodes[path])
      /\ \A q \in Processes : q # p => pc'[q] = pc[q] /\ fd'[q] = fd[q]
      /\ pc'[p] = "write" /\ fd'[p] = temp'
  BY PathUntouched DEF OpenTemporary, Goto, TypeInv
<1>2. Writers' = Writers /\ p \in Writers
  BY <1>1 DEF Writers
<1>3. CleanInv'
  <2> SUFFICES ASSUME NEW q \in clean
               PROVE  (q \in Writers' /\ Writing(q)') \/ (pc'[q] = "stat" /\ Written(q)')
    BY <1>1 DEF CleanInv, historyVars
  <2>1. CASE q = p
    <3>1. Writing(p)
      BY <1>1, <2>1 DEF IInv, CleanInv
    <3> QED
      BY <1>1, <1>2, <2>1, <3>1 DEF Writing, Reaches
  <2>2. CASE q # p
    <3>1. pc[q] = "stat" /\ Written(q) /\ q \in Processes
      BY <1>2, <2>2 DEF IInv, CleanInv, Writing, HistoryInv
    <3> QED
      BY <1>1, <2>2, <3>1 DEF Written
  <2> QED
    BY <2>1, <2>2
<1>4. Kept'
  BY <1>1 DEF IInv, Kept, Reaches, historyVars
<1>5. Remembered'
  BY <1>1 DEF IInv, Remembered, historyVars, TypeInv, ProcessInv, Started
<1> QED
  BY <1>3, <1>4, <1>5 DEF IInv

(* A change of the file that is not clean leaves no promise behind.        *)
LEMMA UncleanForgets ==
  ASSUME TypeInv, HistoryInv, IInv, NEW p \in Processes, p \notin clean, FileChangedBy(p),
         data' = data, misled' = misled, pc[p] \in {"write", "replace"},
         \A q \in Processes : q # p => pc'[q] = pc[q], pc'[p] \notin {"read", "decide"}
  PROVE  IInv'
<1>1. clean' = {} /\ acked' = NoEntries /\ known' = [q \in Processes |-> {}]
  BY DEF FileChangedBy
<1> QED
  BY <1>1 DEF IInv, CleanInv, Kept, Remembered

LEMMA WriteKeeps ==
  ASSUME TypeInv, HistoryInv, IInv, NEW p \in Processes, WriteTemporary(p)
  PROVE  IInv'
<1>1. /\ pc[p] = "write" /\ UNCHANGED <<data, seen, call, misled, path, temp>>
      /\ \A q \in Processes : q # p => pc'[q] = pc[q] /\ fd'[q] = fd[q]
      /\ pc'[p] = "replace"
  BY DEF WriteTemporary, Goto, TypeInv
<1>2. Writers' = Writers /\ p \in Writers
  BY <1>1 DEF Writers
<1>3. p \in clean => Writing(p)
  BY <1>1 DEF IInv, CleanInv
<1>4. CASE fd[p] = path /\ p \notin clean
  BY <1>1, <1>4, UncleanForgets DEF WriteTemporary
<1>5. CASE fd[p] # path
  <2>1. /\ UNCHANGED historyVars /\ (path # 0 => inodes'[path] = inodes[path])
    BY <1>5, PathUntouched DEF WriteTemporary, historyVars
  <2>2. CleanInv'
    <3> SUFFICES ASSUME NEW q \in clean
                 PROVE  (q \in Writers' /\ Writing(q)') \/ (pc'[q] = "stat" /\ Written(q)')
      BY <2>1 DEF CleanInv, historyVars
    <3>1. CASE q = p
      <4>1. Writing(p) /\ fd[p] = temp
        BY <1>1, <1>3, <3>1 DEF Writing
      <4>2. temp \in 1 .. Len(inodes) /\ inodes \in Seq(Files)
        BY <1>1, <4>1 DEF TypeInv, FilesInv, ProcessInv, Started
      <4>3. inodes'[temp].content = data[p] /\ temp # 0
        BY <4>1, <4>2 DEF WriteTemporary
      <4> QED
        BY <1>1, <1>2, <2>1, <3>1, <4>1, <4>3 DEF Writing, Reaches
    <3>2. CASE q # p
      <4>1. pc[q] = "stat" /\ Written(q) /\ q \in Processes
        BY <1>2, <3>2 DEF IInv, CleanInv, Writing, HistoryInv
      <4> QED
        BY <1>1, <2>1, <3>2, <4>1 DEF Written
    <3> QED
      BY <3>1, <3>2
  <2>3. Kept'
    BY <1>1, <2>1 DEF IInv, Kept, Reaches, historyVars
  <2>4. Remembered'
    BY <1>1, <2>1 DEF IInv, Remembered, historyVars, TypeInv, ProcessInv, Started
  <2> QED
    BY <2>2, <2>3, <2>4 DEF IInv
<1>6. p \in clean => fd[p] # path
  <2> SUFFICES ASSUME p \in clean, fd[p] = path PROVE FALSE
    OBVIOUS
  <2>1. fd[p] = temp /\ fd[p] # 0
    BY <1>1, <1>3 DEF Writing, TypeInv, ProcessInv, Started
  <2> QED
    BY <2>1 DEF TypeInv, FilesInv
<1> QED
  BY <1>4, <1>5, <1>6

(* The rename of a clean change only takes what the file shows further.    *)
LEMMA ReplaceKeeps ==
  ASSUME TypeInv, HistoryInv, IInv, NEW p \in Processes, Replace(p)
  PROVE  IInv'
<1>1. /\ pc[p] = "replace" /\ UNCHANGED <<inodes, clock, data, seen, fd, misled>>
      /\ \A q \in Processes : q # p => pc'[q] = pc[q] /\ call'[q] = call[q]
      /\ pc'[p] \in {"idle", "stat"} /\ p \in Writers
      /\ Writers' = Writers \ {p}
  BY DEF Replace, Goto, TypeInv, Writers
<1>2. p \in clean => Writing(p)
  BY <1>1 DEF IInv, CleanInv
<1>3. CASE temp = 0
  <2>1. UNCHANGED <<path, temp, clean, acked, known>> /\ p \notin clean
    BY <1>1, <1>2, <1>3 DEF Replace, Writing
  <2>2. CleanInv'
    <3> SUFFICES ASSUME NEW q \in clean
                 PROVE  pc'[q] = "stat" /\ Written(q)'
      BY <2>1 DEF CleanInv
    <3>1. pc[q] = "stat" /\ Written(q) /\ q \in Processes /\ q # p
      BY <1>1, <2>1 DEF IInv, CleanInv, Writing, HistoryInv
    <3> QED
      BY <1>1, <2>1, <3>1 DEF Written
  <2> QED
    BY <1>1, <2>1, <2>2 DEF IInv, Kept, Remembered, Reaches
<1>4. CASE temp # 0 /\ p \notin clean
  BY <1>1, <1>4, UncleanForgets DEF Replace
<1>5. CASE temp # 0 /\ p \in clean
  <2>1. /\ path' = temp /\ pc'[p] = "stat" /\ call' = call /\ UNCHANGED <<clean, acked, known>>
        /\ inodes'[path'].content = data[p] /\ data[p] \in Data /\ acked \in Data
        /\ \A q \in Processes : known[q] \subseteq Entries
    BY <1>1, <1>2, <1>5 DEF Replace, Writing, FileChangedBy, Goto, TypeInv, HistoryInv
  <2>2. path # 0 => inodes[path].content \in Data /\ Reaches(data[p], inodes[path].content)
    BY <1>2, <1>5 DEF Writing
  <2>3. CleanInv'
    <3> SUFFICES ASSUME NEW q \in clean
                 PROVE  pc'[q] = "stat" /\ Written(q)'
      BY <2>1 DEF CleanInv
    <3>1. CASE q = p
      <4>1. call[p] # NoCall =>
              /\ call[p].entry \in Entries /\ data[p][call[p].entry] = call[p].status
              /\ call[p].status \in Statuses
        BY <1>2, <1>5 DEF Writing, TypeInv, Calls
      <4> QED
        BY <1>5, <2>1, <3>1, <4>1, Ranks DEF Written
    <3>2. CASE q # p
      <4>1. pc[q] = "stat" /\ Written(q) /\ q \in Processes
        BY <1>1, <3>2 DEF IInv, CleanInv, Writing, HistoryInv
      <4>2. call[q] # NoCall => Rank(data[p][call[q].entry]) >= Rank(call[q].status)
        <5> SUFFICES ASSUME call[q] # NoCall
                     PROVE  Rank(data[p][call[q].entry]) >= Rank(call[q].status)
          OBVIOUS
        <5> DEFINE e == call[q].entry
        <5>1. /\ e \in Entries /\ Rank(inodes[path].content[e]) >= Rank(call[q].status)
              /\ Rank(data[p][e]) >= Rank(inodes[path].content[e])
              /\ inodes[path].content[e] \in Statuses /\ data[p][e] \in Statuses
              /\ call[q].status \in Statuses
          BY <2>1, <2>2, <4>1 DEF Written, Reaches, Data, TypeInv, Calls
        <5> QED
          BY <5>1, Ranks
      <4> QED
        BY <1>1, <1>5, <2>1, <3>2, <4>1, <4>2 DEF Written
    <3> QED
      BY <3>1, <3>2
  <2>4. Kept'
    <3>1. CASE acked = NoEntries
      BY <2>1, <3>1, <1>5 DEF Kept
    <3>2. CASE acked # NoEntries
      BY <1>5, <2>1, <2>2, <3>2, ReachesFurther DEF IInv, Kept, Reaches
    <3> QED
      BY <3>1, <3>2
  <2>5. Remembered'
    <3>1. ASSUME NEW q \in Processes, pc'[q] = "read", NEW e \in known[q]
          PROVE  data[p][e] = "withdrawn"
      <4>1. q # p /\ pc[q] = "read" /\ path # 0
        BY <1>1, <2>1, <3>1 DEF TypeInv, ProcessInv, Started
      <4>2. inodes[path].content[e] = "withdrawn" /\ e \in Entries
        BY <2>1, <3>1, <4>1 DEF IInv, Remembered
      <4> QED
        BY <2>1, <2>2, <4>1, <4>2, HoldsWithdrawn
    <3> QED
      BY <1>1, <2>1, <3>1 DEF IInv, Remembered
  <2> QED
    BY <2>3, <2>4, <2>5 DEF IInv
<1> QED
  BY <1>3, <1>4, <1>5

(* The call returns, and what a clean one did becomes known.               *)
LEMMA TakeTimeKeeps ==
  ASSUME TypeInv, HistoryInv, IInv, NEW p \in Processes, TakeTime(p)
  PROVE  IInv'
<1>1. /\ pc[p] = "stat" /\ UNCHANGED <<fsVars, data, fd, known, misled>> /\ path # 0
      /\ clean' = clean \ {p}
      /\ \A q \in Processes : q # p => pc'[q] = pc[q] /\ call'[q] = call[q]
      /\ pc'[p] = "idle"
  BY DEF TakeTime, Goto, TypeInv, ProcessInv, Started
<1>2. Writers' = Writers /\ p \notin Writers
  BY <1>1 DEF Writers
<1>3. CleanInv'
  BY <1>1, <1>2 DEF IInv, CleanInv, Writing, Written, Reaches, HistoryInv, fsVars
<1>4. Kept'
  <2>1. CASE acked' = acked
    BY <1>1, <2>1 DEF IInv, Kept, Reaches, fsVars
  <2>2. CASE acked' # acked
    <3>1. /\ Written(p) /\ call[p] # NoCall /\ call[p].status \in Statuses
          /\ acked' = [acked EXCEPT ![call[p].entry] = call[p].status] /\ acked \in Data
      BY <1>1, <1>2, <2>2 DEF TakeTime, IInv, CleanInv, TypeInv, Calls, HistoryInv
    <3>2. inodes[path].content \in Data /\ Reaches(inodes[path].content, acked)
      BY <1>1, <3>1, ReachesItself DEF IInv, Kept, Written
    <3>3. Reaches(inodes[path].content, acked')
      BY <3>1, <3>2 DEF Reaches, Written, Data
    <3> QED
      BY <1>1, <3>2, <3>3 DEF Kept, Reaches, fsVars
  <2> QED
    BY <2>1, <2>2
<1>5. Remembered'
  BY <1>1 DEF IInv, Remembered, fsVars
<1> QED
  BY <1>3, <1>4, <1>5 DEF IInv

(* A call of authenticate_token knows what was withdrawn before it.        *)
LEMMA CheckTimeKeeps ==
  ASSUME TypeInv, HistoryInv, IInv, NEW p \in Processes, NEW t \in Tokens, CheckTime(p, t)
  PROVE  IInv'
<1>1. /\ pc[p] = "idle" /\ UNCHANGED <<fsVars, data, seen, fd, clean, acked>> /\ path # 0
      /\ \A q \in Processes : q # p => /\ pc'[q] = pc[q] /\ call'[q] = call[q]
                                       /\ known'[q] = known[q] /\ (q \in misled' <=> q \in misled)
      /\ pc'[p] \in {"decide", "read"}
      /\ pc'[p] = "decide" /\ p \notin misled' => UpToDate(p)
      /\ known'[p] = {e \in Entries : acked[e] = "withdrawn"}
  BY DEF CheckTime, Authenticating, Goto, TypeInv, HistoryInv, ProcessInv, Started
<1>2. Writers' = Writers /\ p \notin clean
  BY <1>1 DEF Writers, IInv, CleanInv
<1>3. CleanInv'
  BY <1>1, <1>2 DEF IInv, CleanInv, Writing, Written, Reaches, HistoryInv, fsVars
<1>4. Kept'
  BY <1>1 DEF IInv, Kept, Reaches, fsVars
<1>5. ASSUME NEW e \in known'[p] PROVE inodes[path].content[e] = "withdrawn"
  <2>1. acked[e] = "withdrawn" /\ e \in Entries /\ acked # NoEntries
    BY <1>1, <1>5 DEF NoEntries
  <2> QED
    BY <1>1, <2>1, HoldsWithdrawn DEF IInv, Kept, HistoryInv
<1>6. Remembered'
  <2>1. pc'[p] = "decide" /\ p \notin misled' => data[p] = inodes[path].content
    BY <1>1 DEF UpToDate
  <2> QED
    BY <1>1, <1>5, <2>1 DEF IInv, Remembered, fsVars
<1> QED
  BY <1>3, <1>4, <1>6 DEF IInv

LEMMA ReadAgainKeeps ==
  ASSUME TypeInv, HistoryInv, IInv, NEW p \in Processes, ReadAgain(p)
  PROVE  IInv'
<1>1. /\ pc[p] = "read" /\ UNCHANGED <<fsVars, fd, historyVars>>
      /\ \A q \in Processes : q # p => /\ pc'[q] = pc[q] /\ data'[q] = data[q]
                                       /\ call'[q] = call[q]
      /\ \/ pc'[p] = "idle"
         \/ pc'[p] = "decide" /\ data'[p] = inodes[path].content
  BY DEF ReadAgain, Goto, TypeInv
<1>2. Writers' = Writers /\ p \notin clean
  BY <1>1 DEF Writers, IInv, CleanInv
<1>3. CleanInv'
  BY <1>1, <1>2 DEF IInv, CleanInv, Writing, Written, Reaches, HistoryInv, fsVars, historyVars
<1>4. Kept'
  BY <1>1 DEF IInv, Kept, Reaches, fsVars, historyVars
<1>5. Remembered'
  BY <1>1 DEF IInv, Remembered, fsVars, historyVars
<1> QED
  BY <1>3, <1>4, <1>5 DEF IInv

(* Deciding and ending forget; what a killed call has not written is gone. *)
LEMMA EndKeeps ==
  ASSUME TypeInv, HistoryInv, IInv, NEW p \in Processes,
         (\E accepted \in BOOLEAN : Decide(p, accepted)) \/ Kill(p)
  PROVE  IInv'
<1>1. UNCHANGED <<fsVars, acked>> /\ clean' \subseteq clean /\ p \notin clean'
  BY DEF Decide, Kill, IInv, CleanInv, Writers
<1>2. /\ \A q \in Processes : q # p => /\ pc'[q] = pc[q] /\ data'[q] = data[q]
                                       /\ call'[q] = call[q] /\ fd'[q] = fd[q]
                                       /\ known'[q] = known[q]
                                       /\ (q \in misled' <=> q \in misled)
      /\ pc'[p] \in {"down", "idle"} /\ Writers' = Writers \ {p}
  BY DEF Decide, Kill, Goto, TypeInv, HistoryInv, Writers
<1>3. CleanInv'
  BY <1>1, <1>2 DEF IInv, CleanInv, Writing, Written, Reaches, HistoryInv, fsVars
<1>4. Kept'
  BY <1>1 DEF IInv, Kept, Reaches, fsVars
<1>5. Remembered'
  BY <1>1, <1>2 DEF IInv, Remembered, fsVars
<1> QED
  BY <1>3, <1>4, <1>5 DEF IInv

(* A process that is down has no call.                                     *)
Ended == \A p \in Processes : pc[p] = "down" => call[p] = NoCall

LEMMA NextEnded == TypeInv /\ Ended /\ [Next]_vars => Ended'
<1> SUFFICES ASSUME TypeInv, Ended, [Next]_vars PROVE Ended'
  OBVIOUS
<1>1. CASE UNCHANGED vars
  BY <1>1 DEF vars, processVars, Ended
<1>2. CASE Next
  <2>1. PICK p \in Processes :
           \/ Load(p) \/ (\E e \in Entries, s \in {"active", "withdrawn"} :
                            Change(p, e, s) /\ Further(p, e, s))
           \/ OpenTemporary(p) \/ WriteTemporary(p) \/ Replace(p) \/ TakeTime(p)
           \/ (\E t \in Tokens : CheckTime(p, t)) \/ ReadAgain(p)
           \/ (\E accepted \in BOOLEAN : Decide(p, accepted)) \/ Kill(p)
    BY <1>2, Kinds
  <2>2. /\ pc'[p] = "down" => call'[p] = NoCall
        /\ \A q \in Processes : q # p => pc'[q] = pc[q] /\ call'[q] = call[q]
    BY <2>1 DEF TypeInv, Load, Change, OpenTemporary, WriteTemporary, Replace, TakeTime,
       CheckTime, Authenticating, ReadAgain, Decide, Kill, Goto
  <2> QED
    BY <2>2 DEF Ended
<1> QED
  BY <1>1, <1>2

LEMMA NextKeeps == TypeInv /\ HistoryInv /\ Ended /\ IInv /\ [Next]_vars => IInv'
<1> SUFFICES ASSUME TypeInv, HistoryInv, Ended, IInv, [Next]_vars PROVE IInv'
  OBVIOUS
<1>1. CASE UNCHANGED vars
  BY <1>1 DEF vars, fsVars, processVars, historyVars, IInv, CleanInv, Writing, Written, Writers,
     Kept, Remembered, Reaches
<1>2. CASE Next
  <2>1. PICK p \in Processes :
           \/ Load(p) \/ (\E e \in Entries, s \in {"active", "withdrawn"} :
                            Change(p, e, s) /\ Further(p, e, s))
           \/ OpenTemporary(p) \/ WriteTemporary(p) \/ Replace(p) \/ TakeTime(p)
           \/ (\E t \in Tokens : CheckTime(p, t)) \/ ReadAgain(p)
           \/ (\E accepted \in BOOLEAN : Decide(p, accepted)) \/ Kill(p)
    BY <1>2, Kinds
  <2>2. Load(p) => call[p] = NoCall
    BY DEF Load, Ended
  <2> QED
    BY <2>1, <2>2, LoadKeeps, ChangeKeeps, OpenKeeps, WriteKeeps, ReplaceKeeps, TakeTimeKeeps,
       CheckTimeKeeps, ReadAgainKeeps, EndKeeps
<1> QED
  BY <1>1, <1>2

LEMMA InitKeeps == Init => IInv /\ Ended
BY DEF Init, IInv, CleanInv, Kept, Remembered, Ended

LEMMA CleanHolds == Spec => [](TypeInv /\ HistoryInv /\ IInv)
BY InitTypes, NextTypes, InitKeeps, NextKeeps, NextEnded, PTL DEF Spec

(* What a clean change has made of an entry when its call returns stays in *)
(* the file, or goes further, until a change that is not clean overtakes   *)
(* it: whichever processes read, write and are killed, and whatever went   *)
(* wrong before.                                                           *)
THEOREM ChangesKept == Spec => []AcknowledgedKept
<1>1. TypeInv /\ IInv => AcknowledgedKept
  <2> SUFFICES ASSUME TypeInv, IInv, NEW e \in Entries, acked[e] # "none"
               PROVE  /\ path # 0 /\ inodes[path].content # Nothing
                      /\ Rank(inodes[path].content[e]) >= Rank(acked[e])
    BY DEF AcknowledgedKept
  <2>1. acked # NoEntries
    BY DEF NoEntries
  <2> QED
    BY <2>1, NothingApart DEF IInv, Kept, Reaches
<1> QED
  BY <1>1, CleanHolds, PTL

(* A token that a clean revoke_token withdrew before the call began is not *)
(* accepted, by whichever process, unless its copy of the file is an old   *)
(* one that the time of the file does not give away.                       *)
THEOREM RevokedRejected == Spec => WithdrawnRejected
<1>1. IInv /\ [Next]_vars =>
        [\A p \in Processes :
           Decide(p, TRUE) /\ p \notin misled => call[p].entry \notin known[p]]_vars
  <2> SUFFICES ASSUME IInv, NEW p \in Processes, Decide(p, TRUE), p \notin misled,
                      call[p].entry \in known[p]
               PROVE  FALSE
    OBVIOUS
  <2>1. pc[p] = "decide" /\ data[p][call[p].entry] = "active"
    BY DEF Decide
  <2> QED
    BY <2>1 DEF IInv, Remembered
<1> QED
  BY <1>1, CleanHolds, PTL DEF Spec, WithdrawnRejected
=============================================================================
