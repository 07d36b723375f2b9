-------------------------- MODULE CredentialStore --------------------------
(***************************************************************************)
(* CredentialStore of src/core.py: users and tokens in a JSON file that    *)
(* several processes share (a server that authenticates tokens, one-shot   *)
(* CLI commands that create users, programs that issue and revoke tokens). *)
(* Each process keeps the data in memory, changes it there, writes all of  *)
(* it to one temporary file and renames that over the file; only           *)
(* authenticate_token looks whether the modification time has changed and  *)
(* reads the file again.  The lock of a store serialises the calls of one  *)
(* process, which is therefore one sequence of steps here.                 *)
(*                                                                         *)
(* A user or token is an entry that is added (create_user, issue_token)    *)
(* and may be withdrawn (disable_user, revoke_token); secrets, tenants,    *)
(* roles and expiry are left out.                                          *)
(***************************************************************************)
EXTENDS Naturals, Sequences

CONSTANTS
  Processes,
  Users, Tokens,
  MaxWrites,    \* bound on the files written
  MaxTime       \* bound on the ticks of the clock

(* Without entries a file that has none would look like an empty one.      *)
ASSUME EntriesAssumption == Users \intersect Tokens = {} /\ Users \union Tokens # {}
ASSUME BoundsAssumption == MaxWrites \in Nat /\ MaxTime \in Nat

Entries == Users \union Tokens

VARIABLES
  inodes,     \* the files written: their data, or Nothing, and their time
  path,       \* the inode the credentials path names, 0 for none
  temp,       \* the inode the .tmp path names, 0 for none
  clock,      \* the time stamp of the last write
  pc,         \* the step each process is at
  data,       \* _data
  seen,       \* _mtime_ns
  fd,         \* the inode a process has open for writing
  call,       \* the entry a call is about, and what it makes of it
  clean,      \* history: the processes whose change overtakes no other
  acked,      \* history: what the clean changes that returned made of each
              \* entry since the last one that was not clean
  known,      \* history: entries known to be withdrawn when a call began
  misled      \* history: the processes that take an old copy for the file

fsVars == <<inodes, path, temp, clock>>
processVars == <<pc, data, seen, fd, call>>
historyVars == <<clean, acked, known, misled>>
vars == <<fsVars, processVars, historyVars>>

Statuses == {"none", "active", "withdrawn"}
Rank(s) == CASE s = "none" -> 0 [] s = "active" -> 1 [] s = "withdrawn" -> 2

NoEntries == [e \in Entries |-> "none"]
Nothing   == [e \in {} |-> "none"]     \* an empty file, which is not JSON

NoCall == [entry |-> "none", status |-> "none", time |-> 0]

Init ==
  /\ inodes = << >> /\ path = 0 /\ temp = 0 /\ clock = 1
  /\ pc = [p \in Processes |-> "down"]
  /\ data = [p \in Processes |-> NoEntries]
  /\ seen = [p \in Processes |-> 0] /\ fd = [p \in Processes |-> 0]
  /\ call = [p \in Processes |-> NoCall]
  /\ clean = {} /\ acked = NoEntries
  /\ known = [p \in Processes |-> {}] /\ misled = {}

Goto(p, l) == pc' = [pc EXCEPT ![p] = l]

(* A change is clean if it starts from what the file holds and no other    *)
(* process writes before it has replaced the file; nothing in the code     *)
(* makes it so.                                                            *)
Writers == {p \in Processes : pc[p] \in {"open", "write", "replace"}}

UpToDate(p) == path = 0 \/ data[p] = inodes[path].content

StartsWriting(p) ==
  clean' = IF Writers \ {p} = {} /\ UpToDate(p) THEN clean \union {p}
           ELSE clean \ (Writers \union {p})

(* What the file shows changes: after a change that is not clean nothing   *)
(* is known of it any more.                                                *)
FileChangedBy(p) ==
  IF p \in clean THEN UNCHANGED <<clean, acked, known>>
  ELSE clean' = {} /\ acked' = NoEntries /\ known' = [q \in Processes |-> {}]

----------------------------------------------------------------------------
(* The constructor: read the file, or write a first one; then take its     *)
(* modification time.                                                      *)

Load(p) ==
  /\ pc[p] = "down"
  /\ IF path = 0
       THEN data' = [data EXCEPT ![p] = NoEntries] /\ Goto(p, "open") /\ StartsWriting(p)
       ELSE /\ inodes[path].content # Nothing
            /\ data' = [data EXCEPT ![p] = inodes[path].content]
            /\ Goto(p, "stat") /\ clean' = clean
  /\ UNCHANGED <<fsVars, seen, fd, call, acked, known, misled>>

(* Token identifiers are random: nobody has seen this one.                 *)
NewToken(t) ==
  /\ \A p \in Processes : data[p][t] = "none"
  /\ \A i \in 1 .. Len(inodes) :
       inodes[i].content # Nothing => inodes[i].content[t] = "none"

(* A method that changes the data calls _persist.  No method reads the     *)
(* file first.                                                             *)
Change(p, e, s) ==
  /\ pc[p] = "idle"
  /\ data' = [data EXCEPT ![p][e] = s]
  /\ call' = [call EXCEPT ![p] = [entry |-> e, status |-> s, time |-> 0]]
  /\ Goto(p, "open") /\ StartsWriting(p)
  /\ UNCHANGED <<fsVars, seen, fd, acked, known, misled>>

CreateUser(p, u)  == data[p][u] = "none" /\ Change(p, u, "active")
DisableUser(p, u) == data[p][u] # "none" /\ Change(p, u, "withdrawn")
IssueToken(p, t)  == NewToken(t) /\ Change(p, t, "active")
RevokeToken(p, t) == data[p][t] # "none" /\ Change(p, t, "withdrawn")

----------------------------------------------------------------------------
(* _persist.                                                               *)

(* A mutant: the file itself is opened for writing too, to have it there   *)
(* with its permissions before it is replaced.                             *)
OpenTarget(p) ==
  /\ pc[p] = "open" /\ temp = 0 /\ Len(inodes) < MaxWrites
  /\ inodes' = Append([i \in DOMAIN inodes |->
                         IF i = path THEN [inodes[i] EXCEPT !.content = Nothing] ELSE inodes[i]],
                      [content |-> Nothing, time |-> clock])
  /\ path' = path /\ temp' = Len(inodes')
  /\ fd' = [fd EXCEPT ![p] = temp']
  /\ Goto(p, "write")
  /\ UNCHANGED <<clock, data, seen, call, historyVars>>

OpenTemporary(p) ==
  /\ pc[p] = "open"
  /\ IF temp = 0
       THEN /\ Len(inodes) < MaxWrites
            /\ inodes' = Append(inodes, [content |-> Nothing, time |-> clock])
            /\ temp' = Len(inodes')
       ELSE /\ inodes' = [inodes EXCEPT ![temp] = [content |-> Nothing, time |-> clock]]
            /\ temp' = temp
  /\ fd' = [fd EXCEPT ![p] = temp']
  /\ Goto(p, "write")
  /\ UNCHANGED <<path, clock, data, seen, call, historyVars>>

(* The time of the file has the resolution of the clock: two writes in one *)
(* tick get the same.  The file that is written is the one at the path if  *)
(* another process has moved it there since it was opened.                 *)
WriteTemporary(p) ==
  /\ pc[p] = "write"
  /\ clock' = clock \/ (clock < MaxTime /\ clock' = clock + 1)
  /\ inodes' = [inodes EXCEPT ![fd[p]] = [content |-> data[p], time |-> clock']]
  /\ fd' = [fd EXCEPT ![p] = 0]
  /\ Goto(p, "replace")
  /\ IF fd[p] = path THEN FileChangedBy(p) ELSE UNCHANGED <<clean, acked, known>>
  /\ UNCHANGED <<path, temp, data, seen, call, misled>>

(* A mutant: the temporary file is linked, not moved.                      *)
LinkTemporary(p) ==
  /\ pc[p] = "replace" /\ temp # 0
  /\ path' = temp /\ temp' = temp
  /\ Goto(p, "stat") /\ FileChangedBy(p)
  /\ UNCHANGED <<inodes, clock, data, seen, fd, call, misled>>

(* chmod or replace raises FileNotFoundError when another process has      *)
(* moved the temporary file: the call fails, its change stays in memory.   *)
Replace(p) ==
  /\ pc[p] = "replace"
  /\ IF temp = 0
       THEN /\ Goto(p, "idle") /\ call' = [call EXCEPT ![p] = NoCall]
            /\ UNCHANGED <<path, temp, clean, acked, known>>
       ELSE path' = temp /\ temp' = 0 /\ Goto(p, "stat") /\ call' = call /\ FileChangedBy(p)
  /\ UNCHANGED <<inodes, clock, data, seen, fd, misled>>

(* The end of _persist and of the constructor: the call returns.           *)
TakeTime(p) ==
  /\ pc[p] = "stat"
  /\ seen' = [seen EXCEPT ![p] = inodes[path].time]
  /\ acked' = IF call[p] # NoCall /\ p \in clean
                THEN [acked EXCEPT ![call[p].entry] = call[p].status] ELSE acked
  /\ call' = [call EXCEPT ![p] = NoCall] /\ clean' = clean \ {p}
  /\ Goto(p, "idle")
  /\ UNCHANGED <<fsVars, data, fd, known, misled>>

----------------------------------------------------------------------------
(* authenticate_token: _refresh, then the decision.                        *)

Authenticating(p, t) ==
  /\ pc[p] = "idle"
  /\ call' = [call EXCEPT ![p] = [entry |-> t, status |-> "none", time |-> inodes[path].time]]
  /\ known' = [known EXCEPT ![p] = {e \in Entries : acked[e] = "withdrawn"}]
  /\ misled' = IF inodes[path].time = seen[p] /\ ~UpToDate(p) THEN misled \union {p}
               ELSE misled \ {p}
  /\ UNCHANGED <<fsVars, data, seen, fd, clean, acked>>

(* A mutant: there is no _refresh.                                         *)
NeverStale(p, t) == Authenticating(p, t) /\ Goto(p, "decide")

CheckTime(p, t) ==
  /\ Authenticating(p, t)
  /\ Goto(p, IF inodes[path].time = seen[p] THEN "decide" ELSE "read")

(* The file may have been replaced again since.  An empty one is not JSON: *)
(* json.loads raises.                                                      *)
ReadAgain(p) ==
  /\ pc[p] = "read"
  /\ IF inodes[path].content = Nothing
       THEN /\ call' = [call EXCEPT ![p] = NoCall]
            /\ Goto(p, "idle") /\ UNCHANGED <<data, seen>>
       ELSE /\ data' = [data EXCEPT ![p] = inodes[path].content]
            /\ seen' = [seen EXCEPT ![p] = call[p].time]
            /\ Goto(p, "decide") /\ call' = call
  /\ UNCHANGED <<fsVars, fd, historyVars>>

Decide(p, accepted) ==
  /\ pc[p] = "decide"
  /\ accepted = (data[p][call[p].entry] = "active")
  /\ call' = [call EXCEPT ![p] = NoCall]
  /\ known' = [known EXCEPT ![p] = {}] /\ misled' = misled \ {p}
  /\ Goto(p, "idle")
  /\ UNCHANGED <<fsVars, data, seen, fd, clean, acked>>

(* A process ends, or is killed at any step.                               *)
Kill(p) ==
  /\ pc[p] # "down"
  /\ data' = [data EXCEPT ![p] = NoEntries] /\ seen' = [seen EXCEPT ![p] = 0]
  /\ fd' = [fd EXCEPT ![p] = 0] /\ call' = [call EXCEPT ![p] = NoCall]
  /\ known' = [known EXCEPT ![p] = {}] /\ misled' = misled \ {p} /\ clean' = clean \ {p}
  /\ Goto(p, "down")
  /\ UNCHANGED <<fsVars, acked>>

Next ==
  \E p \in Processes :
    \/ Load(p)
    \/ \E u \in Users : CreateUser(p, u) \/ DisableUser(p, u)
    \/ \E t \in Tokens : IssueToken(p, t) \/ RevokeToken(p, t)
    \/ OpenTemporary(p) \/ WriteTemporary(p) \/ Replace(p) \/ TakeTime(p)
    \/ \E t \in Tokens : CheckTime(p, t)
    \/ ReadAgain(p)
    \/ \E accepted \in BOOLEAN : Decide(p, accepted)
    \/ Kill(p)

Spec == Init /\ [][Next]_vars

----------------------------------------------------------------------------
(* Properties.                                                             *)

(* Every variable keeps its type, and the two paths never name one file.   *)
TypeOK ==
  /\ \A i \in 1 .. Len(inodes) :
       /\ inodes[i].content \in [Entries -> Statuses] \union {Nothing}
       /\ inodes[i].time \in 1 .. clock
  /\ path \in 0 .. Len(inodes) /\ temp \in 0 .. Len(inodes)
  /\ path = temp => path = 0
  /\ clock \in Nat
  /\ \A p \in Processes :
       /\ pc[p] \in {"down", "idle", "open", "write", "replace", "stat", "read", "decide"}
       /\ data[p] \in [Entries -> Statuses]
       /\ seen[p] \in 0 .. clock /\ fd[p] \in 0 .. Len(inodes)
       /\ call[p].status \in Statuses /\ known[p] \subseteq Entries
  /\ acked \in [Entries -> Statuses]
  /\ clean \union misled \subseteq Processes

(* What a clean call that returned has done is in the file until a change  *)
(* that is not clean overtakes it, whichever process made the call,        *)
(* whichever wrote the file since or was killed at it, and whatever had    *)
(* gone wrong before: a created user and an issued token stay, and what    *)
(* was withdrawn is never active again.                                    *)
AcknowledgedKept ==
  \A e \in Entries : acked[e] # "none" =>
    /\ path # 0 /\ inodes[path].content # Nothing
    /\ Rank(inodes[path].content[e]) >= Rank(acked[e])

(* The tests' "revocable token": a call of authenticate_token that begins  *)
(* after revoke_token has returned, in this process or another, does not   *)
(* accept the token, unless a change that is not clean took the revocation *)
(* from the file, or the file has the time the process has seen with other *)
(* data: it was replaced twice in one tick, or while the process started.  *)
WithdrawnRejected ==
  [][\A p \in Processes :
       Decide(p, TRUE) /\ p \notin misled => call[p].entry \notin known[p]]_vars
=============================================================================
