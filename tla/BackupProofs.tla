---------------------------- MODULE BackupProofs ----------------------------
(***************************************************************************)
(* Proofs about BackupManager, for every number of documents, directories, *)
(* mutations and restores: types, directories are whole, a point-in-time   *)
(* restore is exact, and a restore that ended shows what was asked for.    *)
(*                                                                         *)
(* A start is a recursion over the log (Replaying).  What it loads is      *)
(* shown by the least index at which a claim would fail.  The invariant    *)
(* says of a directory that its history, if no sequence number was handed  *)
(* out twice, gives back the whole timeline (Exact): a mutation adds an    *)
(* entry that no earlier number sees, and a backup, its restores and their *)
(* restores pass the history on unchanged.                                 *)
(***************************************************************************)
EXTENDS BackupManager, WellFoundedInduction, TLAPS

----------------------------------------------------------------------------
(* What a start makes of a log, record by record.                          *)

Contents(S) == [is : {"absent", "damaged"}] \union [is : {"whole"}, data : S]

Entries == [seq : 1 .. MaxMutations, document : 0 .. MaxMutations]
Records == [seq : 1 .. MaxMutations, id : Ids, document : 0 .. MaxMutations]
States  == [seq : 0 .. MaxMutations, docs : DocSets, history : [Ids -> Seq(Entries)]]

LEMMA LeastNumber ==
  ASSUME NEW S \in SUBSET Nat, S # {}
  PROVE  \E x \in S : \A y \in S : x <= y
<1> DEFINE R == {ss \in Nat \X Nat : ss[1] < ss[2]}
<1>1. IsWellFoundedOn(R, Nat)
  BY NatLessThanWellFounded, Zenon DEF OpToRel
<1> HIDE DEF R
<1>2. PICK x \in S : \A y \in S : ~(<<y, x>> \in R)
  BY <1>1, WFMin
<1>3. \A y \in S : ~(y < x)
  BY <1>2 DEF R
<1> QED BY <1>3

(* What one record makes of state x, in a start from snapshot s.           *)
After(s, r, x) == IF r.seq > s.seq THEN Apply(x, r) ELSE x

LEMMA ReplayingSteps ==
  ASSUME NEW s, NEW log, Len(log) \in Nat
  PROVE  /\ Replaying(s, log)[0] = s
         /\ \A i \in 1 .. Len(log) :
              Replaying(s, log)[i] = After(s, log[i], Replaying(s, log)[i - 1])
<1> DEFINE Body(x, n) == [i \in 0 .. n |-> IF i = 0 THEN s
                                          ELSE IF log[i].seq > s.seq
                                                 THEN Apply(x[i - 1], log[i]) ELSE x[i - 1]]
           S == {n \in Nat : \A x : x # Body(x, n)}
<1>1. \E x : x = Body(x, Len(log))
  <2> SUFFICES ASSUME Len(log) \in S PROVE FALSE
    OBVIOUS
  <2>1. PICK n \in S : \A m \in S : n <= m
    <3>1. S \in SUBSET Nat /\ S # {}
      OBVIOUS
    <3> HIDE DEF S
    <3> QED BY <3>1, LeastNumber
  <2>2. CASE n = 0
    <3> DEFINE x == [i \in 0 .. 0 |-> s]
    <3>1. x = Body(x, 0)
      OBVIOUS
    <3> QED BY <2>1, <2>2, <3>1
  <2>3. CASE n # 0
    <3>1. n \in Nat /\ n - 1 \in Nat /\ n - 1 \notin S
      BY <2>1, <2>3
    <3>2. PICK x : x = Body(x, n - 1)
      BY <3>1
    <3> DEFINE y == [i \in 0 .. n |-> IF i < n THEN x[i]
                                     ELSE IF log[n].seq > s.seq
                                            THEN Apply(x[n - 1], log[n]) ELSE x[n - 1]]
    <3>3. \A i \in 0 .. n - 1 : x[i] = IF i = 0 THEN s
                                       ELSE IF log[i].seq > s.seq
                                              THEN Apply(x[i - 1], log[i]) ELSE x[i - 1]
      BY <3>1, <3>2
    <3>4. \A i \in 0 .. n : y[i] = IF i = 0 THEN s
                                   ELSE IF log[i].seq > s.seq
                                          THEN Apply(y[i - 1], log[i]) ELSE y[i - 1]
      BY <2>3, <3>1, <3>3
    <3>5. y = Body(y, n)
      BY <3>4
    <3> HIDE DEF y
    <3> QED BY <2>1, <3>5
  <2> QED BY <2>2, <2>3
<1> DEFINE st == CHOOSE x : x = Body(x, Len(log))
<1>2. Replaying(s, log) = st
  BY DEF Replaying
<1>3. st = Body(st, Len(log))
  BY <1>1, Zenon
<1> HIDE DEF st
<1>4. \A i \in 0 .. Len(log) : st[i] = IF i = 0 THEN s
                                       ELSE IF log[i].seq > s.seq
                                              THEN Apply(st[i - 1], log[i]) ELSE st[i - 1]
  BY <1>3, Zenon
<1> QED BY <1>2, <1>4 DEF After

LEMMA WithType ==
  ASSUME NEW docs \in DocSets, NEW id \in Ids, NEW v \in 0 .. MaxMutations
  PROVE  With(docs, id, v) \in DocSets
<1>1. PICK X \in SUBSET Ids : docs \in [X -> 1 .. MaxMutations]
  BY DEF DocSets
<1> DEFINE Y == IF v = None THEN X \ {id} ELSE X \union {id}
<1>2. Y \in SUBSET Ids /\ With(docs, id, v) = [x \in Y |-> IF x = id THEN v ELSE docs[x]]
  BY <1>1 DEF With
<1>3. \A x \in Y : (IF x = id THEN v ELSE docs[x]) \in 1 .. MaxMutations
  BY <1>1, BoundAssumption DEF None
<1>4. With(docs, id, v) \in [Y -> 1 .. MaxMutations]
  BY <1>2, <1>3
<1> QED
  BY <1>2, <1>4 DEF DocSets

LEMMA ApplyType ==
  ASSUME NEW s \in States, NEW r \in Records
  PROVE  Apply(s, r) \in States
<1>1. /\ s.docs \in DocSets /\ s.history \in [Ids -> Seq(Entries)]
      /\ r.seq \in 1 .. MaxMutations /\ r.id \in Ids /\ r.document \in 0 .. MaxMutations
  BY DEF States, Records
<1>2. With(s.docs, r.id, r.document) \in DocSets
  BY <1>1, WithType
<1> DEFINE e == [seq |-> r.seq, document |-> r.document]
<1>3. e \in Entries
  BY <1>1 DEF Entries
<1> HIDE DEF e
<1>4. Append(s.history[r.id], e) \in Seq(Entries)
  BY <1>1, <1>3
<1>5. [s.history EXCEPT ![r.id] = Append(@, e)] \in [Ids -> Seq(Entries)]
  BY <1>1, <1>4
<1>6. r.seq \in 0 .. MaxMutations
  BY <1>1, BoundAssumption
<1> QED
  BY <1>2, <1>5, <1>6 DEF Apply, States, e

(* The state stays well typed, and never falls behind the snapshot.        *)
LEMMA ReplayingTypes ==
  ASSUME NEW s \in States, NEW log \in Seq(Records), NEW n \in 0 .. Len(log)
  PROVE  Replaying(s, log)[n] \in States /\ Replaying(s, log)[n].seq >= s.seq
<1> DEFINE st == Replaying(s, log)
           Good(i) == st[i] \in States /\ st[i].seq >= s.seq
           S == {i \in 0 .. Len(log) : ~Good(i)}
<1>1. Len(log) \in Nat /\ s.seq \in Nat
  BY BoundAssumption DEF States
<1>2. st[0] = s /\ \A i \in 1 .. Len(log) : st[i] = After(s, log[i], st[i - 1])
  BY <1>1, ReplayingSteps
<1> HIDE DEF st
<1>3. SUFFICES ASSUME S # {} PROVE FALSE
  BY DEF st
<1>4. PICK i \in S : \A j \in S : i <= j
  <2>1. S \in SUBSET Nat
    BY <1>1
  <2> HIDE DEF S
  <2> QED BY <1>3, <2>1, LeastNumber
<1>5. Good(0)
  BY <1>1, <1>2
<1>6. i \in 1 .. Len(log) /\ i - 1 \in 0 .. Len(log) /\ i - 1 \notin S
  BY <1>1, <1>4, <1>5
<1>7. Good(i - 1) /\ log[i] \in Records
  BY <1>6
<1>8. log[i].seq > s.seq => Apply(st[i - 1], log[i]) \in States
  BY <1>7, ApplyType
<1>9. log[i].seq > s.seq => Apply(st[i - 1], log[i]).seq >= s.seq
  BY <1>1, <1>7 DEF Apply, Records
<1>10. Good(i)
  BY <1>2, <1>6, <1>7, <1>8, <1>9 DEF After
<1> QED
  BY <1>4, <1>10

(* Records the snapshot includes change nothing.                           *)
LEMMA ReplayingNothing ==
  ASSUME NEW s \in States, NEW log \in Seq(Records), NEW n \in 0 .. Len(log),
         \A i \in 1 .. Len(log) : log[i].seq <= s.seq
  PROVE  Replaying(s, log)[n] = s
<1> DEFINE st == Replaying(s, log)
           S == {i \in 0 .. Len(log) : st[i] # s}
<1>1. Len(log) \in Nat /\ s.seq \in Nat
  BY BoundAssumption DEF States
<1>2. st[0] = s /\ \A i \in 1 .. Len(log) : st[i] = After(s, log[i], st[i - 1])
  BY <1>1, ReplayingSteps
<1> HIDE DEF st
<1>3. SUFFICES ASSUME S # {} PROVE FALSE
  BY DEF st
<1>4. PICK i \in S : \A j \in S : i <= j
  <2>1. S \in SUBSET Nat
    BY <1>1
  <2> HIDE DEF S
  <2> QED BY <1>3, <2>1, LeastNumber
<1>5. i \in 1 .. Len(log) /\ i - 1 \in 0 .. Len(log) /\ i - 1 \notin S
  BY <1>1, <1>2, <1>4
<1>6. st[i - 1] = s /\ ~(log[i].seq > s.seq)
  <2>1. log[i] \in Records /\ log[i].seq <= s.seq
    BY <1>5
  <2>2. log[i].seq \in Nat
    BY <2>1, BoundAssumption DEF Records
  <2> QED BY <1>1, <1>5, <2>1, <2>2
<1> QED
  BY <1>2, <1>4, <1>5, <1>6 DEF After

(* A record appended to the log is applied to what was loaded before.      *)
LEMMA ReplayingAppend ==
  ASSUME NEW s, NEW log \in Seq(Records), NEW r \in Records
  PROVE  Replaying(s, Append(log, r))[Len(log) + 1] = After(s, r, Replaying(s, log)[Len(log)])
<1> DEFINE st  == Replaying(s, log)
           new == Append(log, r)
           nt  == Replaying(s, new)
           S == {i \in 0 .. Len(log) : nt[i] # st[i]}
<1>1. /\ Len(log) \in Nat /\ Len(new) = Len(log) + 1 /\ new[Len(log) + 1] = r
      /\ \A i \in 1 .. Len(log) : new[i] = log[i]
  OBVIOUS
<1> HIDE DEF new
<1>2. st[0] = s /\ \A i \in 1 .. Len(log) : st[i] = After(s, log[i], st[i - 1])
  BY <1>1, ReplayingSteps
<1>3. Len(new) \in Nat
  BY <1>1
<1>4. nt[0] = s /\ \A i \in 1 .. Len(new) : nt[i] = After(s, new[i], nt[i - 1])
  BY <1>3, ReplayingSteps
<1> HIDE DEF st, nt
<1>5. ASSUME S # {} PROVE FALSE
  <2>1. S \in SUBSET Nat
    BY <1>1
  <2>2. PICK i \in S : \A j \in S : i <= j
    <3> HIDE DEF S
    <3> QED BY <1>5, <2>1, LeastNumber
  <2>3. i \in 1 .. Len(log) /\ i - 1 \in 0 .. Len(log) /\ i - 1 \notin S
    BY <1>1, <1>2, <1>4, <2>2
  <2>4. nt[i - 1] = st[i - 1] /\ i \in 1 .. Len(new) /\ new[i] = log[i]
    BY <1>1, <2>3
  <2> QED BY <1>2, <1>4, <2>2, <2>3, <2>4
<1>6. nt[Len(log)] = st[Len(log)] /\ Len(log) + 1 \in 1 .. Len(new)
  BY <1>1, <1>5
<1>7. nt[Len(log) + 1] = After(s, new[Len(log) + 1], nt[Len(log) + 1 - 1])
  BY <1>4, <1>6
<1>8. Len(log) + 1 - 1 = Len(log)
  BY <1>1
<1> QED
  BY <1>1, <1>6, <1>7, <1>8 DEF st, nt, new

----------------------------------------------------------------------------
(* What is materialized from a history.                                    *)

(* There is a first entry among those with the greatest number, and it is  *)
(* the one that is chosen.                                                 *)
Best(h, c, i) == \A j \in c : h[j].seq < h[i].seq \/ (h[j].seq = h[i].seq /\ i <= j)

Choice(h, c) == CHOOSE i \in c : Best(h, c, i)

LEMMA LatestIsChoice ==
  ASSUME NEW h, NEW c
  PROVE  Latest(h, c) = h[Choice(h, c)]
BY DEF Latest, Choice, Best

LEMMA LatestIn ==
  ASSUME NEW h \in Seq(Entries), NEW c \in SUBSET DOMAIN h, c # {}
  PROVE  Choice(h, c) \in c
<1> DEFINE Gaps == {MaxMutations - h[i].seq : i \in c}
<1>1. \A i \in c : i \in Nat /\ h[i].seq \in 1 .. MaxMutations
  <2>1. \A i \in c : i \in Nat /\ h[i] \in Entries
    OBVIOUS
  <2> QED BY <2>1 DEF Entries
<1>2. \A i \in c : MaxMutations - h[i].seq \in Nat
  BY <1>1, BoundAssumption
<1>3. PICK g \in Gaps : \A y \in Gaps : g <= y
  <2>1. Gaps \in SUBSET Nat /\ Gaps # {}
    BY <1>2
  <2> HIDE DEF Gaps
  <2> QED BY <2>1, LeastNumber
<1> DEFINE Tops == {i \in c : MaxMutations - h[i].seq = g}
<1>4. PICK i \in Tops : \A j \in Tops : i <= j
  <2>1. Tops \in SUBSET Nat /\ Tops # {}
    BY <1>1, <1>3
  <2> HIDE DEF Tops
  <2> QED BY <2>1, LeastNumber
<1>5. ASSUME NEW j \in c PROVE h[j].seq < h[i].seq \/ (h[j].seq = h[i].seq /\ i <= j)
  <2>1. /\ i \in c /\ MaxMutations - h[i].seq <= MaxMutations - h[j].seq
        /\ h[i].seq \in Nat /\ h[j].seq \in Nat
    BY <1>1, <1>3, <1>4
  <2>2. h[j].seq = h[i].seq => j \in Tops
    BY <1>4
  <2> HIDE DEF Tops
  <2> QED BY <1>4, <2>1, <2>2, BoundAssumption
<1>6. i \in c /\ Best(h, c, i)
  BY <1>4, <1>5 DEF Best
<1> QED
  BY <1>6, Zenon DEF Choice

(* The entry with the strictly greatest number is the latest.              *)
LEMMA LatestIs ==
  ASSUME NEW h \in Seq(Entries), NEW c \in SUBSET DOMAIN h, NEW k \in c,
         \A j \in c : j # k => h[j].seq < h[k].seq
  PROVE  Latest(h, c) = h[k]
<1>1. \A i \in c : i \in Nat /\ h[i].seq \in Nat
  <2>1. \A i \in c : i \in Nat /\ h[i] \in Entries
    OBVIOUS
  <2> QED BY <2>1, BoundAssumption DEF Entries
<1>2. Best(h, c, k)
  BY <1>1 DEF Best
<1>3. \A i \in c : Best(h, c, i) => i = k
  BY <1>1 DEF Best
<1>4. Choice(h, c) = k
  BY <1>2, <1>3, Zenon DEF Choice
<1> QED
  BY <1>4, LatestIsChoice

LEMMA EntryType ==
  ASSUME NEW h \in Seq(Entries), NEW n, Candidates(h, n) # {}
  PROVE  Entry(h, n).document \in 0 .. MaxMutations
<1>1. Candidates(h, n) \in SUBSET DOMAIN h
  BY DEF Candidates
<1>2. Choice(h, Candidates(h, n)) \in DOMAIN h
  BY <1>1, LatestIn
<1>3. Entry(h, n) \in Entries
  BY <1>2, LatestIsChoice DEF Entry
<1> QED
  BY <1>3 DEF Entries

Present(h, n) == Candidates(h, n) # {} /\ Entry(h, n).document # None

LEMMA MaterializedIs ==
  ASSUME NEW s, NEW n
  PROVE  Materialized(s, n) = [id \in {x \in Ids : Present(s.history[x], n)} |->
                                 Entry(s.history[id], n).document]
BY DEF Materialized, Present

LEMMA MaterializedType ==
  ASSUME NEW s \in States, NEW n
  PROVE  Materialized(s, n) \in DocSets
<1> DEFINE X == {x \in Ids : Present(s.history[x], n)}
<1>1. ASSUME NEW id \in X PROVE Entry(s.history[id], n).document \in 1 .. MaxMutations
  <2>1. s.history[id] \in Seq(Entries) /\ Candidates(s.history[id], n) # {}
        /\ Entry(s.history[id], n).document # 0
    BY DEF States, Present, None
  <2>2. Entry(s.history[id], n).document \in 0 .. MaxMutations
    BY <2>1, EntryType
  <2> QED BY <2>1, <2>2, BoundAssumption
<1> DEFINE m == [id \in X |-> Entry(s.history[id], n).document]
<1>2. Materialized(s, n) = m
  BY MaterializedIs
<1>3. X \in SUBSET Ids /\ m \in [X -> 1 .. MaxMutations]
  BY <1>1
<1> HIDE DEF m, X
<1> QED
  BY <1>2, <1>3 DEF DocSets

(* A mutation leaves what is materialized for an earlier number.           *)
LEMMA CandidatesAppend ==
  ASSUME NEW h \in Seq(Entries), NEW e \in Entries, NEW n \in Nat, n < e.seq
  PROVE  /\ Candidates(Append(h, e), n) = Candidates(h, n)
         /\ Candidates(h, n) # {} => Entry(Append(h, e), n) = Entry(h, n)
<1> DEFINE g == Append(h, e)
           c == Candidates(h, n)
<1>1. /\ Len(h) \in Nat /\ DOMAIN h = 1 .. Len(h) /\ DOMAIN g = 1 .. Len(h) + 1
      /\ g[Len(h) + 1] = e /\ \A i \in 1 .. Len(h) : g[i] = h[i]
  OBVIOUS
<1> HIDE DEF g
<1>2. e.seq \in Nat
  BY BoundAssumption DEF Entries
<1>3. Candidates(g, n) = c
  BY <1>1, <1>2 DEF Candidates
<1>4. c \in SUBSET DOMAIN h
  BY DEF Candidates
<1>5. Latest(g, c) = Latest(h, c) \/ c = {}
  <2>1. SUFFICES ASSUME c # {} PROVE Latest(g, c) = Latest(h, c)
    OBVIOUS
  <2>2. \A i \in c : g[i] = h[i]
    BY <1>1, <1>4
  <2>3. \A i \in c : Best(g, c, i) <=> Best(h, c, i)
    BY <2>2 DEF Best
  <2>4. Choice(g, c) = Choice(h, c)
    BY <2>3, Zenon DEF Choice
  <2>5. Choice(h, c) \in c
    BY <1>4, <2>1, LatestIn
  <2> QED BY <2>2, <2>4, <2>5, LatestIsChoice
<1> QED
  BY <1>3, <1>5 DEF Entry, g

LEMMA MaterializedSame ==
  ASSUME NEW s, NEW t, NEW n, NEW m,
         \A x \in Ids : Present(s.history[x], n) <=> Present(t.history[x], m),
         \A x \in Ids : Present(s.history[x], n) =>
                         Entry(s.history[x], n) = Entry(t.history[x], m)
  PROVE  Materialized(s, n) = Materialized(t, m)
<1> DEFINE X == {x \in Ids : Present(s.history[x], n)}
           Y == {x \in Ids : Present(t.history[x], m)}
<1>1. X = Y
  OBVIOUS
<1>2. \A x \in X : Entry(s.history[x], n).document = Entry(t.history[x], m).document
  OBVIOUS
<1>3. Materialized(s, n) = [id \in X |-> Entry(s.history[id], n).document]
  BY MaterializedIs, Zenon
<1>4. Materialized(t, m) = [id \in Y |-> Entry(t.history[id], m).document]
  BY MaterializedIs, Zenon
<1> HIDE DEF X, Y
<1> QED
  BY <1>1, <1>2, <1>3, <1>4

Added(r) == [seq |-> r.seq, document |-> r.document]

LEMMA HistoryApplied ==
  ASSUME NEW s \in States, NEW r \in Records, NEW x \in Ids
  PROVE  /\ s.history[x] \in Seq(Entries) /\ Added(r) \in Entries
         /\ Apply(s, r).history[x] =
              IF x = r.id THEN Append(s.history[x], Added(r)) ELSE s.history[x]
<1>1. s.history \in [Ids -> Seq(Entries)]
  BY DEF States
<1>2. Apply(s, r).history = [s.history EXCEPT ![r.id] = Append(@, Added(r))]
  BY DEF Apply, Added
<1>3. Added(r) \in Entries
  BY DEF Records, Entries, Added
<1> QED
  BY <1>1, <1>2, <1>3

(* The history of every state before is that of one branch too.            *)
LEMMA BranchBefore ==
  ASSUME NEW s \in States, NEW r \in Records, OneBranch(Apply(s, r))
  PROVE  /\ OneBranch(s)
         /\ \A x \in Ids : \A i \in DOMAIN s.history[x] : s.history[x][i].seq # r.seq
<1> DEFINE t == Apply(s, r)
<1>1. r.id \in Ids /\ Added(r).seq = r.seq
  BY DEF Records, Added
<1>2. ASSUME NEW x \in Ids
      PROVE  /\ Len(s.history[x]) \in Nat /\ DOMAIN s.history[x] = 1 .. Len(s.history[x])
             /\ DOMAIN s.history[x] \subseteq DOMAIN t.history[x]
             /\ \A i \in DOMAIN s.history[x] : t.history[x][i] = s.history[x][i]
             /\ x = r.id => /\ Len(s.history[x]) + 1 \in DOMAIN t.history[x]
                            /\ t.history[x][Len(s.history[x]) + 1].seq = r.seq
  <2> DEFINE h == s.history[x]
  <2>1. h \in Seq(Entries) /\ Added(r) \in Entries
        /\ t.history[x] = IF x = r.id THEN Append(h, Added(r)) ELSE h
    BY HistoryApplied
  <2> HIDE DEF h, t
  <2>2. /\ Len(h) \in Nat /\ DOMAIN h = 1 .. Len(h)
        /\ DOMAIN Append(h, Added(r)) = 1 .. Len(h) + 1
        /\ Append(h, Added(r))[Len(h) + 1] = Added(r)
        /\ \A i \in 1 .. Len(h) : Append(h, Added(r))[i] = h[i]
    BY <2>1
  <2> QED BY <1>1, <2>1, <2>2 DEF h
<1>3. \A a, b \in Ids : \A i \in DOMAIN t.history[a], j \in DOMAIN t.history[b] :
        t.history[a][i].seq = t.history[b][j].seq => a = b /\ i = j
  BY DEF OneBranch
<1> HIDE DEF t
<1>4. OneBranch(s)
  <2> SUFFICES ASSUME NEW a \in Ids, NEW b \in Ids,
                      NEW i \in DOMAIN s.history[a], NEW j \in DOMAIN s.history[b],
                      s.history[a][i].seq = s.history[b][j].seq
               PROVE  a = b /\ i = j
    BY DEF OneBranch
  <2>1. i \in DOMAIN t.history[a] /\ t.history[a][i] = s.history[a][i]
    BY <1>2
  <2>2. j \in DOMAIN t.history[b] /\ t.history[b][j] = s.history[b][j]
    BY <1>2
  <2> QED BY <1>3, <2>1, <2>2
<1>5. ASSUME NEW x \in Ids, NEW i \in DOMAIN s.history[x], s.history[x][i].seq = r.seq
      PROVE  FALSE
  <2> DEFINE k == Len(s.history[r.id]) + 1
  <2>1. k \in DOMAIN t.history[r.id] /\ t.history[r.id][k].seq = r.seq
    BY <1>1, <1>2
  <2>2. i \in DOMAIN t.history[x] /\ t.history[x][i].seq = r.seq
    BY <1>2, <1>5
  <2>3. x = r.id /\ i = k
    BY <1>1, <1>3, <2>1, <2>2
  <2> QED BY <1>1, <1>2, <1>5, <2>3
<1> QED
  BY <1>4, <1>5

(* A mutation leaves what is materialized for an earlier number.           *)
LEMMA MaterializedEarlier ==
  ASSUME NEW s \in States, NEW r \in Records, NEW n \in Nat, n < r.seq
  PROVE  Materialized(Apply(s, r), n) = Materialized(s, n)
<1>1. ASSUME NEW x \in Ids
      PROVE  /\ Present(s.history[x], n) <=> Present(Apply(s, r).history[x], n)
             /\ Present(s.history[x], n) =>
                  Entry(s.history[x], n) = Entry(Apply(s, r).history[x], n)
  <2> DEFINE h == s.history[x]
             g == Apply(s, r).history[x]
  <2>1. /\ h \in Seq(Entries) /\ Added(r) \in Entries
        /\ g = IF x = r.id THEN Append(h, Added(r)) ELSE h
    BY HistoryApplied
  <2>2. n < Added(r).seq
    BY DEF Added
  <2> HIDE DEF h, g
  <2>3. Candidates(g, n) = Candidates(h, n)
        /\ (Candidates(h, n) # {} => Entry(g, n) = Entry(h, n))
    BY <2>1, <2>2, CandidatesAppend
  <2> QED BY <2>3 DEF Present, h, g
<1> DEFINE t == Apply(s, r)
<1>2. /\ \A x \in Ids : Present(s.history[x], n) <=> Present(t.history[x], n)
      /\ \A x \in Ids : Present(s.history[x], n) => Entry(s.history[x], n) = Entry(t.history[x], n)
  BY <1>1
<1> HIDE DEF t
<1>3. Materialized(s, n) = Materialized(t, n)
  BY <1>2, MaterializedSame
<1> QED
  BY <1>3 DEF t

(* The mutation itself is what is materialized for its number, if no other *)
(* has it.                                                                 *)
LEMMA MaterializedNow ==
  ASSUME NEW s \in States, NEW r \in Records, r.seq = s.seq + 1,
         OneBranch(Apply(s, r)), Materialized(s, s.seq) = s.docs
  PROVE  Materialized(Apply(s, r), r.seq) = Apply(s, r).docs
<1> DEFINE t == Apply(s, r)
           old == s.docs
           X == {x \in Ids : Present(s.history[x], s.seq)}
           Y == {x \in Ids : Present(t.history[x], r.seq)}
<1>1. /\ s.seq \in Nat /\ r.seq \in Nat /\ r.id \in Ids
      /\ Added(r).seq = r.seq /\ Added(r).document = r.document
  BY BoundAssumption DEF States, Records, Added
<1>2. t.docs = With(old, r.id, r.document)
  BY DEF Apply
<1>3. \A x \in Ids : \A i \in DOMAIN s.history[x] : s.history[x][i].seq # r.seq
  BY BranchBefore
<1>4. ASSUME NEW x \in Ids
      PROVE  /\ s.history[x] \in Seq(Entries) /\ Added(r) \in Entries
             /\ t.history[x] = IF x = r.id THEN Append(s.history[x], Added(r)) ELSE s.history[x]
  BY HistoryApplied
<1>5. old = [x \in X |-> Entry(s.history[x], s.seq).document]
  BY MaterializedIs, Zenon
<1>6. Materialized(t, r.seq) = [x \in Y |-> Entry(t.history[x], r.seq).document]
  BY MaterializedIs, Zenon
<1> HIDE DEF t, old
<1>7. ASSUME NEW x \in Ids, x # r.id
      PROVE  /\ Present(t.history[x], r.seq) <=> Present(s.history[x], s.seq)
             /\ Entry(t.history[x], r.seq) = Entry(s.history[x], s.seq)
  <2> DEFINE h == s.history[x]
  <2>1. h \in Seq(Entries) /\ t.history[x] = h /\ \A i \in DOMAIN h : h[i].seq # r.seq
    BY <1>3, <1>4, <1>7
  <2> HIDE DEF h
  <2>2. \A i \in DOMAIN h : h[i] \in Entries
    BY <2>1
  <2>3. \A i \in DOMAIN h : h[i].seq \in Nat
    BY <2>2, BoundAssumption DEF Entries
  <2>4. \A i \in DOMAIN h : h[i].seq <= r.seq <=> h[i].seq <= s.seq
    BY <1>1, <2>1, <2>3
  <2>5. Candidates(h, r.seq) = Candidates(h, s.seq)
    BY <2>4 DEF Candidates
  <2> QED BY <2>1, <2>5 DEF Present, Entry, h
<1>8. /\ Present(t.history[r.id], r.seq) <=> r.document # None
      /\ Entry(t.history[r.id], r.seq).document = r.document
  <2> DEFINE h == s.history[r.id]
             g == t.history[r.id]
             k == Len(h) + 1
  <2>1. /\ h \in Seq(Entries) /\ Added(r) \in Entries /\ g = Append(h, Added(r))
        /\ \A i \in DOMAIN h : h[i].seq # r.seq
    BY <1>1, <1>3, <1>4
  <2> HIDE DEF h, g
  <2>2. /\ g \in Seq(Entries) /\ DOMAIN g = 1 .. k /\ Len(h) \in Nat
        /\ g[k] = Added(r) /\ \A i \in 1 .. Len(h) : g[i] = h[i] /\ i \in DOMAIN h
    BY <2>1
  <2>3. \A i \in DOMAIN g : g[i] \in Entries
    BY <2>2
  <2>4. \A i \in DOMAIN g : g[i].seq \in Nat
    BY <2>3, BoundAssumption DEF Entries
  <2>5. k \in Candidates(g, r.seq) /\ Candidates(g, r.seq) \in SUBSET DOMAIN g
    BY <1>1, <2>2 DEF Candidates
  <2>6. ASSUME NEW j \in Candidates(g, r.seq), j # k PROVE g[j].seq < g[k].seq
    <3>1. j \in 1 .. Len(h) /\ g[j].seq <= r.seq /\ g[j].seq \in Nat
      BY <2>2, <2>4, <2>6 DEF Candidates
    <3>2. g[j].seq # r.seq
      BY <2>1, <2>2, <3>1
    <3> QED BY <1>1, <2>2, <3>1, <3>2
  <2>7. Entry(g, r.seq) = g[k]
    BY <2>2, <2>5, <2>6, LatestIs DEF Entry
  <2> QED BY <1>1, <2>2, <2>5, <2>7 DEF Present, g
<1> DEFINE Z == IF r.document = None THEN X \ {r.id} ELSE X \union {r.id}
<1>9. Y = Z
  BY <1>1, <1>7, <1>8
<1>10. With(old, r.id, r.document) =
         [x \in Z |-> IF x = r.id THEN r.document ELSE Entry(s.history[x], s.seq).document]
  <2>1. DOMAIN old = X /\ \A x \in X : old[x] = Entry(s.history[x], s.seq).document
    BY <1>5
  <2> HIDE DEF X
  <2>2. \A x \in Z : x # r.id => x \in X
    OBVIOUS
  <2> QED BY <2>1, <2>2 DEF With
<1>11. \A x \in Z : Entry(t.history[x], r.seq).document =
                       IF x = r.id THEN r.document ELSE Entry(s.history[x], s.seq).document
  BY <1>1, <1>7, <1>8
<1> HIDE DEF X, Y, Z
<1>12. Materialized(t, r.seq) = t.docs
  BY <1>2, <1>6, <1>9, <1>10, <1>11
<1> QED
  BY <1>12 DEF t

----------------------------------------------------------------------------
(* The invariants.                                                         *)

Snapshots == Contents(States)
Logs      == Contents(Seq(Records))
Manifests == Contents([sequence : Nat, snapshot : Snapshots, wal : Logs])
Dirs      == [snapshot : Snapshots, wal : Logs]
Backups   == [snapshot : Snapshots, wal : Logs, manifest : Manifests]
Jobs      == [command : {"none", "restore", "pitr", "cli"}, dir : Directories,
              seq : 0 .. MaxMutations]

TypeInv ==
  /\ files \in [Directories -> Dirs] /\ active \in Directories /\ backup \in Backups
  /\ pc \in {"idle", "manifest", "wal"} /\ job \in Jobs
  /\ issued \in 0 .. MaxMutations /\ restores \in 0 .. MaxRestores
  /\ timeline \in [Directories -> Seq(DocSets)] /\ captured \in Seq(DocSets)
  /\ \A d \in Directories : Len(timeline[d]) <= issued + 1
  /\ Len(captured) <= issued + 1

Shows(s, tl) == s.seq + 1 = Len(tl) /\ s.docs = tl[Len(tl)]

Exact(s, tl) == \A n \in 0 .. s.seq : Materialized(s, n) = tl[n + 1]

(* A directory has no record beyond what it loads, and, on one branch, its *)
(* history gives back its whole timeline.                                  *)
DirHolds(f, tl) ==
  Opens(f) /\ tl # << >> =>
    /\ \A i \in 1 .. Len(LogOf(f)) : LogOf(f)[i].seq <= Loaded(f).seq
    /\ OneBranch(Loaded(f)) => Shows(Loaded(f), tl) /\ Exact(Loaded(f), tl)

DirInv == \A d \in Directories : DirHolds(files[d], timeline[d])

BackupInv ==
  /\ backup.snapshot.is = "absent" => backup = NoBackup
  /\ backup.snapshot.is # "absent" => captured # << >>
  /\ backup.snapshot.is = "whole" =>
       /\ Shows(backup.snapshot.data, captured)
       /\ OneBranch(backup.snapshot.data) => Exact(backup.snapshot.data, captured)
       /\ backup.wal.is = "whole" =>
            \A i \in 1 .. Len(backup.wal.data) : backup.wal.data[i].seq <= backup.snapshot.data.seq
  /\ backup.manifest.is = "whole" =>
       backup.manifest.data.snapshot.is = "whole" /\ backup.manifest.data.wal.is = "whole"

AsOf(s, n) == [seq |-> n, docs |-> Materialized(s, n), history |-> s.history]

(* The snapshot a restore puts in place, and the number it promises.       *)
Target(command, n, snapshot) ==
  /\ backup.snapshot.is # "absent"
  /\ command = "pitr" =>
       /\ Verified(backup) /\ n <= backup.snapshot.data.seq
       /\ snapshot = Whole(AsOf(backup.snapshot.data, n))
  /\ command # "pitr" => snapshot = backup.snapshot /\ n + 1 = Len(captured)

JobInv ==
  /\ pc = "manifest" => /\ Running /\ backup.manifest = Absent
                        /\ backup.snapshot.is = "whole" /\ backup.wal.is = "whole"
  /\ pc = "wal" => Target(job.command, job.seq, files[job.dir].snapshot)

IInv == TypeInv /\ DirInv /\ BackupInv /\ JobInv

----------------------------------------------------------------------------
(* Directories.                                                            *)

LEMMA EmptyType == Empty \in States
<1>1. NoDocs \in DocSets
  <2>1. NoDocs \in [{} -> 1 .. MaxMutations] /\ {} \in SUBSET Ids
    BY DEF NoDocs
  <2> QED BY <2>1 DEF DocSets
<1>2. 0 \in 0 .. MaxMutations /\ [id \in Ids |-> << >>] \in [Ids -> Seq(Entries)]
  BY BoundAssumption
<1> QED
  BY <1>1, <1>2 DEF Empty, States

LEMMA ContentType ==
  ASSUME NEW S, NEW x \in Contents(S)
  PROVE  x.is \in {"absent", "damaged", "whole"} /\ (x.is = "whole" => x.data \in S)
BY DEF Contents

LEMMA WholeType ==
  ASSUME NEW S, NEW x \in S
  PROVE  Whole(x) \in Contents(S) /\ Whole(x).is = "whole" /\ Whole(x).data = x
BY DEF Contents, Whole

LEMMA AbsentType ==
  ASSUME NEW S
  PROVE  /\ Absent \in Contents(S) /\ Absent.is = "absent"
         /\ Damaged \in Contents(S) /\ Damaged.is = "damaged"
BY DEF Contents, Absent, Damaged

LEMMA LoadedType ==
  ASSUME NEW f \in Dirs, Opens(f)
  PROVE  /\ Base(f) \in States /\ LogOf(f) \in Seq(Records)
         /\ Loaded(f) \in States /\ Loaded(f).seq >= Base(f).seq
         /\ Base(f).seq \in Nat /\ Loaded(f).seq \in Nat
<1>1. f.snapshot \in Contents(States) /\ f.wal \in Contents(Seq(Records))
  BY DEF Dirs, Snapshots, Logs
<1>2. Base(f) \in States
  BY <1>1, ContentType, EmptyType DEF Opens, Base
<1>3. LogOf(f) \in Seq(Records)
  BY <1>1, ContentType DEF Opens, LogOf
<1>4. Len(LogOf(f)) \in 0 .. Len(LogOf(f))
  BY <1>3
<1>5. Loaded(f) \in States /\ Loaded(f).seq >= Base(f).seq
  BY <1>2, <1>3, <1>4, ReplayingTypes DEF Loaded
<1> QED
  BY <1>2, <1>3, <1>5, BoundAssumption DEF States

(* A directory that holds what was taken from a snapshot, or copied with   *)
(* it, loads the snapshot.                                                 *)
LEMMA LoadedBase ==
  ASSUME NEW f \in Dirs, Opens(f),
         \A i \in 1 .. Len(LogOf(f)) : LogOf(f)[i].seq <= Base(f).seq
  PROVE  Loaded(f) = Base(f)
<1>1. Base(f) \in States /\ LogOf(f) \in Seq(Records)
  BY LoadedType
<1>2. Len(LogOf(f)) \in 0 .. Len(LogOf(f))
  BY <1>1
<1> QED
  BY <1>1, <1>2, ReplayingNothing DEF Loaded

LEMMA HoldsSnapshot ==
  ASSUME NEW f \in Dirs, NEW tl, f.snapshot.is = "whole",
         f.wal.is = "whole" =>
           \A i \in 1 .. Len(f.wal.data) : f.wal.data[i].seq <= f.snapshot.data.seq,
         OneBranch(f.snapshot.data) => Shows(f.snapshot.data, tl) /\ Exact(f.snapshot.data, tl)
  PROVE  DirHolds(f, tl) /\ (Opens(f) => Loaded(f) = f.snapshot.data)
<1>1. SUFFICES ASSUME Opens(f) PROVE DirHolds(f, tl) /\ Loaded(f) = f.snapshot.data
  BY DEF DirHolds
<1>2. f.wal \in Contents(Seq(Records))
  BY DEF Dirs, Logs
<1>3. f.wal.is \in {"absent", "whole"}
  BY <1>1, <1>2, ContentType DEF Opens
<1>4. Base(f) = f.snapshot.data
  BY DEF Base
<1>5. \A i \in 1 .. Len(LogOf(f)) : LogOf(f)[i].seq <= Base(f).seq
  <2>1. CASE f.wal.is = "absent"
    <3>1. LogOf(f) = << >>
      BY <2>1 DEF LogOf
    <3> QED BY <3>1
  <2>2. CASE f.wal.is = "whole"
    <3>1. LogOf(f) = f.wal.data
      BY <2>2 DEF LogOf
    <3> QED BY <1>4, <2>2, <3>1
  <2> QED BY <1>3, <2>1, <2>2
<1>6. Loaded(f) = Base(f)
  BY <1>1, <1>5, LoadedBase
<1> QED
  BY <1>4, <1>5, <1>6 DEF DirHolds

(* A mutation of a running database.                                       *)
LEMMA HoldsMutation ==
  ASSUME NEW f \in Dirs, NEW tl \in Seq(DocSets), Opens(f), DirHolds(f, tl), Shows(Loaded(f), tl),
         NEW r \in Records, r.seq = Loaded(f).seq + 1,
         NEW g \in Dirs, g.snapshot = f.snapshot, g.wal = Whole(Append(LogOf(f), r))
  PROVE  LET new == Append(tl, With(Loaded(f).docs, r.id, r.document))
         IN  Opens(g) /\ DirHolds(g, new) /\ Shows(Loaded(g), new)
<1> DEFINE s == Loaded(f)
           t == Apply(s, r)
           new == Append(tl, With(s.docs, r.id, r.document))
<1>1. /\ Base(f) \in States /\ LogOf(f) \in Seq(Records) /\ s \in States
      /\ s.seq >= Base(f).seq /\ Base(f).seq \in Nat /\ s.seq \in Nat
  BY LoadedType
<1>2. /\ Opens(g) /\ Base(g) = Base(f) /\ LogOf(g) = Append(LogOf(f), r)
  BY DEF Opens, Whole, Base, LogOf
<1>3. Len(LogOf(g)) = Len(LogOf(f)) + 1 /\ Len(LogOf(f)) \in Nat
  BY <1>1, <1>2
<1>4. Loaded(g) = After(Base(f), r, s)
  BY <1>1, <1>2, <1>3, ReplayingAppend DEF Loaded
<1>5. Loaded(g) = t
  <2>1. r.seq > Base(f).seq
    BY <1>1
  <2> QED BY <1>4, <2>1 DEF After
<1>6. t.seq = s.seq + 1 /\ t.docs = With(s.docs, r.id, r.document)
  BY DEF Apply
<1>7. s.seq + 1 = Len(tl) /\ s.docs = tl[Len(tl)]
  BY DEF Shows
<1>8. /\ Len(new) = Len(tl) + 1 /\ new[Len(tl) + 1] = t.docs /\ tl # << >>
      /\ \A i \in 1 .. Len(tl) : new[i] = tl[i]
  <2>1. new = Append(tl, t.docs)
    BY <1>6
  <2> HIDE DEF s, t, new
  <2>2. /\ Len(new) = Len(tl) + 1 /\ new[Len(tl) + 1] = t.docs
        /\ \A i \in 1 .. Len(tl) : new[i] = tl[i]
    BY <2>1
  <2>3. Len(tl) # 0
    BY <1>1, <1>7
  <2> QED BY <2>2, <2>3
<1>9. /\ \A i \in 1 .. Len(LogOf(f)) : LogOf(f)[i].seq <= s.seq
      /\ OneBranch(s) => Exact(s, tl)
  BY <1>8 DEF DirHolds
<1> HIDE DEF t, s, new
<1>10. Shows(t, new)
  BY <1>6, <1>7, <1>8 DEF Shows
<1>11. \A i \in 1 .. Len(LogOf(g)) : LogOf(g)[i].seq <= t.seq
  <2> SUFFICES ASSUME NEW i \in 1 .. Len(LogOf(g)) PROVE LogOf(g)[i].seq <= t.seq
    OBVIOUS
  <2>1. CASE i = Len(LogOf(f)) + 1
    <3>1. LogOf(g)[i] = r
      BY <1>1, <1>2, <2>1
    <3> QED BY <1>1, <1>6, <3>1 DEF s
  <2>2. CASE i # Len(LogOf(f)) + 1
    <3>1. i \in 1 .. Len(LogOf(f)) /\ LogOf(g)[i] = LogOf(f)[i]
      BY <1>1, <1>2, <1>3, <2>2
    <3>2. LogOf(f)[i] \in Records
      BY <1>1, <3>1
    <3>3. LogOf(f)[i].seq \in Nat /\ LogOf(f)[i].seq <= s.seq
      BY <1>9, <3>1, <3>2, BoundAssumption DEF Records
    <3> QED BY <1>1, <1>6, <3>1, <3>3
  <2> QED BY <2>1, <2>2
<1>12. ASSUME OneBranch(t) PROVE Exact(t, new)
  <2>1. OneBranch(s)
    BY <1>1, <1>12, BranchBefore DEF t
  <2>2. \A n \in 0 .. s.seq : Materialized(s, n) = tl[n + 1]
    BY <1>9, <2>1 DEF Exact
  <2>3. r.seq = s.seq + 1
    BY DEF s
  <2>4. ASSUME NEW n \in 0 .. s.seq PROVE Materialized(t, n) = new[n + 1]
    <3>1. n \in Nat /\ n < r.seq /\ n + 1 \in 1 .. Len(tl)
      BY <1>1, <1>7, <2>3
    <3>2. Materialized(t, n) = Materialized(s, n)
      BY <1>1, <3>1, MaterializedEarlier DEF t
    <3> QED BY <1>8, <2>2, <3>1, <3>2
  <2>5. Materialized(s, s.seq) = s.docs
    <3>1. s.seq \in 0 .. s.seq
      BY <1>1
    <3> QED BY <1>7, <2>2, <3>1
  <2>6. Materialized(t, r.seq) = t.docs
    BY <1>1, <1>12, <2>3, <2>5, MaterializedNow DEF t
  <2>7. Materialized(t, s.seq + 1) = new[s.seq + 1 + 1]
    BY <1>7, <1>8, <2>3, <2>6
  <2>8. \A n \in 0 .. t.seq : n \in 0 .. s.seq \/ n = s.seq + 1
    BY <1>1, <1>6
  <2> QED BY <2>4, <2>7, <2>8 DEF Exact
<1>13. DirHolds(g, new)
  BY <1>5, <1>10, <1>11, <1>12 DEF DirHolds
<1> QED
  BY <1>2, <1>5, <1>10, <1>13 DEF new, s

(* What a restore promises is what the snapshot it puts in place shows.    *)
LEMMA TargetHolds ==
  ASSUME TypeInv, BackupInv, NEW command, NEW n \in Nat, NEW snapshot \in Snapshots,
         Target(command, n, snapshot)
  PROVE  LET tl == SubSeq(captured, 1, n + 1)
         IN  /\ tl \in Seq(DocSets) /\ Len(tl) = n + 1 /\ n + 1 <= Len(captured)
             /\ snapshot.is = "whole" =>
                  /\ OneBranch(snapshot.data) =>
                       Shows(snapshot.data, tl) /\ Exact(snapshot.data, tl)
                  /\ Verified(backup) /\ OneBranch(backup.snapshot.data) => OneBranch(snapshot.data)
                  /\ command # "pitr" /\ backup.wal.is = "whole" =>
                       \A i \in 1 .. Len(backup.wal.data) :
                         backup.wal.data[i].seq <= snapshot.data.seq
<1> DEFINE tl == SubSeq(captured, 1, n + 1)
           base == backup.snapshot.data
<1>1. captured \in Seq(DocSets) /\ backup.snapshot \in Contents(States)
  BY DEF TypeInv, Backups, Snapshots
<1>2. Verified(backup) => backup.snapshot.is = "whole"
  BY DEF Verified, BackupInv
<1>3. backup.snapshot.is = "whole" =>
        /\ base \in States /\ base.seq \in Nat /\ Shows(base, captured)
        /\ OneBranch(base) => Exact(base, captured)
  <2>1. backup.snapshot.is = "whole" => base \in States
    BY <1>1, ContentType
  <2> QED BY <2>1, BoundAssumption DEF BackupInv, States
<1>4. n + 1 <= Len(captured) /\ n + 1 \in Nat /\ Len(captured) \in Nat
  <2>1. CASE command = "pitr"
    <3>1. backup.snapshot.is = "whole" /\ n <= base.seq
      BY <1>2, <2>1 DEF Target
    <3>2. base.seq \in Nat /\ base.seq + 1 = Len(captured)
      BY <1>3, <3>1 DEF Shows
    <3> QED BY <3>1, <3>2
  <2>2. CASE command # "pitr"
    BY <1>1, <2>2 DEF Target
  <2> QED BY <2>1, <2>2
<1>5. /\ tl \in Seq(DocSets) /\ Len(tl) = n + 1 /\ \A i \in 1 .. n + 1 : tl[i] = captured[i]
  BY <1>1, <1>4
<1> HIDE DEF tl
<1>6. ASSUME snapshot.is = "whole"
      PROVE  /\ OneBranch(snapshot.data) => Shows(snapshot.data, tl) /\ Exact(snapshot.data, tl)
             /\ Verified(backup) /\ OneBranch(base) => OneBranch(snapshot.data)
             /\ command # "pitr" /\ backup.wal.is = "whole" =>
                  \A i \in 1 .. Len(backup.wal.data) : backup.wal.data[i].seq <= snapshot.data.seq
  <2>1. CASE command = "pitr"
    <3> DEFINE s == snapshot.data
    <3>1. backup.snapshot.is = "whole" /\ n <= base.seq /\ snapshot = Whole(AsOf(base, n))
      BY <1>2, <2>1 DEF Target
    <3>2. s.seq = n /\ s.docs = Materialized(base, n) /\ s.history = base.history
      BY <3>1 DEF Whole, AsOf
    <3> HIDE DEF s, base
    <3>3. OneBranch(s) <=> OneBranch(base)
      BY <3>2 DEF OneBranch
    <3>4. ASSUME NEW m \in 0 .. n PROVE Materialized(s, m) = Materialized(base, m)
      BY <3>2 DEF Materialized
    <3>5. ASSUME OneBranch(s), NEW m \in 0 .. n PROVE Materialized(base, m) = tl[m + 1]
      <4>1. m \in 0 .. base.seq /\ m + 1 \in 1 .. n + 1
        BY <1>3, <3>1
      <4>2. Materialized(base, m) = captured[m + 1]
        BY <1>3, <3>1, <3>3, <3>5, <4>1 DEF Exact
      <4> QED BY <1>5, <4>1, <4>2
    <3>6. OneBranch(s) => Shows(s, tl)
      <4>1. n \in 0 .. n
        OBVIOUS
      <4> QED BY <1>5, <3>2, <3>5, <4>1 DEF Shows
    <3>7. OneBranch(s) => Exact(s, tl)
      BY <3>2, <3>4, <3>5 DEF Exact
    <3> QED BY <2>1, <3>3, <3>6, <3>7 DEF s
  <2>2. CASE command # "pitr"
    <3>1. snapshot = backup.snapshot /\ n + 1 = Len(captured)
      BY <2>2 DEF Target
    <3>2. tl = captured
      BY <1>1, <1>5, <3>1
    <3> QED BY <1>3, <1>6, <3>1, <3>2 DEF BackupInv
  <2> QED BY <2>1, <2>2
<1> QED
  BY <1>4, <1>5, <1>6 DEF tl

----------------------------------------------------------------------------
(* Restores begin.                                                         *)

(* A restore command that puts a snapshot into directory d.                *)
Begins(command, d, n, snapshot) ==
  /\ PutSnapshot(command, d, n, snapshot)
  /\ command \in {"restore", "pitr", "cli"} /\ n \in 0 .. MaxMutations
  /\ snapshot \in Snapshots /\ Target(command, n, snapshot)
  /\ command # "cli" => files[d] = NoFiles /\ Verified(backup)

LEMMA VerifiedWhole ==
  ASSUME TypeInv, BackupInv, Verified(backup)
  PROVE  /\ backup.snapshot.is = "whole" /\ backup.wal.is = "whole"
         /\ backup.snapshot.data \in States /\ backup.snapshot.data.seq \in Nat
         /\ backup.snapshot.data.seq + 1 = Len(captured)
<1>1. backup.snapshot.is = "whole" /\ backup.wal.is = "whole"
  BY DEF Verified, BackupInv
<1>2. backup.snapshot.data \in States
  BY <1>1, ContentType DEF TypeInv, Backups, Snapshots
<1> QED
  BY <1>1, <1>2, BoundAssumption DEF BackupInv, Shows, States

LEMMA RestoresBegin ==
  ASSUME TypeInv, BackupInv, NEW d \in Directories,
         BeginRestore(d) \/ BeginCommand(d) \/ \E n \in 0 .. MaxMutations : BeginPointInTime(d, n)
  PROVE  \E command, n, snapshot : Begins(command, d, n, snapshot)
<1>1. backup.snapshot \in Snapshots /\ captured \in Seq(DocSets)
  BY DEF TypeInv, Backups
<1>2. CASE BeginRestore(d)
  <2> DEFINE n == backup.snapshot.data.seq
  <2>1. Verified(backup) /\ files[d] = NoFiles /\ PutSnapshot("restore", d, n, backup.snapshot)
    BY <1>2 DEF BeginRestore
  <2>2. n \in 0 .. MaxMutations /\ n + 1 = Len(captured) /\ backup.snapshot.is = "whole"
    BY <2>1, VerifiedWhole DEF States
  <2> HIDE DEF n
  <2>3. Target("restore", n, backup.snapshot)
    BY <2>2 DEF Target
  <2>4. Begins("restore", d, n, backup.snapshot)
    BY <1>1, <2>1, <2>2, <2>3 DEF Begins
  <2> QED BY <2>4
<1>3. CASE BeginCommand(d)
  <2> DEFINE n == Len(captured) - 1
  <2>1. backup.snapshot.is # "absent" /\ PutSnapshot("cli", d, n, backup.snapshot)
    BY <1>3 DEF BeginCommand
  <2>2. Len(captured) \in 1 .. issued + 1 /\ issued \in 0 .. MaxMutations
    <3>1. captured # << >>
      BY <2>1 DEF BackupInv
    <3>2. Len(captured) \in Nat /\ Len(captured) # 0
      BY <1>1, <3>1
    <3> QED BY <3>2 DEF TypeInv
  <2>3. n \in 0 .. MaxMutations /\ n + 1 = Len(captured)
    BY <2>2, BoundAssumption
  <2> HIDE DEF n
  <2>4. Target("cli", n, backup.snapshot)
    BY <2>1, <2>3 DEF Target
  <2>5. Begins("cli", d, n, backup.snapshot)
    BY <1>1, <2>1, <2>3, <2>4 DEF Begins
  <2> QED BY <2>5
<1>4. ASSUME NEW n \in 0 .. MaxMutations, BeginPointInTime(d, n)
      PROVE  \E command, m, snapshot : Begins(command, d, m, snapshot)
  <2> DEFINE base == backup.snapshot.data
             snapshot == Whole(AsOf(base, n))
  <2>1. /\ Verified(backup) /\ files[d] = NoFiles /\ n <= base.seq
        /\ PutSnapshot("pitr", d, n, snapshot)
    BY <1>4 DEF BeginPointInTime, AsOf
  <2>2. base \in States /\ backup.snapshot.is = "whole"
    BY <2>1, VerifiedWhole
  <2>3. AsOf(base, n) \in States
    <3>1. Materialized(base, n) \in DocSets
      BY <2>2, MaterializedType
    <3> HIDE DEF base
    <3> QED BY <2>2, <3>1 DEF AsOf, States
  <2>4. snapshot \in Snapshots
    BY <2>3, WholeType DEF Snapshots
  <2>5. Target("pitr", n, snapshot)
    BY <2>1, <2>2 DEF Target
  <2> HIDE DEF snapshot
  <2>6. Begins("pitr", d, n, snapshot)
    BY <2>1, <2>4, <2>5 DEF Begins
  <2> QED BY <2>6
<1> QED
  BY <1>2, <1>3, <1>4

----------------------------------------------------------------------------
(* Every step keeps the invariant.                                         *)

LEMMA DirFields ==
  ASSUME NEW f \in Dirs
  PROVE  /\ \A x \in Snapshots : /\ [f EXCEPT !.snapshot = x] \in Dirs
                                /\ [f EXCEPT !.snapshot = x].snapshot = x
                                /\ [f EXCEPT !.snapshot = x].wal = f.wal
         /\ \A w \in Logs : /\ [f EXCEPT !.wal = w] \in Dirs
                           /\ [f EXCEPT !.wal = w].snapshot = f.snapshot
                           /\ [f EXCEPT !.wal = w].wal = w
BY DEF Dirs

(* The directory of the running database.                                  *)
LEMMA RunningShows ==
  ASSUME TypeInv, DirInv, Running
  PROVE  /\ files[active] \in Dirs /\ timeline[active] \in Seq(DocSets)
         /\ Opens(files[active]) /\ Shows(Database, timeline[active])
         /\ timeline[active] # << >> /\ DirHolds(files[active], timeline[active])
         /\ Database \in States /\ Database.seq \in 0 .. issued
         /\ LogOf(files[active]) \in Seq(Records)
<1>1. /\ files[active] \in Dirs /\ timeline[active] \in Seq(DocSets) /\ issued \in Nat
      /\ Len(timeline[active]) <= issued + 1 /\ DirHolds(files[active], timeline[active])
  BY BoundAssumption DEF TypeInv, DirInv
<1>2. /\ Opens(files[active]) /\ Shows(Database, timeline[active])
      /\ Database.seq + 1 = Len(timeline[active])
  BY DEF Running, ShowsTimeline, Shows, Database
<1>3. /\ Database \in States /\ Database.seq \in Nat /\ LogOf(files[active]) \in Seq(Records)
  BY <1>1, <1>2, LoadedType DEF Database
<1>4. timeline[active] # << >> /\ Database.seq \in 0 .. issued
  BY <1>1, <1>2, <1>3
<1> QED
  BY <1>1, <1>2, <1>3, <1>4

LEMMA MutateKeeps ==
  ASSUME IInv, NEW id \in Ids, NEW v \in {issued + 1, None}, Mutate(id, v)
  PROVE  IInv'
<1> DEFINE f == files[active]
           tl == timeline[active]
           r == [seq |-> Database.seq + 1, id |-> id, document |-> v]
           w == Whole(Append(LogOf(f), r))
           g == [f EXCEPT !.wal = w]
           new == Append(tl, With(Database.docs, id, v))
<1>1. TypeInv /\ DirInv /\ BackupInv /\ JobInv /\ Running
  BY DEF IInv, Mutate
<1>2. /\ f \in Dirs /\ tl \in Seq(DocSets) /\ Opens(f) /\ Shows(Loaded(f), tl) /\ DirHolds(f, tl)
      /\ Database \in States /\ Database.seq \in 0 .. issued /\ LogOf(f) \in Seq(Records)
  BY <1>1, RunningShows DEF Database
<1>3. /\ issued \in Nat /\ issued < MaxMutations /\ issued' = issued + 1
      /\ v \in 0 .. MaxMutations /\ active \in Directories
  BY <1>1, BoundAssumption DEF Mutate, TypeInv, None
<1>4. r \in Records /\ r.seq = Loaded(f).seq + 1 /\ r.id = id /\ r.document = v
  BY <1>2, <1>3, BoundAssumption DEF Records, Database
<1>5. w \in Logs
  <2> HIDE DEF r
  <2>1. Append(LogOf(f), r) \in Seq(Records)
    BY <1>2, <1>4
  <2> QED BY <2>1, WholeType DEF Logs
<1>6. files' = [files EXCEPT ![active].wal = w] /\ timeline' = [timeline EXCEPT ![active] = new]
  <2>1. timeline' = [timeline EXCEPT ![active] = Append(@, With(Database.docs, id, v))]
        /\ files' = [files EXCEPT ![active].wal = w]
    BY DEF Mutate
  <2> QED BY <1>1, <1>3, <2>1 DEF TypeInv
<1>7. g \in Dirs /\ g.snapshot = f.snapshot /\ g.wal = w
  BY <1>2, <1>5, DirFields
<1>8. Opens(g) /\ DirHolds(g, new) /\ Shows(Loaded(g), new)
  <2> DEFINE q == r
  <2>1. /\ q \in Records /\ q.seq = Loaded(f).seq + 1 /\ g.wal = Whole(Append(LogOf(f), q))
        /\ new = Append(tl, With(Loaded(f).docs, q.id, q.document))
    BY <1>4, <1>7 DEF Database
  <2> HIDE DEF q, f, g, tl, new, w
  <2>2. LET m == Append(tl, With(Loaded(f).docs, q.id, q.document))
        IN  Opens(g) /\ DirHolds(g, m) /\ Shows(Loaded(g), m)
    BY <1>2, <1>7, <2>1, HoldsMutation
  <2> QED BY <2>1, <2>2
<1>9. new \in Seq(DocSets) /\ Len(new) = Len(tl) + 1
  <2>1. With(Database.docs, id, v) \in DocSets
    BY <1>2, <1>3, WithType DEF States
  <2> DEFINE x == With(Database.docs, id, v)
  <2> HIDE DEF x, tl
  <2> QED BY <1>2, <2>1 DEF x
<1>10. /\ UNCHANGED <<active, backup, pc, job, restores, captured>> /\ pc # "wal"
  BY DEF Mutate
<1>11. /\ files \in [Directories -> Dirs] /\ timeline \in [Directories -> Seq(DocSets)]
       /\ \A d \in Directories : Len(timeline[d]) <= issued + 1
  BY <1>1 DEF TypeInv
<1> HIDE DEF w, new
<1>12. /\ files' \in [Directories -> Dirs] /\ files'[active] = g
       /\ \A d \in Directories : d # active => files'[d] = files[d]
  BY <1>3, <1>6, <1>7, <1>11
<1> HIDE DEF f, g, r
<1>13. /\ timeline' \in [Directories -> Seq(DocSets)] /\ timeline'[active] = new
       /\ \A d \in Directories : d # active => timeline'[d] = timeline[d]
  BY <1>3, <1>6, <1>9, <1>11
<1>14. \A d \in Directories : Len(timeline'[d]) <= issued' + 1
  <2> SUFFICES ASSUME NEW d \in Directories PROVE Len(timeline'[d]) <= issued' + 1
    OBVIOUS
  <2>1. Len(timeline[d]) \in Nat /\ Len(timeline[d]) <= issued + 1
    BY <1>11
  <2> QED BY <1>3, <1>9, <1>13, <2>1
<1>15. TypeInv'
  <2>1. Len(captured) \in Nat /\ Len(captured) <= issued + 1
    BY <1>1 DEF TypeInv
  <2>2. Len(captured') <= issued' + 1 /\ issued' \in 0 .. MaxMutations
    BY <1>3, <1>10, <2>1, BoundAssumption
  <2> QED BY <1>1, <1>10, <1>12, <1>13, <1>14, <2>2 DEF TypeInv
<1>16. DirInv'
  BY <1>1, <1>8, <1>12, <1>13 DEF DirInv
<1>17. BackupInv'
  BY <1>1, <1>10 DEF BackupInv
<1>18. JobInv'
  <2>1. pc' = "manifest" =>
          backup'.manifest = Absent /\ backup'.snapshot.is = "whole" /\ backup'.wal.is = "whole"
    BY <1>1, <1>10 DEF JobInv
  <2>2. Running'
    BY <1>8, <1>10, <1>12, <1>13 DEF Running, ShowsTimeline, Shows
  <2> QED BY <1>10, <2>1, <2>2 DEF JobInv
<1> QED
  BY <1>15, <1>16, <1>17, <1>18 DEF IInv

LEMMA CheckpointKeeps ==
  ASSUME IInv, Checkpoint
  PROVE  IInv'
<1> DEFINE g == [snapshot |-> Whole(Database), wal |-> Whole(<< >>)]
<1>1. TypeInv /\ DirInv /\ BackupInv /\ JobInv /\ Running
  BY DEF IInv, Checkpoint
<1>2. /\ files' = [files EXCEPT ![active] = g] /\ pc = "idle"
      /\ UNCHANGED <<active, backup, pc, job, issued, restores, timeline, captured>>
  BY DEF Checkpoint
<1>3. /\ Opens(files[active]) /\ Shows(Database, timeline[active]) /\ timeline[active] # << >>
      /\ DirHolds(files[active], timeline[active]) /\ Database \in States
  BY <1>1, RunningShows
<1>4. g \in Dirs /\ g.snapshot.is = "whole" /\ g.snapshot.data = Database /\ g.wal.data = << >>
  <2>1. /\ Whole(Database) \in Snapshots /\ Whole(Database).is = "whole"
        /\ Whole(Database).data = Database
    BY <1>3, WholeType DEF Snapshots
  <2>2. << >> \in Seq(Records)
    OBVIOUS
  <2>3. Whole(<< >>) \in Logs /\ Whole(<< >>).data = << >>
    BY <2>2, WholeType DEF Logs
  <2> QED BY <2>1, <2>3 DEF Dirs
<1> HIDE DEF g
<1>5. OneBranch(Database) => Exact(Database, timeline[active])
  BY <1>3 DEF DirHolds, Database
<1>6. \A i \in 1 .. Len(g.wal.data) : g.wal.data[i].seq <= g.snapshot.data.seq
  BY <1>4
<1>7. DirHolds(g, timeline[active])
  BY <1>3, <1>4, <1>5, <1>6, HoldsSnapshot
<1>8. /\ active \in Directories /\ files' \in [Directories -> Dirs] /\ files'[active] = g
      /\ \A d \in Directories : d # active => files'[d] = files[d]
  BY <1>1, <1>2, <1>4 DEF TypeInv
<1>9. TypeInv'
  BY <1>1, <1>2, <1>8 DEF TypeInv
<1>10. DirInv'
  BY <1>1, <1>2, <1>7, <1>8 DEF DirInv
<1>11. BackupInv' /\ JobInv'
  BY <1>1, <1>2 DEF BackupInv, JobInv
<1> QED
  BY <1>9, <1>10, <1>11 DEF IInv

LEMMA SwitchKeeps ==
  ASSUME IInv, NEW d \in Directories, Switch(d)
  PROVE  IInv'
<1>1. /\ TypeInv /\ DirInv /\ BackupInv /\ JobInv /\ active' = d /\ pc = "idle"
      /\ UNCHANGED <<files, backup, pc, job, issued, restores, timeline, captured>>
  BY DEF IInv, Switch
<1>2. TypeInv'
  BY <1>1 DEF TypeInv
<1>3. DirInv' /\ BackupInv' /\ JobInv'
  BY <1>1 DEF DirInv, BackupInv, JobInv
<1> QED
  BY <1>2, <1>3 DEF IInv

LEMMA BackupFilesKeeps ==
  ASSUME IInv, BackupFiles
  PROVE  IInv'
<1> DEFINE snapshot == Whole(Database)
           wal == Whole(LogOf(files[active]))
<1>1. TypeInv /\ DirInv /\ BackupInv /\ JobInv /\ Running /\ backup = NoBackup
  BY DEF IInv, BackupFiles
<1>2. /\ backup' = [NoBackup EXCEPT !.snapshot = snapshot, !.wal = wal]
      /\ captured' = timeline[active] /\ pc' = "manifest"
      /\ UNCHANGED <<files, active, job, issued, restores, timeline>>
  BY DEF BackupFiles
<1>3. /\ Opens(files[active]) /\ Shows(Database, timeline[active]) /\ timeline[active] # << >>
      /\ DirHolds(files[active], timeline[active]) /\ Database \in States
      /\ LogOf(files[active]) \in Seq(Records)
  BY <1>1, RunningShows
<1>4. /\ snapshot \in Snapshots /\ snapshot.is = "whole" /\ snapshot.data = Database
      /\ wal \in Logs /\ wal.is = "whole" /\ wal.data = LogOf(files[active])
  BY <1>3, WholeType DEF Snapshots, Logs
<1>5. /\ \A i \in 1 .. Len(wal.data) : wal.data[i].seq <= Database.seq
      /\ OneBranch(Database) => Exact(Database, timeline[active])
  BY <1>3, <1>4 DEF DirHolds, Database
<1> HIDE DEF snapshot, wal
<1>6. backup' = [snapshot |-> snapshot, wal |-> wal, manifest |-> Absent]
  BY <1>2 DEF NoBackup
<1>7. backup' \in Backups /\ backup'.manifest.is = "absent"
  BY <1>4, <1>6, AbsentType DEF Backups, Manifests
<1>8. TypeInv'
  <2>1. /\ captured' \in Seq(DocSets) /\ Len(captured') <= issued' + 1
    BY <1>1, <1>2 DEF TypeInv
  <2> QED BY <1>1, <1>2, <1>7, <2>1 DEF TypeInv
<1>9. DirInv'
  BY <1>1, <1>2 DEF DirInv
<1>10. BackupInv'
  BY <1>2, <1>3, <1>4, <1>5, <1>6, <1>7 DEF BackupInv
<1>11. JobInv'
  <2>1. Running'
    BY <1>1, <1>2 DEF Running, ShowsTimeline
  <2>2. /\ pc' = "manifest" /\ backup'.manifest = Absent
        /\ backup'.snapshot.is = "whole" /\ backup'.wal.is = "whole"
    <3>1. backup'.snapshot = snapshot /\ backup'.wal = wal /\ backup'.manifest = Absent
      BY <1>6
    <3> QED BY <1>2, <1>4, <3>1
  <2> QED BY <2>1, <2>2, Zenon DEF JobInv
<1> QED
  BY <1>8, <1>9, <1>10, <1>11 DEF IInv

LEMMA WriteManifestKeeps ==
  ASSUME IInv, WriteManifest
  PROVE  IInv'
<1> DEFINE data == [sequence |-> Database.seq, snapshot |-> backup.snapshot, wal |-> backup.wal]
<1>1. /\ TypeInv /\ DirInv /\ BackupInv /\ JobInv /\ Running
      /\ backup.snapshot.is = "whole" /\ backup.wal.is = "whole"
  BY DEF IInv, WriteManifest, JobInv
<1>2. /\ backup' = [backup EXCEPT !.manifest = Whole(data)] /\ pc' = "idle"
      /\ UNCHANGED <<files, active, job, issued, restores, timeline, captured>>
  BY DEF WriteManifest
<1>3. backup \in Backups /\ Database.seq \in Nat
  BY <1>1, RunningShows, BoundAssumption DEF TypeInv
<1>4. data \in [sequence : Nat, snapshot : Snapshots, wal : Logs]
      /\ data.snapshot = backup.snapshot /\ data.wal = backup.wal
  BY <1>3 DEF Backups
<1> HIDE DEF data
<1>5. /\ Whole(data) \in Manifests /\ Whole(data).data = data
  BY <1>4, WholeType DEF Manifests
<1>6. /\ backup' \in Backups /\ backup'.snapshot = backup.snapshot /\ backup'.wal = backup.wal
      /\ backup'.manifest = Whole(data)
  BY <1>2, <1>3, <1>5 DEF Backups
<1>7. TypeInv'
  BY <1>1, <1>2, <1>6 DEF TypeInv
<1>8. DirInv'
  BY <1>1, <1>2 DEF DirInv
<1>9. BackupInv'
  BY <1>1, <1>2, <1>4, <1>5, <1>6 DEF BackupInv
<1>10. JobInv'
  BY <1>2 DEF JobInv
<1> QED
  BY <1>7, <1>8, <1>9, <1>10 DEF IInv

LEMMA NewDestinationKeeps ==
  ASSUME IInv, NewDestination
  PROVE  IInv'
<1>1. /\ TypeInv /\ DirInv /\ pc = "idle" /\ backup' = NoBackup /\ captured' = << >>
      /\ UNCHANGED <<files, active, pc, job, issued, restores, timeline>>
  BY DEF IInv, NewDestination
<1>2. NoBackup \in Backups /\ NoBackup.snapshot.is = "absent" /\ NoBackup.manifest.is = "absent"
  BY AbsentType DEF NoBackup, Backups, Manifests, Snapshots, Logs
<1>3. TypeInv'
  <2>1. captured' \in Seq(DocSets) /\ Len(captured') <= issued' + 1
    BY <1>1, BoundAssumption DEF TypeInv
  <2> QED BY <1>1, <1>2, <2>1 DEF TypeInv
<1>4. DirInv' /\ BackupInv' /\ JobInv'
  BY <1>1, <1>2 DEF DirInv, BackupInv, JobInv
<1> QED
  BY <1>3, <1>4 DEF IInv

LEMMA DamageBackupKeeps ==
  ASSUME IInv, NEW name \in {"snapshot", "wal", "manifest"}, DamageBackup(name)
  PROVE  IInv'
<1>1. /\ TypeInv /\ DirInv /\ BackupInv /\ pc = "idle" /\ backup[name].is = "whole"
      /\ backup' = [backup EXCEPT ![name] = Damaged]
      /\ UNCHANGED <<files, active, pc, job, issued, restores, timeline, captured>>
  BY DEF IInv, DamageBackup
<1>2. backup \in Backups
  BY <1>1 DEF TypeInv
<1>3. /\ Damaged \in Snapshots /\ Damaged \in Logs /\ Damaged \in Manifests
      /\ Damaged.is = "damaged"
  BY AbsentType DEF Snapshots, Logs, Manifests
<1>4. /\ backup' \in Backups
      /\ backup'.snapshot = IF name = "snapshot" THEN Damaged ELSE backup.snapshot
      /\ backup'.wal = IF name = "wal" THEN Damaged ELSE backup.wal
      /\ backup'.manifest = IF name = "manifest" THEN Damaged ELSE backup.manifest
  BY <1>1, <1>2, <1>3 DEF Backups
<1>5. backup.snapshot.is # "absent"
  BY <1>1, AbsentType DEF BackupInv, NoBackup
<1>6. BackupInv'
  BY <1>1, <1>3, <1>4, <1>5 DEF BackupInv
<1>7. TypeInv'
  BY <1>1, <1>4 DEF TypeInv
<1>8. DirInv' /\ JobInv'
  BY <1>1 DEF DirInv, JobInv
<1> QED
  BY <1>6, <1>7, <1>8 DEF IInv

LEMMA KillKeeps ==
  ASSUME IInv, Kill
  PROVE  IInv'
<1>1. /\ TypeInv /\ DirInv /\ BackupInv /\ pc' = "idle" /\ job' = NoJob
      /\ UNCHANGED <<files, active, backup, issued, restores, timeline, captured>>
  BY DEF IInv, Kill
<1>2. NoJob \in Jobs
  BY DirectoriesAssumption, BoundAssumption DEF NoJob, Jobs
<1>3. TypeInv'
  BY <1>1, <1>2 DEF TypeInv
<1>4. DirInv' /\ BackupInv' /\ JobInv'
  BY <1>1 DEF DirInv, BackupInv, JobInv
<1> QED
  BY <1>3, <1>4 DEF IInv

(* A directory into which a restore has put the snapshot, or part of it,   *)
(* holds no more than that; one the CLI copies over shows nothing yet.     *)
LEMMA BeginsKeeps ==
  ASSUME IInv, NEW command, NEW d \in Directories, NEW n, NEW snapshot,
         Begins(command, d, n, snapshot)
  PROVE  IInv'
<1> DEFINE f == files[d]
           tl == IF command = "cli" THEN << >> ELSE SubSeq(captured, 1, n + 1)
<1>1. /\ TypeInv /\ DirInv /\ BackupInv /\ PutSnapshot(command, d, n, snapshot)
      /\ command \in {"restore", "pitr", "cli"} /\ n \in 0 .. MaxMutations /\ n \in Nat
      /\ snapshot \in Snapshots /\ Target(command, n, snapshot)
  BY BoundAssumption DEF IInv, Begins
<1>2. /\ restores < MaxRestores /\ restores' = restores + 1
      /\ timeline' = [timeline EXCEPT ![d] = tl]
      /\ UNCHANGED <<active, backup, issued, captured>>
  BY <1>1 DEF PutSnapshot, HalfRestored, Restored
<1>3. PICK x \in {snapshot, Damaged} :
        /\ files' = [files EXCEPT ![d].snapshot = x]
        /\ \/ x = snapshot /\ pc' = "wal" /\ job' = [command |-> command, dir |-> d, seq |-> n]
           \/ x = Damaged /\ pc' = "idle" /\ job' = job
  BY <1>1 DEF PutSnapshot
<1>4. /\ f \in Dirs /\ x \in Snapshots /\ Damaged.is = "damaged"
  BY <1>1, <1>3, AbsentType DEF TypeInv, Snapshots
<1> DEFINE g == [f EXCEPT !.snapshot = x]
<1>5. g \in Dirs /\ g.snapshot = x /\ g.wal = f.wal
  BY <1>4, DirFields
<1>6. /\ files' \in [Directories -> Dirs] /\ files'[d] = g
      /\ \A e \in Directories : e # d => files'[e] = files[e]
  <2>1. files' = [files EXCEPT ![d] = g]
    BY <1>3
  <2> HIDE DEF g
  <2> QED BY <1>1, <1>5, <2>1 DEF TypeInv
<1>7. LET m == SubSeq(captured, 1, n + 1)
      IN  /\ m \in Seq(DocSets) /\ Len(m) = n + 1 /\ n + 1 <= Len(captured)
          /\ snapshot.is = "whole" /\ OneBranch(snapshot.data) =>
               Shows(snapshot.data, m) /\ Exact(snapshot.data, m)
  BY <1>1, TargetHolds
<1>8. tl \in Seq(DocSets) /\ Len(tl) <= issued + 1
  <2>1. Len(captured) <= issued + 1 /\ Len(captured) \in Nat /\ issued \in Nat
    BY <1>1, BoundAssumption DEF TypeInv
  <2>2. CASE command = "cli"
    <3>1. tl = << >>
      BY <2>2
    <3> HIDE DEF tl
    <3> QED BY <2>1, <3>1
  <2>3. CASE command # "cli"
    <3>1. tl \in Seq(DocSets) /\ Len(tl) = n + 1 /\ n + 1 <= Len(captured)
      BY <1>7, <2>3
    <3> HIDE DEF tl
    <3> QED BY <1>1, <2>1, <3>1
  <2> QED BY <2>2, <2>3
<1>9. DirHolds(g, tl)
  <2>1. CASE x.is = "whole" /\ command # "cli"
    <3>1. x = snapshot /\ f = NoFiles
      BY <1>3, <1>4, <2>1 DEF Begins
    <3>2. g.wal.is = "absent"
      BY <1>5, <3>1, AbsentType DEF NoFiles
    <3>3. OneBranch(g.snapshot.data) => Shows(g.snapshot.data, tl) /\ Exact(g.snapshot.data, tl)
      BY <1>5, <1>7, <2>1, <3>1
    <3> HIDE DEF g, tl
    <3> QED BY <1>5, <2>1, <3>2, <3>3, HoldsSnapshot
  <2>2. CASE x.is = "absent"
    BY <1>1, <1>3, <1>4, <2>2, WholeType DEF Target, Whole
  <2>3. CASE x.is = "damaged" \/ command = "cli"
    BY <1>5, <2>3 DEF DirHolds, Opens
  <2> QED
    <3>1. x.is \in {"absent", "damaged", "whole"}
      BY <1>4, ContentType DEF Snapshots
    <3> QED BY <2>1, <2>2, <2>3, <3>1
<1> HIDE DEF g, tl
<1>10. /\ timeline' \in [Directories -> Seq(DocSets)] /\ timeline'[d] = tl
       /\ \A e \in Directories : e # d => timeline'[e] = timeline[e]
       /\ \A e \in Directories : Len(timeline'[e]) <= issued' + 1
  BY <1>1, <1>2, <1>8 DEF TypeInv
<1>11. TypeInv'
  <2>1. restores' \in 0 .. MaxRestores
    BY <1>1, <1>2, BoundAssumption DEF TypeInv
  <2>2. pc' \in {"idle", "manifest", "wal"} /\ job' \in Jobs
    BY <1>1, <1>3 DEF TypeInv, Jobs
  <2> QED BY <1>1, <1>2, <1>6, <1>10, <2>1, <2>2 DEF TypeInv
<1>12. DirInv'
  BY <1>1, <1>6, <1>9, <1>10 DEF DirInv
<1>13. BackupInv'
  BY <1>1, <1>2 DEF BackupInv
<1>14. JobInv'
  <2>1. CASE pc' = "idle"
    BY <2>1 DEF JobInv
  <2>2. CASE x = snapshot /\ pc' = "wal" /\ job' = [command |-> command, dir |-> d, seq |-> n]
    <3>1. /\ job'.command = command /\ job'.seq = n /\ files'[job'.dir].snapshot = snapshot
      BY <1>5, <1>6, <2>2
    <3>2. Target(command, n, snapshot)'
      BY <1>1, <1>2 DEF Target
    <3> QED BY <2>2, <3>1, <3>2 DEF JobInv, Target
  <2> QED BY <1>3, <2>1, <2>2
<1> QED
  BY <1>11, <1>12, <1>13, <1>14 DEF IInv

(* What PutLog makes of the directory.                                     *)
LEMMA PutLogShows ==
  ASSUME IInv, PutLog
  PROVE  LET tl == SubSeq(captured, 1, job.seq + 1)
         IN  /\ files' \in [Directories -> Dirs]
             /\ \A e \in Directories : e # job.dir => files'[e] = files[e]
             /\ DirHolds(files'[job.dir], tl)
             /\ tl \in Seq(DocSets) /\ Len(tl) <= issued + 1
             /\ Verified(backup) /\ OneBranch(backup.snapshot.data) =>
                  Opens(files'[job.dir]) /\ Shows(Loaded(files'[job.dir]), tl)
<1> DEFINE d == job.dir
           n == job.seq
           snapshot == files[d].snapshot
           tl == SubSeq(captured, 1, n + 1)
           w == IF job.command = "pitr" THEN Whole(<< >>) ELSE backup.wal
           g == [files[d] EXCEPT !.wal = w]
<1>1. /\ TypeInv /\ BackupInv /\ d \in Directories /\ n \in Nat /\ files[d] \in Dirs
      /\ Target(job.command, n, snapshot) /\ snapshot \in Snapshots
  <2>1. TypeInv /\ BackupInv /\ JobInv /\ pc = "wal"
    BY DEF IInv, PutLog
  <2>2. d \in Directories /\ n \in Nat
    BY <2>1, BoundAssumption DEF TypeInv, Jobs
  <2>3. files[d] \in Dirs
    BY <2>1, <2>2 DEF TypeInv
  <2> QED BY <2>1, <2>2, <2>3 DEF JobInv, Dirs
<1>2. w \in Logs /\ (job.command = "pitr" => w.is = "whole" /\ w.data = << >>)
  <2>1. << >> \in Seq(Records)
    OBVIOUS
  <2>2. Whole(<< >>) \in Logs /\ Whole(<< >>).is = "whole" /\ Whole(<< >>).data = << >>
    BY <2>1, WholeType DEF Logs
  <2>3. backup.wal \in Logs
    BY <1>1 DEF TypeInv, Backups
  <2> QED BY <2>2, <2>3
<1>3. g \in Dirs /\ g.snapshot = snapshot /\ g.wal = w
  BY <1>1, <1>2, DirFields
<1>4. /\ files' \in [Directories -> Dirs] /\ files'[d] = g
      /\ \A e \in Directories : e # d => files'[e] = files[e]
  <2>1. files' = [files EXCEPT ![d] = g]
    BY DEF PutLog
  <2> HIDE DEF g, d
  <2> QED BY <1>1, <1>3, <2>1 DEF TypeInv
<1>5. LET m == SubSeq(captured, 1, n + 1)
      IN  /\ m \in Seq(DocSets) /\ Len(m) = n + 1 /\ n + 1 <= Len(captured)
          /\ snapshot.is = "whole" =>
               /\ OneBranch(snapshot.data) => Shows(snapshot.data, m) /\ Exact(snapshot.data, m)
               /\ Verified(backup) /\ OneBranch(backup.snapshot.data) => OneBranch(snapshot.data)
               /\ job.command # "pitr" /\ backup.wal.is = "whole" =>
                    \A i \in 1 .. Len(backup.wal.data) : backup.wal.data[i].seq <= snapshot.data.seq
  <2> HIDE DEF n, snapshot
  <2> QED BY <1>1, TargetHolds
<1>6. /\ tl \in Seq(DocSets) /\ Len(tl) = n + 1 /\ n + 1 <= Len(captured)
      /\ snapshot.is = "whole" =>
           /\ OneBranch(snapshot.data) => Shows(snapshot.data, tl) /\ Exact(snapshot.data, tl)
           /\ Verified(backup) /\ OneBranch(backup.snapshot.data) => OneBranch(snapshot.data)
           /\ job.command # "pitr" /\ backup.wal.is = "whole" =>
                \A i \in 1 .. Len(backup.wal.data) : backup.wal.data[i].seq <= snapshot.data.seq
  BY <1>5, Zenon
<1> HIDE DEF tl
<1>7. Len(tl) <= issued + 1
  BY <1>1, <1>6, BoundAssumption DEF TypeInv
<1>8. ASSUME snapshot.is = "whole"
      PROVE  DirHolds(g, tl) /\ (Opens(g) => Loaded(g) = snapshot.data)
  <2>1. g.wal.is = "whole" =>
          \A i \in 1 .. Len(g.wal.data) : g.wal.data[i].seq <= g.snapshot.data.seq
    <3>1. CASE job.command = "pitr"
      <4>1. Len(g.wal.data) = 0
        BY <1>2, <1>3, <3>1
      <4> HIDE DEF g
      <4> QED BY <4>1
    <3>2. CASE job.command # "pitr"
      <4>1. g.wal = backup.wal
        BY <1>3, <3>2
      <4> HIDE DEF g
      <4> QED BY <1>3, <1>6, <1>8, <3>2, <4>1
    <3> QED BY <3>1, <3>2
  <2>2. OneBranch(g.snapshot.data) => Shows(g.snapshot.data, tl) /\ Exact(g.snapshot.data, tl)
    BY <1>3, <1>6, <1>8
  <2>3. g.snapshot.is = "whole"
    BY <1>3, <1>8
  <2> HIDE DEF g
  <2>4. DirHolds(g, tl) /\ (Opens(g) => Loaded(g) = g.snapshot.data)
    BY <1>3, <2>1, <2>2, <2>3, HoldsSnapshot
  <2> QED BY <1>3, <2>4
<1>9. DirHolds(g, tl)
  <2>1. snapshot.is # "absent"
    BY <1>1 DEF Target, Whole
  <2>2. CASE snapshot.is = "damaged"
    BY <1>3, <2>2 DEF DirHolds, Opens
  <2>3. snapshot.is \in {"absent", "damaged", "whole"}
    BY <1>1, ContentType DEF Snapshots
  <2> QED BY <1>8, <2>1, <2>2, <2>3
<1>10. ASSUME Verified(backup), OneBranch(backup.snapshot.data)
       PROVE  Opens(g) /\ Shows(Loaded(g), tl)
  <2>1. backup.snapshot.is = "whole" /\ backup.wal.is = "whole"
    BY <1>1, <1>10, VerifiedWhole
  <2>2. snapshot.is = "whole"
    BY <1>1, <2>1 DEF Target, Whole
  <2>3. w.is = "whole"
    BY <1>2, <2>1
  <2>4. Opens(g)
    BY <1>3, <2>2, <2>3 DEF Opens
  <2>5. Shows(snapshot.data, tl)
    BY <1>6, <1>10, <2>2
  <2> QED BY <1>8, <2>2, <2>4, <2>5
<1> HIDE DEF g
<1> QED
  BY <1>4, <1>6, <1>7, <1>9, <1>10 DEF tl

LEMMA PutLogKeeps ==
  ASSUME IInv, PutLog
  PROVE  IInv'
<1> DEFINE d == job.dir
           tl == SubSeq(captured, 1, job.seq + 1)
<1>1. /\ TypeInv /\ DirInv /\ BackupInv /\ d \in Directories
      /\ timeline' = [timeline EXCEPT ![d] = tl] /\ pc' = "idle" /\ job' = NoJob
      /\ UNCHANGED <<active, backup, issued, restores, captured>>
  BY DEF IInv, PutLog, Restored, TypeInv, Jobs
<1>2. /\ files' \in [Directories -> Dirs]
      /\ \A e \in Directories : e # d => files'[e] = files[e]
      /\ DirHolds(files'[d], tl) /\ tl \in Seq(DocSets) /\ Len(tl) <= issued + 1
  BY PutLogShows, Zenon
<1> HIDE DEF tl
<1>3. NoJob \in Jobs
  BY DirectoriesAssumption, BoundAssumption DEF NoJob, Jobs
<1>4. /\ timeline' \in [Directories -> Seq(DocSets)] /\ timeline'[d] = tl
      /\ \A e \in Directories : e # d => timeline'[e] = timeline[e]
      /\ \A e \in Directories : Len(timeline'[e]) <= issued' + 1
  BY <1>1, <1>2 DEF TypeInv
<1>5. TypeInv'
  BY <1>1, <1>2, <1>3, <1>4 DEF TypeInv
<1>6. DirInv'
  BY <1>1, <1>2, <1>4 DEF DirInv
<1>7. BackupInv' /\ JobInv'
  BY <1>1 DEF BackupInv, JobInv
<1> QED
  BY <1>5, <1>6, <1>7 DEF IInv

LEMMA NextKeeps == IInv /\ [Next]_vars => IInv'
<1> SUFFICES ASSUME IInv, [Next]_vars PROVE IInv'
  OBVIOUS
<1>1. ASSUME NEW id \in Ids, Mutate(id, issued + 1) \/ Mutate(id, None) PROVE IInv'
  BY <1>1, MutateKeeps
<1>2. ASSUME NEW d \in Directories, Switch(d) PROVE IInv'
  BY <1>2, SwitchKeeps
<1>3. ASSUME NEW name \in {"snapshot", "wal", "manifest"}, DamageBackup(name) PROVE IInv'
  BY <1>3, DamageBackupKeeps
<1>4. ASSUME NEW d \in Directories,
             \/ BeginRestore(d) \/ BeginCommand(d)
             \/ \E n \in 0 .. MaxMutations : BeginPointInTime(d, n)
      PROVE  IInv'
  <2>1. PICK command, n, snapshot : Begins(command, d, n, snapshot)
    BY <1>4, RestoresBegin DEF IInv
  <2> QED BY <2>1, BeginsKeeps
<1>5. CASE Checkpoint \/ BackupFiles \/ WriteManifest \/ NewDestination \/ PutLog \/ Kill
  BY <1>5, CheckpointKeeps, BackupFilesKeeps, WriteManifestKeeps, NewDestinationKeeps, PutLogKeeps,
     KillKeeps
<1>6. CASE UNCHANGED vars
  <2>1. TypeInv' /\ DirInv'
    BY <1>6 DEF vars, IInv, TypeInv, DirInv
  <2>2. BackupInv' /\ JobInv'
    BY <1>6 DEF vars, IInv, BackupInv, JobInv, Target, Running, ShowsTimeline
  <2> QED BY <2>1, <2>2 DEF IInv
<1> QED
  BY <1>1, <1>2, <1>3, <1>4, <1>5, <1>6 DEF Next

LEMMA InitHolds == Init => IInv
<1> SUFFICES ASSUME Init PROVE IInv
  OBVIOUS
<1> DEFINE f == [NoFiles EXCEPT !.wal = Whole(<< >>)]
<1>1. /\ f \in Dirs /\ NoFiles \in Dirs /\ NoBackup \in Backups
      /\ f.snapshot.is = "absent" /\ NoFiles.snapshot.is = "absent" /\ NoFiles.wal.is = "absent"
      /\ f.wal.is = "whole" /\ f.wal.data = << >>
      /\ NoBackup.snapshot.is = "absent" /\ NoBackup.manifest.is = "absent"
  <2>1. << >> \in Seq(Records)
    OBVIOUS
  <2>2. Whole(<< >>) \in Logs /\ Whole(<< >>).is = "whole" /\ Whole(<< >>).data = << >>
    BY <2>1, WholeType DEF Logs
  <2>3. Absent \in Snapshots /\ Absent \in Logs /\ Absent \in Manifests /\ Absent.is = "absent"
    BY AbsentType DEF Snapshots, Logs, Manifests
  <2> QED BY <2>2, <2>3 DEF Dirs, Backups, NoFiles, NoBackup
<1>2. /\ files \in [Directories -> Dirs] /\ \A d \in Directories : files[d] \in {f, NoFiles}
      /\ timeline = [d \in Directories |-> <<NoDocs>>]
  BY <1>1 DEF Init
<1>3. NoDocs \in DocSets /\ Empty \in States
  BY EmptyType DEF Empty, States
<1>4. TypeInv
  <2>1. <<NoDocs>> \in Seq(DocSets) /\ Len(<<NoDocs>>) = 1
    BY <1>3
  <2>2. NoJob \in Jobs
    BY DirectoriesAssumption, BoundAssumption DEF NoJob, Jobs
  <2>3. 0 \in 0 .. MaxMutations /\ 0 \in 0 .. MaxRestores
    BY BoundAssumption
  <2> QED BY <1>1, <1>2, <2>1, <2>2, <2>3, DirectoriesAssumption DEF Init, TypeInv
<1>5. ASSUME NEW d \in Directories PROVE DirHolds(files[d], <<NoDocs>>)
  <2> DEFINE g == files[d]
  <2>1. g \in Dirs /\ Opens(g) /\ Base(g) = Empty /\ LogOf(g) = << >>
    BY <1>1, <1>2 DEF Opens, Base, LogOf
  <2> HIDE DEF g
  <2>2. Loaded(g) = Empty
    BY <2>1, LoadedBase
  <2>3. Empty.seq = 0 /\ Empty.docs = NoDocs /\ \A id \in Ids : Empty.history[id] = << >>
    BY DEF Empty
  <2>4. Materialized(Empty, 0) = NoDocs
    <3>1. \A id \in Ids : ~Present(Empty.history[id], 0)
      <4>1. Candidates(<< >>, 0) = {}
        BY DEF Candidates
      <4> QED BY <2>3, <4>1 DEF Present
    <3>2. {id \in Ids : Present(Empty.history[id], 0)} = {}
      BY <3>1
    <3>3. Materialized(Empty, 0) =
            [id \in {x \in Ids : Present(Empty.history[x], 0)} |->
               Entry(Empty.history[id], 0).document]
      BY MaterializedIs, Zenon
    <3> QED BY <3>2, <3>3 DEF NoDocs
  <2>5. Shows(Empty, <<NoDocs>>) /\ Exact(Empty, <<NoDocs>>)
    BY <2>3, <2>4 DEF Shows, Exact
  <2> QED BY <2>1, <2>2, <2>5 DEF DirHolds, g
<1>6. DirInv
  BY <1>2, <1>5 DEF DirInv
<1>7. BackupInv /\ JobInv
  BY <1>1 DEF Init, BackupInv, JobInv
<1> QED
  BY <1>4, <1>6, <1>7 DEF IInv

LEMMA InvariantHolds == Spec => []IInv
BY InitHolds, NextKeeps, PTL DEF Spec

----------------------------------------------------------------------------
(* The theorems.                                                           *)

(* Every variable keeps its type.                                          *)
THEOREM TypeCorrect == Spec => []TypeOK
<1>1. TypeInv => TypeOK
  <2> SUFFICES ASSUME TypeInv PROVE TypeOK
    OBVIOUS
  <2>1. ASSUME NEW h \in Seq(Entries) PROVE \A i \in DOMAIN h : IsEntry(h[i])
    <3>1. \A i \in DOMAIN h : h[i] \in Entries
      OBVIOUS
    <3> QED BY <3>1 DEF Entries, IsEntry
  <2>2. ASSUME NEW s \in States PROVE IsState(s)
    <3>1. DOMAIN s.history = Ids /\ \A id \in Ids : s.history[id] \in Seq(Entries)
      BY DEF States
    <3> QED BY <2>1, <3>1 DEF States, IsState
  <2>3. ASSUME NEW x \in Snapshots PROVE IsSnapshot(x)
    BY <2>2 DEF Snapshots, Contents, IsSnapshot, Absent, Damaged
  <2>4. ASSUME NEW l \in Seq(Records) PROVE \A i \in DOMAIN l : IsEntry(l[i]) /\ l[i].id \in Ids
    <3>1. \A i \in DOMAIN l : l[i] \in Records
      OBVIOUS
    <3> QED BY <3>1 DEF Records, IsEntry
  <2>5. ASSUME NEW x \in Logs PROVE IsLog(x)
    BY <2>4 DEF Logs, Contents, IsLog, Absent, Damaged
  <2>6. ASSUME NEW d \in Directories PROVE \A i \in DOMAIN timeline[d] : timeline[d][i] \in DocSets
    <3>1. timeline[d] \in Seq(DocSets)
      BY DEF TypeInv
    <3> QED BY <3>1
  <2>7. \A d \in Directories : files[d].snapshot \in Snapshots /\ files[d].wal \in Logs
    BY DEF TypeInv, Dirs
  <2>8. backup.snapshot \in Snapshots /\ backup.wal \in Logs
    BY DEF TypeInv, Backups
  <2>9. job.dir \in Directories /\ job.seq \in 0 .. MaxMutations
    BY DEF TypeInv, Jobs
  <2> QED BY <2>3, <2>5, <2>6, <2>7, <2>8, <2>9 DEF TypeInv, TypeOK
<1> QED
  BY <1>1, InvariantHolds, PTL DEF IInv

(* A directory that opens shows one whole database, never a mix.           *)
THEOREM DirectoriesWhole == Spec => []DirectoryWhole
<1>1. IInv => DirectoryWhole
  BY DEF IInv, DirInv, DirHolds, DirectoryWhole, ShowsTimeline, Shows
<1> QED
  BY <1>1, InvariantHolds, PTL

(* From a backup that verifies, a point-in-time restore yields, for every  *)
(* sequence number it accepts, the documents the database had then.        *)
THEOREM RestoresExact == Spec => []PointInTimeExact
<1>1. IInv => PointInTimeExact
  BY VerifiedWhole DEF IInv, BackupInv, Exact, PointInTimeExact
<1> QED
  BY <1>1, InvariantHolds, PTL

(* A restore from a verified backup that ran to its end leaves a directory *)
(* that opens and shows what was asked for.                                *)
THEOREM RestoresComplete == Spec => RestoreComplete
<1>1. ASSUME IInv, PutLog, NEW d \in Directories, d = job.dir, Verified(backup),
             OneBranch(backup.snapshot.data)
      PROVE  ShowsTimeline(d)'
  <2> DEFINE tl == SubSeq(captured, 1, job.seq + 1)
  <2>1. Opens(files'[job.dir]) /\ Shows(Loaded(files'[job.dir]), tl)
    BY <1>1, PutLogShows, Zenon
  <2>2. timeline'[d] = tl
    BY <1>1 DEF PutLog, Restored, IInv, TypeInv
  <2> HIDE DEF tl
  <2> QED BY <1>1, <2>1, <2>2 DEF ShowsTimeline, Shows
<1>2. IInv /\ [Next]_vars =>
        [\A d \in Directories :
           PutLog /\ d = job.dir /\ Verified(backup) /\ OneBranch(backup.snapshot.data)
             => ShowsTimeline(d)']_vars
  BY <1>1
<1> QED
  BY <1>2, InvariantHolds, PTL DEF Spec, RestoreComplete
=============================================================================
