-------------------------- MODULE HttpServerProofs --------------------------
(***************************************************************************)
(* Proofs about HttpServer, for every number of handlers, tokens, tenants  *)
(* and faults: no conditional update is lost, a status tells the truth,    *)
(* tenants stay apart, a token that was withdrawn has no effect, the types *)
(* are kept, and an answer of two calls lags by what came between them.    *)
(*                                                                         *)
(* The first two follow from IInv: of every handler, what is true of its   *)
(* job at the place of _handle it is at (Honest), and of the data, that a  *)
(* mutation only refers to an earlier version and no document is older     *)
(* than the last mutation of its collection (Latest).  The next two add    *)
(* TenantInv and WithdrawnInv, the last two MomentInv and CountInv.        *)
(***************************************************************************)
EXTENDS HttpServer, FiniteSetTheorems, TLAPS

Commits == [token : Tokens \union {"none"}, scope : Collections, base : Nat]

Fields == {"pc", "op", "token", "base", "past", "late", "status", "outcome", "guarded", "made",
           "seen", "joined", "count", "from", "overtaken", "audited"}

(* A request that has not changed anything yet.                            *)
Fresh(j) == j.made = None /\ j.count = 0 /\ j.audited = {}

Truthful(j) == j.op \in Mutations => (j.count = 1 <=> j.made # None)

Succeeding == {200, 201}
Refusing   == {400, 401, 403, 404, 409, 413, 429}

(* A refusal of what was not done, or a success that could not be written. *)
Refusal(m, j) ==
  \/ j.made = None /\ "success" \notin j.audited
  \/ j.status = 400 /\ j.op \in Returning /\ (m = "security" => j.audited = {"success"})

(* What is true of a handler at each place of _handle.                     *)
Honest(m, j) ==
  /\ DOMAIN j = Fields /\ j.pc \in Steps
  /\ j.token \in Tokens \union {"none"} /\ j.base \in Nat
  /\ j.base # None => j.op = "patch"
  /\ m = "security" /\ j.pc \notin {"idle", "ended"} => j.token \in Tokens
  /\ j.pc \in Steps \ {"record", "send"} => Fresh(j)
  /\ j.pc \in {"count", "report"} => j.op \notin Mutations
  /\ j.pc = "record" =>
       /\ m = "security" /\ j.audited = {}
       /\ \/ j.outcome = "success" /\ j.status \in Succeeding /\ j.guarded /\ Truthful(j)
          \/ j.outcome \in {"denied", "conflict"} /\ j.status \in Refusing /\ j.made = None
  /\ j.pc = "send" =>
       /\ j.status \in Succeeding => Truthful(j) /\ (m = "security" => j.audited = {"success"})
       /\ j.status \in Refusing => Refusal(m, j)

(* A document is the latest mutation of its collection, or was deleted by  *)
(* it; and a mutation can only refer to a version before it.               *)
Latest ==
  /\ \A c \in Collections : docs[c] \in 0 .. Len(commits)
  /\ \A i \in 1 .. Len(commits) :
       /\ commits[i].base < i
       /\ docs[commits[i].scope] = None \/ docs[commits[i].scope] >= i

JobsInv == DOMAIN job = Handlers /\ \A h \in Handlers : Honest(mode, job[h])

DataInv ==
  commits \in Seq(Commits) /\ docs \in [Collections -> Nat] /\ Latest /\ NoLostUpdate

IInv == mode \in {"open", "token", "security"} /\ JobsInv /\ DataInv

----------------------------------------------------------------------------
(* A step of one handler leaves the jobs of the others as they are.        *)
LEMMA JobsKept ==
  ASSUME JobsInv, NEW h \in Handlers, NEW j, Honest(mode, j), Becomes(h, j), mode' = mode
  PROVE  JobsInv'
BY DEF JobsInv, Becomes

(* An answer without an audit record is honest before anything was done.   *)
LEMMA AnswerHonest ==
  ASSUME JobsInv, NEW h \in Handlers, Fresh(job[h]), job[h].pc \in Steps \ {"idle", "ended"},
         NEW status \in Refusing \union {500}, Answer(h, status), mode' = mode
  PROVE  JobsInv'
<1> DEFINE j == [job[h] EXCEPT !.pc = "send", !.status = status]
<1>1. Honest(mode, job[h])
  BY DEF JobsInv
<1>2. /\ DOMAIN j = Fields /\ j.pc = "send" /\ j.status = status /\ j.made = None
      /\ j.audited = {} /\ j.token = job[h].token /\ j.base = job[h].base
      /\ j.op = job[h].op
  BY <1>1 DEF Honest, Fields, Fresh
<1>3. Honest(mode, j)
  BY <1>1, <1>2 DEF Honest, Steps, Refusing, Succeeding, Refusal
<1> QED
  BY <1>3, JobsKept DEF Answer

(* So is one that is audited, and a success if it tells the truth.         *)
LEMMA AuditedHonest ==
  ASSUME NEW j, DOMAIN j = Fields, j.token \in Tokens \union {"none"}, j.base \in Nat,
         j.base # None => j.op = "patch", mode = "security" => j.token \in Tokens,
         j.audited = {},
         NEW status, NEW outcome, NEW guarded,
         \/ outcome = "success" /\ status \in Succeeding /\ guarded = TRUE /\ Truthful(j)
         \/ outcome \in {"denied", "conflict"} /\ status \in Refusing /\ j.made = None
  PROVE  Honest(mode, Audited(j, status, outcome, guarded))
<1> DEFINE r == Audited(j, status, outcome, guarded)
<1>1. /\ DOMAIN r = Fields
      /\ r.pc = IF mode = "security" THEN "record" ELSE "send"
      /\ r.status = status /\ r.outcome = outcome /\ r.guarded = guarded
      /\ r.made = j.made /\ r.count = j.count /\ r.op = j.op /\ r.audited = {}
      /\ r.token = j.token /\ r.base = j.base
  BY DEF Audited, Fields
<1>2. Honest(mode, r)
  BY <1>1 DEF Honest, Steps, Truthful, Succeeding, Refusing, Refusal
<1> QED
  BY <1>2

(* So is a success with a job that is the handler's but for what it found. *)
LEMMA SuccessHonest ==
  ASSUME JobsInv, NEW h \in Handlers, job[h].pc \in Steps \ {"idle", "ended"}, NEW j,
         DOMAIN j = Fields, j.token = job[h].token, j.base \in {job[h].base, None},
         j.op = job[h].op, j.audited = {}, Truthful(j),
         NEW status \in Succeeding, Becomes(h, Succeeded(j, status)), mode' = mode
  PROVE  JobsInv'
<1>1. Honest(mode, job[h])
  BY DEF JobsInv
<1>2. /\ j.token \in Tokens \union {"none"} /\ j.base \in Nat
      /\ j.base # None => j.op = "patch"
      /\ mode = "security" => j.token \in Tokens
  BY <1>1 DEF Honest, None
<1>3. Honest(mode, Succeeded(j, status))
  BY <1>2, AuditedHonest DEF Succeeded
<1> QED
  BY <1>3, JobsKept

(* A conflict changed nothing.                                             *)
LEMMA ConflictHonest ==
  ASSUME JobsInv, NEW h \in Handlers, Fresh(job[h]), job[h].pc \in Steps \ {"idle", "ended"},
         Conflict(h), mode' = mode
  PROVE  JobsInv'
<1>1. Honest(mode, job[h])
  BY DEF JobsInv
<1>2. Honest(mode, Audited(job[h], 409, "conflict", FALSE))
  <2>1. /\ mode = "security" => job[h].token \in Tokens
        /\ 409 \in Refusing /\ job[h].made = None /\ job[h].audited = {}
    BY <1>1 DEF Honest, Fresh, Refusing
  <2>2. /\ DOMAIN job[h] = Fields /\ job[h].token \in Tokens \union {"none"}
        /\ job[h].base \in Nat /\ (job[h].base # None => job[h].op = "patch")
    BY <1>1 DEF Honest
  <2> QED
    BY ZenonT(40), <2>1, <2>2, AuditedHonest
<1> QED
  BY <1>2, JobsKept DEF Conflict

(* Nothing found to change is no change.                                   *)
LEMMA NothingHonest ==
  ASSUME JobsInv, NEW h \in Handlers, job[h].pc = "database", NothingThere(h), mode' = mode
  PROVE  JobsInv'
<1>1. Honest(mode, job[h]) /\ Fresh(job[h]) /\ job[h].pc \in Steps \ {"idle", "ended"}
  BY DEF JobsInv, Honest, Steps
<1>2. CASE Answer(h, 404)
  BY <1>1, <1>2, AnswerHonest DEF Refusing
<1>3. CASE Becomes(h, Succeeded(job[h], 200))
  <2>1. DOMAIN job[h] = Fields /\ job[h].audited = {} /\ Truthful(job[h]) /\ 200 \in Succeeding
    BY <1>1 DEF Honest, Fresh, Truthful, Succeeding
  <2> QED
    BY <1>1, <1>3, <2>1, SuccessHonest
<1> QED
  BY <1>2, <1>3 DEF NothingThere

(* The collection of a request that has reached the database.              *)
LEMMA ScopeType ==
  ASSUME mode \in {"open", "token", "security"}, NEW j, Honest(mode, j), j.pc = "database"
  PROVE  Scope(j) \in Collections
BY DEF Scope, Honest, Collections

(* The heart of the argument: a mutation appended with the version it      *)
(* found, or with none, is the only one of that version.                   *)
LEMMA AppendKeeps ==
  ASSUME DataInv, NEW e \in Commits, e.base \in {None, docs[e.scope]},
         NEW version \in {None, Len(commits) + 1},
         commits' = Append(commits, e), docs' = [docs EXCEPT ![e.scope] = version]
  PROVE  DataInv'
<1> DEFINE n == Len(commits)
<1>1. /\ e.scope \in Collections /\ e.base \in Nat
      /\ n \in Nat /\ docs[e.scope] \in 0 .. n
  BY DEF Commits, DataInv, Latest
<1>2. /\ commits' \in Seq(Commits) /\ Len(commits') = n + 1 /\ commits'[n + 1] = e
      /\ \A i \in 1 .. n : commits'[i] = commits[i]
  <2>1. commits \in Seq(Commits)
    BY DEF DataInv
  <2> QED
    BY <2>1
<1>3. /\ docs' \in [Collections -> Nat]
      /\ \A c \in Collections : docs'[c] = IF c = e.scope THEN version ELSE docs[c]
  BY <1>1 DEF DataInv, None
<1>4. Latest'
  <2>1. ASSUME NEW c \in Collections PROVE docs'[c] \in 0 .. Len(commits')
    BY <1>1, <1>2, <1>3 DEF DataInv, Latest, None
  <2>2. ASSUME NEW i \in 1 .. Len(commits')
        PROVE  /\ commits'[i].base < i
               /\ docs'[commits'[i].scope] = None \/ docs'[commits'[i].scope] >= i
    <3>1. CASE i = n + 1
      BY <1>1, <1>2, <1>3, <3>1 DEF None
    <3>2. CASE i \in 1 .. n
      <4>1. commits'[i] = commits[i]
        BY <1>2, <3>2
      <4>2. commits[i].scope \in Collections
        <5>1. commits[i] \in Commits
          BY <3>2 DEF DataInv
        <5> QED
          BY <5>1 DEF Commits
      <4> QED
        BY <1>1, <1>3, <3>2, <4>1, <4>2 DEF DataInv, Latest, None
    <3> QED
      BY <1>1, <1>2, <2>2, <3>1, <3>2
  <2> QED
    BY <2>1, <2>2 DEF Latest
<1>5. NoLostUpdate'
  <2>1. \A i \in 1 .. n :
          commits[i].base # None /\ commits[i].scope = e.scope => commits[i].base # e.base
    BY <1>1 DEF DataInv, Latest, Commits, None
  <2> SUFFICES ASSUME NEW i \in 1 .. n + 1, NEW j \in 1 .. n + 1,
                      commits'[i].base # None, commits'[i].base = commits'[j].base,
                      commits'[i].scope = commits'[j].scope
               PROVE  i = j
    BY <1>1, <1>2 DEF NoLostUpdate
  <2>2. CASE i \in 1 .. n /\ j \in 1 .. n
    BY <1>2, <2>2 DEF DataInv, NoLostUpdate
  <2>3. CASE i \in 1 .. n /\ j = n + 1
    BY <1>2, <2>1, <2>3
  <2>4. CASE i = n + 1 /\ j \in 1 .. n
    BY <1>2, <2>1, <2>4
  <2>5. CASE i = n + 1 /\ j = n + 1
    BY <2>5
  <2> QED
    BY <1>1, <2>2, <2>3, <2>4, <2>5
<1> QED
  BY <1>2, <1>3, <1>4, <1>5 DEF DataInv

(* A mutation that passed its checks keeps both halves of the invariant.   *)
LEMMA MutateKeeps ==
  ASSUME IInv, NEW h \in Handlers, job[h].pc = "database", mode' = mode,
         job[h].base \in {None, Version(h)}, NEW version \in {None, Len(commits) + 1},
         NEW status \in Succeeding, Mutate(h, version, status)
  PROVE  JobsInv' /\ DataInv'
<1>1. Honest(mode, job[h]) /\ Fresh(job[h]) /\ job[h].pc \in Steps \ {"idle", "ended"}
  BY DEF IInv, JobsInv, Honest, Steps
<1>2. CASE dbOpen
  <2> DEFINE j == [job[h] EXCEPT !.made = Len(commits) + 1, !.base = None, !.count = 1]
             e == [token |-> job[h].token, scope |-> Scope(job[h]), base |-> job[h].base]
  <2>1. /\ DOMAIN j = Fields /\ j.token = job[h].token /\ j.base = None
        /\ j.op = job[h].op /\ j.audited = {} /\ j.made = Len(commits) + 1 /\ j.count = 1
    BY <1>1 DEF Honest, Fields, Fresh
  <2>2. Truthful(j)
    <3>1. Len(commits) \in Nat
      BY DEF IInv, DataInv
    <3> QED
      BY <2>1, <3>1 DEF Truthful, None
  <2>3. JobsInv'
    <3>1. Becomes(h, Succeeded(j, status))
      BY <1>2 DEF Mutate
    <3> QED
      BY <1>1, <2>1, <2>2, <3>1, SuccessHonest DEF IInv
  <2>4. e \in Commits
    BY <1>1, ScopeType DEF IInv, Commits, Honest
  <2>5. DataInv'
    BY <1>2, <2>4, AppendKeeps DEF IInv, Mutate, Version
  <2> QED
    BY <2>3, <2>5
<1>3. CASE ~dbOpen
  <2>1. JobsInv'
    BY <1>1, <1>3, AnswerHonest DEF Mutate, Refusing, IInv
  <2>2. DataInv'
    BY <1>3 DEF Mutate, IInv, DataInv, dataVars, Latest, NoLostUpdate
  <2> QED
    BY <2>1, <2>2
<1> QED
  BY <1>2, <1>3

(* Going on to a place before the answer.                                  *)
LEMMA MoveHonest ==
  ASSUME JobsInv, NEW h \in Handlers, Fresh(job[h]), job[h].pc \in Steps \ {"idle", "ended"}, NEW j,
         DOMAIN j = Fields, j.pc \in Steps \ {"record", "send"}, Fresh(j),
         j.token = job[h].token, j.base \in Nat, j.base # None => j.op = "patch",
         j.op = job[h].op, j.pc \in {"count", "report"} => j.op \notin Mutations,
         Becomes(h, j), mode' = mode
  PROVE  JobsInv'
<1>1. Honest(mode, job[h])
  BY DEF JobsInv
<1>2. Honest(mode, j)
  BY <1>1 DEF Honest
<1> QED
  BY <1>2, JobsKept

(* Most steps do not touch the data.                                       *)
LEMMA DataKept ==
  ASSUME DataInv, UNCHANGED dataVars
  PROVE  DataInv'
BY DEF DataInv, dataVars, Latest, NoLostUpdate

(* The jobs of a handler that has done nothing yet.                        *)
LEMMA BeforeAnswer ==
  ASSUME JobsInv, NEW h \in Handlers,
         job[h].pc \in {"limit", "authorize", "body", "database", "count", "report"}
  PROVE  /\ Honest(mode, job[h]) /\ Fresh(job[h]) /\ DOMAIN job[h] = Fields
         /\ job[h].pc \in Steps \ {"idle", "ended"}
BY DEF JobsInv, Honest, Steps

----------------------------------------------------------------------------
(* One lemma for each action of a handler.                                 *)

LEMMA AcceptKeeps ==
  ASSUME IInv, NEW h \in Handlers, NEW op \in Ops, NEW t \in Tokens \union {"none"},
         Accept(h, op, t)
  PROVE  JobsInv'
<1> DEFINE j == [Idle EXCEPT !.pc = "limit", !.op = op, !.token = t,
                             !.from = IF op = "checkpoint" THEN Len(commits) ELSE 0,
                             !.late = t \notin valid]
<1>1. /\ DOMAIN j = Fields /\ j.pc = "limit" /\ j.op = op /\ j.token = t /\ j.base = None
      /\ j.made = None /\ j.count = 0 /\ j.audited = {}
  BY DEF Idle, Fields
<1>2. (mode = "security" => t \in Tokens) /\ Becomes(h, j) /\ mode' = mode
  BY DEF Accept, serverVars
<1>3. Honest(mode, j)
  BY <1>1, <1>2 DEF Honest, Steps, Fresh, None
<1> QED
  BY <1>2, <1>3, JobsKept DEF IInv

LEMMA LimitKeeps ==
  ASSUME IInv, NEW h \in Handlers, Limit(h)
  PROVE  JobsInv'
<1>1. job[h].pc = "limit" /\ mode' = mode /\ JobsInv
  BY DEF Limit, At, serverVars, IInv
<1>2. CASE Becomes(h, [job[h] EXCEPT !.pc = "authorize"])
  <2> DEFINE j == [job[h] EXCEPT !.pc = "authorize"]
  <2>1. /\ DOMAIN j = Fields /\ j.pc = "authorize" /\ j.token = job[h].token /\ j.op = job[h].op
        /\ j.base = job[h].base /\ Fresh(j)
    BY <1>1, BeforeAnswer DEF Fields, Fresh
  <2>2. j.base \in Nat /\ (j.base # None => j.op = "patch")
    BY <1>1, <2>1 DEF JobsInv, Honest
  <2> QED
    BY <1>1, <1>2, <2>1, <2>2, BeforeAnswer, MoveHonest DEF Steps
<1>3. CASE Answer(h, 429)
  BY <1>1, <1>3, BeforeAnswer, AnswerHonest DEF Refusing
<1> QED
  BY <1>2, <1>3 DEF Limit

LEMMA AuthorizeKeeps ==
  ASSUME IInv, NEW h \in Handlers, Authorize(h)
  PROVE  JobsInv'
<1>1. /\ job[h].pc = "authorize" /\ mode' = mode /\ JobsInv
      /\ Honest(mode, job[h]) /\ Fresh(job[h]) /\ DOMAIN job[h] = Fields
  BY BeforeAnswer DEF Authorize, At, serverVars, IInv
<1>2. ASSUME NEW status \in {401, 403}, NEW guarded,
             Becomes(h, Audited(job[h], status, "denied", guarded))
      PROVE  JobsInv'
  <2>1. /\ mode = "security" => job[h].token \in Tokens
        /\ status \in Refusing /\ job[h].made = None /\ job[h].audited = {}
    BY <1>1 DEF Honest, Fresh, Refusing
  <2>2. /\ job[h].token \in Tokens \union {"none"}
        /\ job[h].base \in Nat /\ (job[h].base # None => job[h].op = "patch")
    BY <1>1 DEF Honest
  <2>3. Honest(mode, Audited(job[h], status, "denied", guarded))
    BY <1>1, <2>1, <2>2, AuditedHonest
  <2> QED
    BY <1>1, <1>2, <2>3, JobsKept
<1>3. ASSUME NEW l \in {"body", "database"}, Becomes(h, [job[h] EXCEPT !.pc = l])
      PROVE  JobsInv'
  <2> DEFINE j == [job[h] EXCEPT !.pc = l]
  <2>1. /\ DOMAIN j = Fields /\ j.pc = l /\ j.token = job[h].token /\ j.op = job[h].op
        /\ j.base = job[h].base /\ Fresh(j)
    BY <1>1 DEF Fields, Fresh
  <2>2. j.base \in Nat /\ (j.base # None => j.op = "patch")
    BY <1>1, <2>1 DEF Honest
  <2> QED
    BY <1>1, <1>3, <2>1, <2>2, BeforeAnswer, MoveHonest DEF Steps
<1>4. Dispatched(job[h].op) \subseteq {"body", "database"}
  BY DEF Dispatched
<1>5. CASE ~Authenticates(job[h])
  BY ZenonT(40), <1>2, <1>5 DEF Authorize
<1>6. CASE Authenticates(job[h]) /\ ~Authorized(job[h])
  <2>1. Becomes(h, Audited(job[h], 403, "denied", FALSE))
    BY <1>6 DEF Authorize
  <2> QED
    BY <1>2, <2>1
<1>7. CASE Authenticates(job[h]) /\ Authorized(job[h])
  BY <1>3, <1>4, <1>7 DEF Authorize
<1> QED
  BY <1>5, <1>6, <1>7

LEMMA BodyKeeps ==
  ASSUME IInv, NEW h \in Handlers, ReadBody(h) \/ Stall(h)
  PROVE  JobsInv'
<1>1. job[h].pc = "body" /\ mode' = mode /\ JobsInv
  BY DEF ReadBody, Stall, At, serverVars, IInv
<1>2. ASSUME NEW l \in {"database", "stalled"}, Becomes(h, [job[h] EXCEPT !.pc = l])
      PROVE  JobsInv'
  <2> DEFINE j == [job[h] EXCEPT !.pc = l]
  <2>1. /\ DOMAIN j = Fields /\ j.pc = l /\ j.token = job[h].token /\ j.op = job[h].op
        /\ j.base = job[h].base /\ Fresh(j)
    BY <1>1, BeforeAnswer DEF Fields, Fresh
  <2>2. j.base \in Nat /\ (j.base # None => j.op = "patch")
    BY <1>1, <2>1 DEF JobsInv, Honest
  <2> QED
    BY <1>1, <1>2, <2>1, <2>2, BeforeAnswer, MoveHonest DEF Steps
<1>3. ASSUME NEW b \in IF job[h].op = "patch" THEN 0 .. Len(commits) ELSE {None},
             Becomes(h, [job[h] EXCEPT !.pc = "database", !.base = b])
      PROVE  JobsInv'
  <2> DEFINE j == [job[h] EXCEPT !.pc = "database", !.base = b]
  <2>1. b \in Nat /\ (b # None => job[h].op = "patch")
    BY DEF IInv, DataInv, None
  <2>2. /\ DOMAIN j = Fields /\ j.pc = "database" /\ j.token = job[h].token /\ j.op = job[h].op
        /\ j.base = b /\ Fresh(j)
    BY <1>1, BeforeAnswer DEF Fields, Fresh
  <2> QED
    BY <1>1, <1>3, <2>1, <2>2, BeforeAnswer, MoveHonest DEF Steps
<1>4. ASSUME NEW status \in {400, 413, 500}, Answer(h, status) PROVE JobsInv'
  BY <1>1, <1>4, BeforeAnswer, AnswerHonest DEF Refusing
<1>5. CASE Stall(h)
  BY <1>2, <1>5 DEF Stall
<1>6. CASE ReadBody(h)
  <2>1. \/ \E b \in IF job[h].op = "patch" THEN 0 .. Len(commits) ELSE {None} :
             Becomes(h, [job[h] EXCEPT !.pc = "database", !.base = b])
        \/ Answer(h, 400) \/ Answer(h, 413) \/ Answer(h, 500)
    BY ZenonT(40), <1>6 DEF ReadBody
  <2>2. CASE Answer(h, 400) \/ Answer(h, 413) \/ Answer(h, 500)
    BY <1>4, <2>2
  <2>3. CASE \E b \in IF job[h].op = "patch" THEN 0 .. Len(commits) ELSE {None} :
               Becomes(h, [job[h] EXCEPT !.pc = "database", !.base = b])
    <3>1. PICK b \in IF job[h].op = "patch" THEN 0 .. Len(commits) ELSE {None} :
            Becomes(h, [job[h] EXCEPT !.pc = "database", !.base = b])
      BY <2>3
    <3> QED
      BY ZenonT(40), <1>3, <3>1
  <2> QED
    BY <2>1, <2>2, <2>3
<1> QED
  BY <1>5, <1>6

LEMMA FindKeeps ==
  ASSUME IInv, NEW h \in Handlers, Find(h)
  PROVE  JobsInv'
<1>1. /\ job[h].pc = "database" /\ job[h].op = "list" /\ mode' = mode /\ JobsInv
      /\ Honest(mode, job[h])
  BY DEF Find, Calls, At, serverVars, IInv, JobsInv
<1>2. PICK past \in BOOLEAN :
        Becomes(h, [job[h] EXCEPT !.pc = "count", !.from = Len(commits), !.past = past,
                                  !.seen = IF past THEN None ELSE Version(h)])
  BY DEF Find
<1> DEFINE j == [job[h] EXCEPT !.pc = "count", !.from = Len(commits), !.past = past,
                               !.seen = IF past THEN None ELSE Version(h)]
<1>3. /\ DOMAIN j = Fields /\ j.pc = "count" /\ j.token = job[h].token /\ j.op = "list"
      /\ j.base = job[h].base /\ Fresh(j)
  BY <1>1, BeforeAnswer DEF Fields, Fresh
<1>4. j.base \in Nat /\ (j.base # None => j.op = "patch")
  BY <1>1, <1>3 DEF Honest
<1> QED
  BY <1>1, <1>2, <1>3, <1>4, BeforeAnswer, MoveHonest DEF Steps, Mutations

(* Count and Report end what Find and Checkpoint began.                    *)
LEMMA SecondCallKeeps ==
  ASSUME IInv, NEW h \in Handlers, Count(h) \/ Report(h)
  PROVE  JobsInv'
<1>1. /\ job[h].pc \in {"count", "report"} /\ mode' = mode /\ JobsInv
      /\ Honest(mode, job[h]) /\ Fresh(job[h]) /\ DOMAIN job[h] = Fields
      /\ job[h].pc \in Steps \ {"idle", "ended"}
  BY BeforeAnswer DEF Count, Report, At, serverVars, IInv
<1>2. job[h].op \notin Mutations
  BY <1>1 DEF Honest
<1>3. ASSUME NEW from, NEW overtaken, NEW count,
             Becomes(h, Succeeded([job[h] EXCEPT !.from = from, !.overtaken = overtaken,
                                                 !.count = count], 200))
      PROVE  JobsInv'
  <2> DEFINE j == [job[h] EXCEPT !.from = from, !.overtaken = overtaken, !.count = count]
  <2>1. /\ DOMAIN j = Fields /\ j.token = job[h].token /\ j.op = job[h].op
        /\ j.base = job[h].base /\ j.audited = {}
    BY <1>1 DEF Fields, Fresh
  <2>2. Truthful(j) /\ 200 \in Succeeding
    BY <1>2, <2>1 DEF Truthful, Succeeding
  <2> QED
    BY <1>1, <1>3, <2>1, <2>2, SuccessHonest
<1>4. CASE Count(h)
  BY ZenonT(40), <1>3, <1>4 DEF Count
<1>5. CASE Report(h)
  <2>1. [job[h] EXCEPT !.count = Len(commits)]
          = [job[h] EXCEPT !.from = job[h].from, !.overtaken = job[h].overtaken,
                           !.count = Len(commits)]
    BY <1>1 DEF Fields
  <2> QED
    BY ZenonT(40), <1>3, <1>5, <2>1 DEF Report
<1> QED
  BY <1>4, <1>5

LEMMA GetKeeps ==
  ASSUME IInv, NEW h \in Handlers, Get(h)
  PROVE  JobsInv'
<1>1. /\ job[h].pc = "database" /\ job[h].op = "get" /\ mode' = mode /\ JobsInv
      /\ Fresh(job[h]) /\ DOMAIN job[h] = Fields /\ job[h].pc \in Steps \ {"idle", "ended"}
  BY BeforeAnswer DEF Get, Calls, At, serverVars, IInv
<1>2. CASE Version(h) = None
  BY <1>1, <1>2, AnswerHonest DEF Get, Refusing
<1>3. CASE Version(h) # None
  <2> DEFINE j == [job[h] EXCEPT !.seen = Version(h)]
  <2>1. /\ DOMAIN j = Fields /\ j.token = job[h].token /\ j.op = job[h].op
        /\ j.base = job[h].base /\ j.audited = {}
    BY <1>1 DEF Fields, Fresh
  <2>2. Truthful(j) /\ 200 \in Succeeding /\ Becomes(h, Succeeded(j, 200))
    BY <1>1, <1>3, <2>1 DEF Truthful, Succeeding, Mutations, Get
  <2> QED
    BY <1>1, <2>1, <2>2, SuccessHonest
<1> QED
  BY <1>2, <1>3

LEMMA InsertKeeps ==
  ASSUME IInv, NEW h \in Handlers, Insert(h)
  PROVE  JobsInv' /\ DataInv'
<1>1. /\ job[h].pc = "database" /\ mode' = mode /\ JobsInv /\ DataInv
      /\ Honest(mode, job[h]) /\ Fresh(job[h]) /\ job[h].pc \in Steps \ {"idle", "ended"}
  BY BeforeAnswer DEF Insert, Calls, At, serverVars, IInv
<1>2. CASE Version(h) # None
  BY <1>1, <1>2, ConflictHonest, DataKept DEF Insert
<1>3. CASE Version(h) = None
  <2>1. job[h].base = None /\ 201 \in Succeeding
    BY <1>1 DEF Honest, Insert, Calls, Succeeding
  <2> QED
    BY <1>1, <1>3, <2>1, MutateKeeps DEF Insert
<1> QED
  BY <1>2, <1>3

LEMMA PatchKeeps ==
  ASSUME IInv, NEW h \in Handlers, Patch(h)
  PROVE  JobsInv' /\ DataInv'
<1>1. /\ job[h].pc = "database" /\ mode' = mode /\ JobsInv /\ DataInv /\ 200 \in Succeeding
      /\ Fresh(job[h]) /\ job[h].pc \in Steps \ {"idle", "ended"}
  BY BeforeAnswer DEF Patch, Calls, At, serverVars, IInv, Succeeding
<1>2. CASE Version(h) = None
  <2>1. NothingThere(h) \/ (job[h].base = None /\ Mutate(h, Len(commits) + 1, 200))
    BY <1>2 DEF Patch
  <2>2. CASE NothingThere(h)
    BY <1>1, <2>2, NothingHonest, DataKept DEF NothingThere
  <2>3. CASE job[h].base = None /\ Mutate(h, Len(commits) + 1, 200)
    BY <1>1, <2>3, MutateKeeps
  <2> QED
    BY <2>1, <2>2, <2>3
<1>3. CASE Version(h) # None /\ job[h].base \notin {None, Version(h)}
  <2>1. Conflict(h) /\ UNCHANGED dataVars
    BY <1>3 DEF Patch
  <2> QED
    BY <1>1, <2>1, ConflictHonest, DataKept
<1>4. CASE Version(h) # None /\ job[h].base \in {None, Version(h)}
  <2>1. Mutate(h, Len(commits) + 1, 200)
    BY <1>4 DEF Patch
  <2> QED
    BY <1>1, <1>4, <2>1, MutateKeeps
<1> QED
  BY <1>2, <1>3, <1>4

LEMMA DeleteKeeps ==
  ASSUME IInv, NEW h \in Handlers, Delete(h)
  PROVE  JobsInv' /\ DataInv'
<1>1. /\ job[h].pc = "database" /\ mode' = mode /\ JobsInv /\ DataInv
      /\ Honest(mode, job[h])
  BY BeforeAnswer DEF Delete, Calls, At, serverVars, IInv
<1>2. CASE Version(h) = None
  <2>1. NothingThere(h)
    BY <1>2 DEF Delete
  <2> QED
    BY <1>1, <2>1, NothingHonest, DataKept DEF NothingThere
<1>3. CASE Version(h) # None
  <2>1. job[h].base = None /\ 200 \in Succeeding /\ Mutate(h, None, 200)
    BY <1>1, <1>3 DEF Honest, Delete, Calls, Succeeding
  <2> QED
    BY <1>1, <2>1, MutateKeeps
<1> QED
  BY <1>2, <1>3

(* An aggregation changes what its job has seen, and no document.          *)
LEMMA AggregateKeeps ==
  ASSUME IInv, NEW h \in Handlers, Aggregate(h)
  PROVE  JobsInv'
<1>1. /\ job[h].pc = "database" /\ job[h].op \in Aggregates /\ mode' = mode /\ JobsInv
      /\ Fresh(job[h]) /\ DOMAIN job[h] = Fields /\ job[h].pc \in Steps \ {"idle", "ended"}
  BY BeforeAnswer DEF Aggregate, At, serverVars, IInv
<1>2. PICK own, joined :
        Becomes(h, Succeeded([job[h] EXCEPT !.seen = own, !.joined = joined], 200))
  BY DEF Aggregate
<1> DEFINE j == [job[h] EXCEPT !.seen = own, !.joined = joined]
<1>3. /\ DOMAIN j = Fields /\ j.token = job[h].token /\ j.op = job[h].op
      /\ j.base = job[h].base /\ j.audited = {}
  BY <1>1 DEF Fields, Fresh
<1>4. Truthful(j) /\ 200 \in Succeeding
  BY <1>1, <1>3 DEF Truthful, Succeeding, Mutations, Aggregates
<1> QED
  BY <1>1, <1>2, <1>3, <1>4, SuccessHonest

LEMMA AdministerKeeps ==
  ASSUME IInv, NEW h \in Handlers, Administer(h)
  PROVE  JobsInv'
<1>1. /\ job[h].pc = "database" /\ job[h].op = "admin" /\ mode' = mode /\ JobsInv
      /\ Fresh(job[h]) /\ DOMAIN job[h] = Fields /\ job[h].pc \in Steps \ {"idle", "ended"}
  BY BeforeAnswer DEF Administer, Calls, At, serverVars, IInv
<1>2. /\ Truthful(job[h]) /\ job[h].audited = {} /\ 200 \in Succeeding
      /\ Becomes(h, Succeeded(job[h], 200))
  BY <1>1 DEF Truthful, Mutations, Fresh, Succeeding, Administer
<1> QED
  BY <1>1, <1>2, SuccessHonest

LEMMA CheckpointKeeps ==
  ASSUME IInv, NEW h \in Handlers, Checkpoint(h)
  PROVE  JobsInv'
<1>1. /\ job[h].pc = "database" /\ job[h].op = "checkpoint" /\ mode' = mode /\ JobsInv
      /\ Fresh(job[h]) /\ DOMAIN job[h] = Fields /\ job[h].pc \in Steps \ {"idle", "ended"}
  BY BeforeAnswer DEF Checkpoint, Calls, At, serverVars, IInv
<1>2. CASE dbOpen
  <2> DEFINE j == [job[h] EXCEPT !.pc = "report", !.seen = Len(commits)]
  <2>1. /\ DOMAIN j = Fields /\ j.pc = "report" /\ j.token = job[h].token
        /\ j.op = "checkpoint" /\ j.base = job[h].base /\ Fresh(j)
        /\ j.base \in Nat /\ (j.base # None => j.op = "patch")
    BY <1>1 DEF Fields, Fresh, JobsInv, Honest
  <2>2. Becomes(h, j)
    BY <1>2 DEF Checkpoint
  <2> QED
    BY <1>1, <2>1, <2>2, BeforeAnswer, MoveHonest DEF Steps, Mutations
<1>3. CASE ~dbOpen
  BY <1>1, <1>3, AnswerHonest DEF Checkpoint, Refusing
<1> QED
  BY <1>2, <1>3

LEMMA RaisesKeeps ==
  ASSUME IInv, NEW h \in Handlers, CallRaises(h)
  PROVE  JobsInv'
<1>1. /\ job[h].pc = "database" /\ mode' = mode /\ JobsInv
      /\ Fresh(job[h]) /\ job[h].pc \in Steps \ {"idle", "ended"}
  BY BeforeAnswer DEF CallRaises, At, serverVars, IInv
<1>2. Answer(h, 400) \/ Answer(h, 500)
  BY DEF CallRaises
<1> QED
  BY <1>1, <1>2, AnswerHonest DEF Refusing

LEMMA EndedHonest ==
  \A m : Honest(m, Idle) /\ Honest(m, Ended)
<1>1. /\ DOMAIN Ended = Fields /\ Ended.pc = "ended" /\ Ended.token = "none"
      /\ Ended.base = None /\ Fresh(Ended)
  BY DEF Ended, Idle, Fields, Fresh
<1>2. /\ DOMAIN Idle = Fields /\ Idle.pc = "idle" /\ Idle.token = "none"
      /\ Idle.base = None /\ Fresh(Idle)
  BY DEF Idle, Fields, Fresh
<1> QED
  BY <1>1, <1>2 DEF Honest, Steps, None

LEMMA SendKeeps ==
  ASSUME IInv, NEW h \in Handlers, Send(h)
  PROVE  JobsInv'
<1>1. job[h].pc = "send" /\ mode' = mode /\ JobsInv /\ Honest(mode, job[h])
  BY DEF Send, At, serverVars, IInv, JobsInv
<1>2. CASE Becomes(h, Ended)
  BY <1>1, <1>2, EndedHonest, JobsKept
<1>3. CASE job[h].status \in {200, 201} /\ job[h].op \in Returning /\ Answer(h, 400)
  <2> DEFINE j == [job[h] EXCEPT !.pc = "send", !.status = 400]
  <2>1. /\ DOMAIN j = Fields /\ j.pc = "send" /\ j.token = job[h].token /\ j.op = job[h].op
        /\ j.base = job[h].base /\ j.status = 400 /\ j.audited = job[h].audited
    BY <1>1 DEF Honest, Fields
  <2>2. mode = "security" => job[h].audited = {"success"}
    BY <1>1, <1>3 DEF Honest, Succeeding
  <2>3. Refusal(mode, j)
    BY <1>3, <2>1, <2>2 DEF Refusal
  <2>4. Honest(mode, j)
    BY <1>1, <2>1, <2>3 DEF Honest, Steps, Succeeding
  <2> QED
    BY <1>1, <1>3, <2>4, JobsKept DEF Answer
<1> QED
  BY <1>2, <1>3 DEF Send

(* record may raise, before or after its line is in the file: of a success *)
(* that becomes an internal error, which promises nothing.                 *)
LEMMA RecordKeeps ==
  ASSUME IInv, NEW h \in Handlers, RecordEvent(h)
  PROVE  JobsInv'
<1>1. /\ job[h].pc = "record" /\ mode' = mode /\ JobsInv /\ Honest(mode, job[h])
  BY DEF RecordEvent, At, serverVars, IInv, JobsInv
<1>2. ASSUME NEW k \in {Written(job[h]), job[h]}
      PROVE  /\ DOMAIN k = Fields /\ k.token = job[h].token /\ k.base = job[h].base
             /\ k.op = job[h].op /\ k.made = job[h].made /\ k.count = job[h].count
             /\ k.guarded = job[h].guarded
  BY <1>1 DEF Honest, Fields, Written
<1>3. Written(job[h]).audited = {job[h].outcome}
  BY <1>1 DEF Honest, Fields, Written
<1>4. ASSUME NEW k \in {Written(job[h]), job[h]}, NEW status
      PROVE  /\ DOMAIN Recorded(k, status) = Fields /\ Recorded(k, status).pc = "send"
             /\ Recorded(k, status).token = job[h].token
             /\ Recorded(k, status).base = job[h].base /\ Recorded(k, status).op = job[h].op
             /\ Recorded(k, status).made = job[h].made
             /\ Recorded(k, status).count = job[h].count
             /\ Recorded(k, status).status = status
             /\ Recorded(k, status).audited = k.audited
  BY <1>2 DEF Recorded, Fields
<1>5. ASSUME Becomes(h, Recorded(Written(job[h]), job[h].status))
      PROVE  JobsInv'
  <2> DEFINE j == Recorded(Written(job[h]), job[h].status)
  <2>1. /\ DOMAIN j = Fields /\ j.pc = "send" /\ j.token = job[h].token /\ j.op = job[h].op
        /\ j.base = job[h].base /\ j.made = job[h].made /\ j.count = job[h].count
        /\ j.status = job[h].status /\ j.audited = {job[h].outcome}
    BY <1>3, <1>4
  <2>2. Honest(mode, j)
    BY <1>1, <2>1 DEF Honest, Steps, Truthful, Succeeding, Refusing, Refusal
  <2> QED
    BY <1>1, <1>5, <2>2, JobsKept
<1>6. ASSUME NEW k \in {Written(job[h]), job[h]}, Becomes(h, Recorded(k, 500))
      PROVE  JobsInv'
  <2> DEFINE j == Recorded(k, 500)
  <2>1. /\ DOMAIN j = Fields /\ j.pc = "send" /\ j.token = job[h].token /\ j.op = job[h].op
        /\ j.base = job[h].base /\ j.status = 500
    BY <1>4
  <2>2. Honest(mode, j)
    BY <1>1, <2>1 DEF Honest, Steps, Succeeding, Refusing
  <2> QED
    BY <1>1, <1>6, <2>2, JobsKept
<1>7. CASE Becomes(h, Ended)
  BY <1>1, <1>7, EndedHonest, JobsKept
<1> QED
  BY <1>5, <1>6, <1>7 DEF RecordEvent

----------------------------------------------------------------------------
(* The invariant holds at first, with a document stored before or without, *)
(* and every step keeps it.                                                *)
LEMMA InitInv == Init => IInv
<1> SUFFICES ASSUME Init PROVE IInv
  OBVIOUS
<1>1. JobsInv
  BY EndedHonest DEF Init, JobsInv
<1>2. Plain \in Collections /\ \A t \in Tokens : Tenant[t] \in Collections
  BY DEF Collections
<1>3. docs = [c \in Collections |-> IF commits # << >> /\ commits[1].scope = c THEN 1 ELSE None]
  BY DEF Init
<1>4. CASE commits = << >>
  <2>1. docs \in [Collections -> Nat] /\ \A c \in Collections : docs[c] = None
    BY <1>3, <1>4 DEF None
  <2>2. commits \in Seq(Commits) /\ Len(commits) = 0
    BY <1>4
  <2> QED
    BY <1>1, <2>1, <2>2 DEF Init, IInv, DataInv, Latest, NoLostUpdate, None
<1>5. CASE commits # << >>
  <2>1. PICK e \in Commits : commits = <<e>> /\ e.base = None
    BY <1>2, <1>5 DEF Init, Stored, Commits, None
  <2>2. docs \in [Collections -> Nat] /\ \A c \in Collections : docs[c] \in {0, 1}
    BY <1>3 DEF None
  <2>3. docs[e.scope] = 1
    BY <1>3, <1>5, <2>1 DEF Commits
  <2>4. commits \in Seq(Commits) /\ Len(commits) = 1 /\ commits[1] = e
    BY <2>1
  <2> QED
    BY <1>1, <2>1, <2>2, <2>3, <2>4 DEF Init, IInv, DataInv, Latest, NoLostUpdate, None
<1> QED
  BY <1>4, <1>5

LEMMA NextInv == IInv /\ [Next]_vars => IInv'
<1> SUFFICES ASSUME IInv, [Next]_vars PROVE IInv'
  OBVIOUS
<1>1. ASSUME job' = job, mode' = mode, UNCHANGED dataVars PROVE IInv'
  BY <1>1, DataKept DEF IInv, JobsInv
<1>2. ASSUME JobsInv', mode' = mode, UNCHANGED dataVars PROVE IInv'
  BY <1>2, DataKept DEF IInv
<1>3. CASE Construct \/ ServeOpens \/ ServePlainly \/ ServeSecured \/ Close
  BY <1>1, <1>3 DEF Construct, ServeOpens, ServePlainly, ServeSecured, Close
<1>4. CASE \E t \in Tokens : Revoke(t)
  BY <1>1, <1>4 DEF Revoke, serverVars
<1>5. ASSUME NEW h \in Handlers, NEW op \in Ops, NEW t \in Tokens \union {"none"},
             Accept(h, op, t)
      PROVE  IInv'
  BY <1>2, <1>5, AcceptKeeps DEF Accept, serverVars
<1>6. ASSUME NEW h \in Handlers, Stall(h) PROVE IInv'
  BY <1>2, <1>6, BodyKeeps DEF Stall, serverVars
<1>7. ASSUME NEW h \in Handlers, HandlerStep(h) PROVE IInv'
  <2>1. CASE Limit(h)
    BY <1>2, <2>1, LimitKeeps DEF Limit, serverVars
  <2>2. CASE Authorize(h)
    BY <1>2, <2>2, AuthorizeKeeps DEF Authorize, serverVars
  <2>3. CASE ReadBody(h)
    BY <1>2, <2>3, BodyKeeps DEF ReadBody, serverVars
  <2>4. CASE Find(h)
    BY <1>2, <2>4, FindKeeps DEF Find, serverVars
  <2>5. CASE Count(h)
    BY <1>2, <2>5, SecondCallKeeps DEF Count, serverVars
  <2>6. CASE Get(h)
    BY <1>2, <2>6, GetKeeps DEF Get, serverVars
  <2>7. CASE Insert(h)
    BY <2>7, InsertKeeps DEF Insert, serverVars, IInv
  <2>8. CASE Patch(h)
    BY <2>8, PatchKeeps DEF Patch, serverVars, IInv
  <2>9. CASE Delete(h)
    BY <2>9, DeleteKeeps DEF Delete, serverVars, IInv
  <2>10. CASE Administer(h)
    BY <1>2, <2>10, AdministerKeeps DEF Administer, serverVars
  <2>11. CASE Checkpoint(h)
    BY <1>2, <2>11, CheckpointKeeps DEF Checkpoint, serverVars
  <2>12. CASE Report(h)
    BY <1>2, <2>12, SecondCallKeeps DEF Report, serverVars
  <2>13. CASE CallRaises(h)
    BY <1>2, <2>13, RaisesKeeps DEF CallRaises, serverVars
  <2>14. CASE RecordEvent(h)
    BY <1>2, <2>14, RecordKeeps DEF RecordEvent, serverVars
  <2>15. CASE Send(h)
    BY <1>2, <2>15, SendKeeps DEF Send, serverVars
  <2>16. CASE Aggregate(h)
    BY <1>2, <2>16, AggregateKeeps DEF Aggregate, serverVars
  <2> QED
    BY <1>7, <2>1, <2>2, <2>3, <2>4, <2>5, <2>6, <2>7, <2>8, <2>9, <2>10, <2>11, <2>12, <2>13,
       <2>14, <2>15, <2>16 DEF HandlerStep
<1>8. CASE UNCHANGED vars
  BY <1>1, <1>8 DEF vars, serverVars
<1> QED
  BY <1>3, <1>4, <1>5, <1>6, <1>7, <1>8 DEF Next

LEMMA InductiveInv == Spec => []IInv
BY InitInv, NextInv, PTL DEF Spec

(* Of all the requests that update one version with expected_version, at   *)
(* most one is committed, whatever the handlers, tenants and faults.       *)
THEOREM NoUpdateIsLost == Spec => []NoLostUpdate
<1>1. IInv => NoLostUpdate
  BY DEF IInv, DataInv
<1> QED
  BY <1>1, InductiveInv, PTL

(* A client can rely on the status it is given.                            *)
THEOREM StatusIsTrue == Spec => []StatusTellsTheTruth
<1>1. IInv => StatusTellsTheTruth
  BY DEF IInv, JobsInv, Honest, Truthful, StatusTellsTheTruth, Answers, At, Succeeding,
         Refusing, Refusal
<1> QED
  BY <1>1, InductiveInv, PTL

----------------------------------------------------------------------------
(* Tenants and withdrawn tokens: two more invariants, on top of IInv.      *)

Passed == {"body", "stalled", "database", "count", "report"}

MayWrite(j) == j.op \in Aggregates /\ "write" \in Permissions[Role[j.token]]

(* What a job has read is a version its own tenant wrote, or the other     *)
(* side of a $lookup; and only what is authorized comes to the database.   *)
Reading(j) ==
  /\ j.op \in Reads /\ j.seen # None =>
       j.seen \in 1 .. Len(commits) /\ commits[j.seen].scope = Tenant[j.token]
  /\ j.joined # None => MayWrite(j)
  /\ j.pc \in Passed => Authorized(j)

TenantInv ==
  mode = "security" =>
    /\ \A i \in 1 .. Len(commits) :
         commits[i].token \in Tokens /\ commits[i].scope = Tenant[commits[i].token]
    /\ \A c \in Collections : docs[c] # None => commits[docs[c]].scope = c
    /\ \A h \in Handlers : Reading(job[h])

(* A request that came too late is refused before it reaches the database. *)
Refused(j) ==
  mode # "open" /\ j.late =>
    /\ j.token \notin valid /\ j.pc \in {"limit", "authorize", "record", "send"}
    /\ j.made = None /\ j.seen = None /\ j.joined = None /\ j.status \in {0, 401, 429, 500}

WithdrawnInv == \A h \in Handlers : Refused(job[h])

Called(h) == job[h].pc \in {"body", "database", "count", "report"}

(* What a handler's own step may do to what these speak of.                *)
Goes(h, j) ==
  \/ j.op = "none" /\ ~j.late /\ j.joined = None /\ j.pc = "ended"
  \/ /\ j.op = job[h].op /\ j.token = job[h].token /\ j.late = job[h].late
     /\ j.op \in Reads => j.seen \in {job[h].seen, None, Version(h)}
     /\ j.joined = job[h].joined \/ (job[h].pc = "database" /\ j.op \in Aggregates)
     /\ j.pc \in Passed => Called(h) \/ (job[h].pc = "authorize" /\ Authorized(job[h]))
     /\ job[h].pc \in {"limit", "authorize", "record", "send"} =>
          j.made = job[h].made /\ j.seen = job[h].seen /\ j.joined = job[h].joined
     /\ \/ job[h].pc = "limit" /\ j.pc = "authorize" /\ j.status = job[h].status
        \/ job[h].pc = "limit" /\ j.pc = "send" /\ j.status = 429
        \/ job[h].pc = "authorize" /\ ~Authenticates(job[h]) /\ j.pc \in {"record", "send"}
             /\ j.status = 401
        \/ job[h].pc = "authorize" /\ Authenticates(job[h])
        \/ job[h].pc = "record" /\ j.pc = "send" /\ j.status \in {job[h].status, 500}
        \/ job[h].pc = "send" /\ job[h].status \in Succeeding /\ j.pc = "send"
        \/ Called(h)

(* The ways of a handler, in the same order, as Goes sees them.            *)

LEMMA AnswerFields ==
  ASSUME JobsInv, NEW h \in Handlers, NEW status, Answer(h, status),
         Called(h)
  PROVE  \E j : Becomes(h, j) /\ Goes(h, j)
<1> DEFINE j == [job[h] EXCEPT !.pc = "send", !.status = status]
<1>1. DOMAIN job[h] = Fields
  BY DEF JobsInv, Honest
<1>2. /\ j.op = job[h].op /\ j.token = job[h].token /\ j.late = job[h].late
      /\ j.seen = job[h].seen /\ j.made = job[h].made /\ j.joined = job[h].joined
      /\ j.status = status /\ j.pc = "send"
  BY <1>1 DEF Fields
<1>3. Goes(h, j)
  BY <1>2 DEF Goes, Called
<1> QED
  BY <1>3 DEF Answer

LEMMA MutateFields ==
  ASSUME JobsInv, NEW h \in Handlers, job[h].pc = "database", job[h].op \notin Reads,
         NEW version, NEW status, Mutate(h, version, status)
  PROVE  \E j : Becomes(h, j) /\ Goes(h, j)
<1> DEFINE k == [job[h] EXCEPT !.made = Len(commits) + 1, !.base = None, !.count = 1]
           j == Succeeded(k, status)
<1>1. DOMAIN job[h] = Fields
  BY DEF JobsInv, Honest
<1>2. /\ DOMAIN k = Fields /\ k.op = job[h].op /\ k.token = job[h].token
      /\ k.late = job[h].late /\ k.joined = job[h].joined
  BY <1>1 DEF Fields
<1>3. j.op = k.op /\ j.token = k.token /\ j.late = k.late /\ j.joined = k.joined
  BY <1>2 DEF Succeeded, Audited, Fields
<1>4. Goes(h, j)
  BY <1>2, <1>3 DEF Goes, Called
<1>5. CASE dbOpen
  <2>1. Becomes(h, j)
    BY <1>5 DEF Mutate
  <2> QED
    BY <1>4, <2>1
<1>6. CASE ~dbOpen
  <2>1. Answer(h, 400) /\ Called(h)
    BY <1>6 DEF Mutate, Called
  <2> QED
    BY <2>1, AnswerFields
<1> QED
  BY <1>5, <1>6

(* A success with a job that differs from the handler's in what it found.  *)
LEMMA SuccessFields ==
  ASSUME NEW h \in Handlers, NEW j, DOMAIN j = Fields, j.op = job[h].op,
         j.token = job[h].token, j.late = job[h].late,
         j.op \in Reads => j.seen \in {job[h].seen, None, Version(h)},
         j.joined = job[h].joined \/ (job[h].pc = "database" /\ j.op \in Aggregates),
         Called(h), NEW status, Becomes(h, Succeeded(j, status))
  PROVE  \E k : Becomes(h, k) /\ Goes(h, k)
<1> DEFINE k == Succeeded(j, status)
<1>1. /\ k.op = j.op /\ k.token = j.token /\ k.late = j.late /\ k.seen = j.seen
      /\ k.joined = j.joined
  BY DEF Succeeded, Audited, Fields
<1>2. Goes(h, k)
  BY <1>1 DEF Goes, Called
<1> QED
  BY <1>2

LEMMA ConflictFields ==
  ASSUME JobsInv, NEW h \in Handlers, job[h].pc = "database", Conflict(h)
  PROVE  \E k : Becomes(h, k) /\ Goes(h, k)
<1> DEFINE k == Audited(job[h], 409, "conflict", FALSE)
<1>1. DOMAIN job[h] = Fields
  BY DEF JobsInv, Honest
<1>2. /\ k.op = job[h].op /\ k.token = job[h].token /\ k.late = job[h].late
      /\ k.seen = job[h].seen /\ k.joined = job[h].joined
  BY <1>1 DEF Audited, Fields
<1>3. Goes(h, k)
  BY <1>2 DEF Goes, Called
<1> QED
  BY <1>3 DEF Conflict

(* The places a handler goes through before the database and after it.     *)
LEMMA AroundFields ==
  ASSUME IInv, NEW h \in Handlers,
         Limit(h) \/ Authorize(h) \/ ReadBody(h) \/ Stall(h) \/ RecordEvent(h) \/ Send(h)
  PROVE  \E j : Becomes(h, j) /\ Goes(h, j)
<1>1. DOMAIN job[h] = Fields /\ JobsInv
  BY DEF IInv, JobsInv, Honest
<1>2. ASSUME NEW l, Becomes(h, [job[h] EXCEPT !.pc = l]),
             \/ job[h].pc = "limit" /\ l = "authorize"
             \/ job[h].pc = "authorize" /\ Authenticates(job[h]) /\ Authorized(job[h])
             \/ job[h].pc = "body"
      PROVE  \E j : Becomes(h, j) /\ Goes(h, j)
  <2> DEFINE j == [job[h] EXCEPT !.pc = l]
  <2>1. /\ j.op = job[h].op /\ j.token = job[h].token /\ j.late = job[h].late /\ j.pc = l
        /\ j.seen = job[h].seen /\ j.made = job[h].made /\ j.joined = job[h].joined
        /\ j.status = job[h].status
    BY <1>1 DEF Fields
  <2>2. Goes(h, j)
    BY <1>2, <2>1 DEF Goes, Called, Passed
  <2> QED
    BY <1>2, <2>2
<1>3. ASSUME Becomes(h, Ended) PROVE \E j : Becomes(h, j) /\ Goes(h, j)
  <2>1. Ended.op = "none" /\ Ended.late = FALSE /\ Ended.joined = None /\ Ended.pc = "ended"
    BY DEF Ended, Idle
  <2> QED
    BY <1>3, <2>1 DEF Goes
<1>4. CASE Limit(h)
  <2>1. CASE Answer(h, 429)
    <3> DEFINE j == [job[h] EXCEPT !.pc = "send", !.status = 429]
    <3>1. /\ j.op = job[h].op /\ j.token = job[h].token /\ j.late = job[h].late
          /\ j.seen = job[h].seen /\ j.made = job[h].made /\ j.joined = job[h].joined
          /\ j.status = 429 /\ j.pc = "send"
      BY <1>1 DEF Fields
    <3>2. Goes(h, j)
      BY <1>4, <3>1 DEF Goes, Limit, At, Passed
    <3> QED
      BY <2>1, <3>2 DEF Answer
  <2> QED
    BY <1>2, <1>4, <2>1 DEF Limit, At
<1>5. CASE Authorize(h)
  <2>0. job[h].pc = "authorize"
    BY <1>5 DEF Authorize, At
  <2>1. CASE ~Authenticates(job[h])
    <3> DEFINE j == Audited(job[h], 401, "denied", TRUE)
    <3>1. Becomes(h, j)
      BY <1>5, <2>1 DEF Authorize
    <3>2. /\ j.op = job[h].op /\ j.token = job[h].token /\ j.late = job[h].late
          /\ j.seen = job[h].seen /\ j.made = job[h].made /\ j.joined = job[h].joined
          /\ j.status = 401 /\ j.pc \in {"record", "send"}
      BY <1>1 DEF Fields, Audited
    <3> HIDE DEF j
    <3>3. j.pc \notin Passed
      BY <3>2 DEF Passed
    <3>4. Goes(h, j)
      BY ZenonT(40), <2>0, <2>1, <3>2, <3>3 DEF Goes
    <3> QED
      BY <3>1, <3>4
  <2>2. CASE Authenticates(job[h]) /\ ~Authorized(job[h])
    <3> DEFINE j == Audited(job[h], 403, "denied", FALSE)
    <3>1. Becomes(h, j)
      BY <1>5, <2>2 DEF Authorize
    <3>2. /\ j.op = job[h].op /\ j.token = job[h].token /\ j.late = job[h].late
          /\ j.seen = job[h].seen /\ j.made = job[h].made /\ j.joined = job[h].joined
          /\ j.pc \in {"record", "send"}
      BY <1>1 DEF Fields, Audited
    <3> HIDE DEF j
    <3>3. j.pc \notin Passed
      BY <3>2 DEF Passed
    <3>4. Goes(h, j)
      BY <2>0, <2>2, <3>2, <3>3 DEF Goes
    <3> QED
      BY <3>1, <3>4
  <2>3. CASE Authenticates(job[h]) /\ Authorized(job[h])
    <3>1. \E l \in Dispatched(job[h].op) : Becomes(h, [job[h] EXCEPT !.pc = l])
      BY <1>5, <2>3 DEF Authorize
    <3> QED
      BY <1>2, <2>0, <2>3, <3>1
  <2> QED
    BY <2>1, <2>2, <2>3
<1>6. CASE ReadBody(h)
  <2>0. job[h].pc = "body" /\ Called(h)
    BY <1>6 DEF ReadBody, At, Called
  <2>1. ASSUME NEW b, Becomes(h, [job[h] EXCEPT !.pc = "database", !.base = b])
        PROVE  \E j : Becomes(h, j) /\ Goes(h, j)
    <3> DEFINE j == [job[h] EXCEPT !.pc = "database", !.base = b]
    <3>1. /\ j.op = job[h].op /\ j.token = job[h].token /\ j.late = job[h].late
          /\ j.seen = job[h].seen /\ j.joined = job[h].joined
      BY <1>1 DEF Fields
    <3>2. Goes(h, j)
      BY <2>0, <3>1 DEF Goes
    <3> QED
      BY <2>1, <3>2
  <2>2. ASSUME NEW status, Answer(h, status) PROVE \E j : Becomes(h, j) /\ Goes(h, j)
    BY <1>1, <2>0, <2>2, AnswerFields
  <2>3. \/ \E b : Becomes(h, [job[h] EXCEPT !.pc = "database", !.base = b])
        \/ \E status : Answer(h, status)
    BY <1>6 DEF ReadBody
  <2> QED
    BY <2>1, <2>2, <2>3
<1>7. CASE Stall(h)
  BY <1>2, <1>7 DEF Stall, At
<1>8. CASE RecordEvent(h)
  <2>0. job[h].pc = "record"
    BY <1>8 DEF RecordEvent, At
  <2>1. ASSUME NEW k \in {Written(job[h]), job[h]}, NEW status \in {job[h].status, 500},
               Becomes(h, Recorded(k, status))
        PROVE  \E j : Becomes(h, j) /\ Goes(h, j)
    <3> DEFINE j == Recorded(k, status)
    <3>1. /\ DOMAIN k = Fields /\ k.op = job[h].op /\ k.token = job[h].token
          /\ k.late = job[h].late /\ k.seen = job[h].seen /\ k.made = job[h].made
          /\ k.joined = job[h].joined
      BY <1>1 DEF Fields, Written
    <3>2. /\ j.op = k.op /\ j.token = k.token /\ j.late = k.late /\ j.pc = "send"
          /\ j.seen = k.seen /\ j.made = k.made /\ j.joined = k.joined /\ j.status = status
      BY <3>1 DEF Fields, Recorded
    <3>3. Goes(h, j)
      BY <2>0, <3>1, <3>2 DEF Goes, Passed
    <3> QED
      BY <2>1, <3>3
  <2> QED
    BY <1>3, <1>8, <2>1 DEF RecordEvent
<1>9. CASE Send(h)
  <2>1. CASE job[h].status \in {200, 201} /\ Answer(h, 400)
    <3> DEFINE j == [job[h] EXCEPT !.pc = "send", !.status = 400]
    <3>1. /\ j.op = job[h].op /\ j.token = job[h].token /\ j.late = job[h].late
          /\ j.seen = job[h].seen /\ j.made = job[h].made /\ j.joined = job[h].joined
          /\ j.pc = "send"
      BY <1>1 DEF Fields
    <3>2. Goes(h, j)
      BY <1>9, <2>1, <3>1 DEF Goes, Send, At, Passed, Succeeding
    <3> QED
      BY <2>1, <3>2 DEF Answer
  <2> QED
    BY <1>3, <1>9, <2>1 DEF Send
<1> QED
  BY <1>4, <1>5, <1>6, <1>7, <1>8, <1>9

LEMMA CallFields ==
  ASSUME IInv, NEW h \in Handlers,
         \/ Find(h) \/ Count(h) \/ Get(h) \/ Insert(h) \/ Patch(h) \/ Delete(h)
         \/ Aggregate(h) \/ Administer(h) \/ Checkpoint(h) \/ Report(h) \/ CallRaises(h)
  PROVE  \E j : Becomes(h, j) /\ Goes(h, j)
<1>1. DOMAIN job[h] = Fields /\ JobsInv /\ Called(h)
  BY DEF IInv, JobsInv, Honest, Called, Find, Count, Get, Insert, Patch, Delete, Aggregate,
         Administer, Checkpoint, Report, CallRaises, Calls, At
<1>2. CASE Find(h)
  <2>1. PICK past \in BOOLEAN :
          Becomes(h, [job[h] EXCEPT !.pc = "count", !.from = Len(commits), !.past = past,
                                    !.seen = IF past THEN None ELSE Version(h)])
    BY <1>2 DEF Find
  <2> DEFINE j == [job[h] EXCEPT !.pc = "count", !.from = Len(commits), !.past = past,
                                 !.seen = IF past THEN None ELSE Version(h)]
  <2>2. /\ j.op = job[h].op /\ j.token = job[h].token /\ j.late = job[h].late
        /\ j.seen \in {None, Version(h)} /\ j.joined = job[h].joined
    BY <1>1 DEF Fields
  <2>3. Goes(h, j)
    BY <1>1, <2>2 DEF Goes, Called
  <2> QED
    BY <2>1, <2>3
<1>3. CASE Count(h) \/ Report(h)
  <2>1. ASSUME NEW from, NEW overtaken, NEW count,
               Becomes(h, Succeeded([job[h] EXCEPT !.from = from, !.overtaken = overtaken,
                                                   !.count = count], 200))
        PROVE  \E j : Becomes(h, j) /\ Goes(h, j)
    <3> DEFINE j == [job[h] EXCEPT !.from = from, !.overtaken = overtaken, !.count = count]
    <3>1. /\ DOMAIN j = Fields /\ j.op = job[h].op /\ j.token = job[h].token
          /\ j.late = job[h].late /\ j.seen = job[h].seen /\ j.joined = job[h].joined
      BY <1>1 DEF Fields
    <3> QED
      BY <1>1, <2>1, <3>1, SuccessFields
  <2>2. CASE Count(h)
    BY ZenonT(40), <2>1, <2>2 DEF Count
  <2>3. CASE Report(h)
    <3>1. [job[h] EXCEPT !.count = Len(commits)]
            = [job[h] EXCEPT !.from = job[h].from, !.overtaken = job[h].overtaken,
                             !.count = Len(commits)]
      BY <1>1 DEF Fields
    <3> QED
      BY ZenonT(40), <2>1, <2>3, <3>1 DEF Report
  <2> QED
    BY <1>3, <2>2, <2>3
<1>4. CASE Get(h)
  <2>1. CASE Version(h) = None
    BY <1>1, <1>4, <2>1, AnswerFields DEF Get
  <2>2. CASE Version(h) # None
    <3> DEFINE j == [job[h] EXCEPT !.seen = Version(h)]
    <3>1. Becomes(h, Succeeded(j, 200))
      BY <1>4, <2>2 DEF Get
    <3>2. /\ DOMAIN j = Fields /\ j.op = job[h].op /\ j.token = job[h].token
          /\ j.late = job[h].late /\ j.seen = Version(h) /\ j.joined = job[h].joined
      BY <1>1 DEF Fields
    <3> QED
      BY <1>1, <3>1, <3>2, SuccessFields
  <2> QED
    BY <2>1, <2>2
<1>5. CASE Insert(h) \/ Patch(h) \/ Delete(h)
  <2>1. job[h].pc = "database" /\ job[h].op \notin Reads
    BY <1>5 DEF Insert, Patch, Delete, Calls, At, Reads, Aggregates
  <2>2. \/ Conflict(h) \/ NothingThere(h)
        \/ \E version, status : Mutate(h, version, status)
    BY <1>5 DEF Insert, Patch, Delete
  <2>3. CASE Conflict(h)
    BY <1>1, <2>1, <2>3, ConflictFields
  <2>4. CASE NothingThere(h)
    <3>1. CASE Answer(h, 404)
      BY <1>1, <3>1, AnswerFields
    <3>2. CASE Becomes(h, Succeeded(job[h], 200))
      BY <1>1, <3>2, SuccessFields
    <3> QED
      BY <2>4, <3>1, <3>2 DEF NothingThere
  <2>5. CASE \E version, status : Mutate(h, version, status)
    BY <1>1, <2>1, <2>5, MutateFields
  <2> QED
    BY <2>2, <2>3, <2>4, <2>5
<1>6. CASE Administer(h)
  <2>1. Becomes(h, Succeeded(job[h], 200))
    BY <1>6 DEF Administer
  <2> QED
    BY <1>1, <2>1, SuccessFields
<1>7. CASE Checkpoint(h)
  <2>1. CASE dbOpen
    <3> DEFINE j == [job[h] EXCEPT !.pc = "report", !.seen = Len(commits)]
    <3>1. Becomes(h, j) /\ job[h].op = "checkpoint"
      BY <1>7, <2>1 DEF Checkpoint, Calls
    <3>2. /\ j.op = job[h].op /\ j.token = job[h].token /\ j.late = job[h].late
          /\ j.joined = job[h].joined
      BY <1>1 DEF Fields
    <3>3. Goes(h, j)
      BY <1>1, <3>1, <3>2 DEF Goes, Called, Reads, Aggregates
    <3> QED
      BY <3>1, <3>3
  <2>2. CASE ~dbOpen
    BY <1>1, <1>7, <2>2, AnswerFields DEF Checkpoint
  <2> QED
    BY <2>1, <2>2
<1>8. CASE CallRaises(h)
  <2>1. Answer(h, 400) \/ Answer(h, 500)
    BY <1>8 DEF CallRaises
  <2> QED
    BY <1>1, <2>1, AnswerFields
<1>9. CASE Aggregate(h)
  <2>1. PICK own \in {None, Version(h)} : \E joined :
          Becomes(h, Succeeded([job[h] EXCEPT !.seen = own, !.joined = joined], 200))
    BY <1>9 DEF Aggregate
  <2>0. PICK joined :
          Becomes(h, Succeeded([job[h] EXCEPT !.seen = own, !.joined = joined], 200))
    BY <2>1
  <2> DEFINE j == [job[h] EXCEPT !.seen = own, !.joined = joined]
  <2>2. /\ DOMAIN j = Fields /\ j.op = job[h].op /\ j.token = job[h].token
        /\ j.late = job[h].late /\ j.seen \in {None, Version(h)}
    BY <1>1 DEF Fields
  <2>3. job[h].pc = "database" /\ job[h].op \in Aggregates
    BY <1>9 DEF Aggregate, At
  <2> QED
    BY <1>1, <2>0, <2>2, <2>3, SuccessFields
<1> QED
  BY <1>2, <1>3, <1>4, <1>5, <1>6, <1>7, <1>8, <1>9

LEMMA StepFields ==
  ASSUME IInv, NEW h \in Handlers, HandlerStep(h) \/ Stall(h)
  PROVE  \E j : Becomes(h, j) /\ Goes(h, j)
BY AroundFields, CallFields DEF HandlerStep

(* Mutations are committed for the tenant of the request, and nothing is   *)
(* taken out of commits.                                                   *)
Committed(h) ==
  \/ UNCHANGED dataVars
  \/ /\ job[h].pc = "database"
     /\ commits' = Append(commits, [token |-> job[h].token, scope |-> Scope(job[h]),
                                     base |-> job[h].base])
     /\ \E version \in {None, Len(commits) + 1} :
          docs' = [docs EXCEPT ![Scope(job[h])] = version]

LEMMA StepCommits ==
  ASSUME NEW h \in Handlers, HandlerStep(h) \/ Stall(h)
  PROVE  mode' = mode /\ valid' = valid /\ Committed(h)
<1>1. CASE Insert(h) \/ Patch(h) \/ Delete(h)
  <2>1. mode' = mode /\ valid' = valid /\ job[h].pc = "database"
    BY <1>1 DEF Insert, Patch, Delete, serverVars, Calls, At
  <2>2. \/ UNCHANGED dataVars
        \/ \E version \in {None, Len(commits) + 1} : \E status : Mutate(h, version, status)
    BY <1>1 DEF Insert, Patch, Delete, NothingThere
  <2>3. CASE \E version \in {None, Len(commits) + 1} : \E status : Mutate(h, version, status)
    BY <2>1, <2>3 DEF Mutate, Committed
  <2> QED
    BY <2>1, <2>2, <2>3 DEF Committed
<1>2. CASE \/ Limit(h) \/ Authorize(h) \/ ReadBody(h) \/ Find(h) \/ Count(h) \/ Get(h)
           \/ Aggregate(h) \/ Administer(h) \/ Checkpoint(h) \/ Report(h) \/ CallRaises(h)
           \/ RecordEvent(h) \/ Send(h) \/ Stall(h)
  BY <1>2 DEF Limit, Authorize, ReadBody, Find, Count, Get, Aggregate, Administer, Checkpoint,
     Report, CallRaises, RecordEvent, Send, Stall, serverVars, Committed
<1> QED
  BY <1>1, <1>2 DEF HandlerStep

(* A step of a handler keeps both invariants.                              *)
LEMMA StepRefuses ==
  ASSUME IInv, WithdrawnInv, NEW h \in Handlers, HandlerStep(h) \/ Stall(h)
  PROVE  WithdrawnInv'
<1>1. PICK j : Becomes(h, j) /\ Goes(h, j)
  BY StepFields
<1>2. mode' = mode /\ valid' = valid
  BY StepCommits
<1>3. Refused(j)
  <2> SUFFICES ASSUME mode # "open", j.late PROVE Refused(j)
    BY DEF Refused
  <2>1. j.token = job[h].token /\ job[h].late
    BY <1>1 DEF Goes
  <2>2. /\ job[h].token \notin valid /\ job[h].pc \in {"limit", "authorize", "record", "send"}
        /\ job[h].made = None /\ job[h].seen = None /\ job[h].joined = None
        /\ job[h].status \in {0, 401, 429, 500}
    BY <2>1 DEF WithdrawnInv, Refused
  <2>3. ~Authenticates(job[h])
    BY <2>2 DEF Authenticates
  <2>4. j.made = None /\ j.seen = None /\ j.joined = None
    BY <1>1, <2>1, <2>2 DEF Goes
  <2>5. j.pc \in {"authorize", "record", "send"} /\ j.status \in {0, 401, 429, 500}
    BY <1>1, <2>1, <2>2, <2>3 DEF Goes, Called, Succeeding
  <2> QED
    BY <2>1, <2>2, <2>4, <2>5 DEF Refused
<1>4. DOMAIN job = Handlers
  BY DEF IInv, JobsInv
<1>5. \A g \in Handlers : job'[g] = IF g = h THEN j ELSE job[g]
  BY <1>1, <1>4 DEF Becomes
<1> QED
  BY <1>2, <1>3, <1>5 DEF WithdrawnInv, Refused

LEMMA StepTenants ==
  ASSUME IInv, TenantInv, NEW h \in Handlers, HandlerStep(h) \/ Stall(h)
  PROVE  TenantInv'
<1>1. PICK j : Becomes(h, j) /\ Goes(h, j)
  BY StepFields
<1>2. mode' = mode /\ Committed(h)
  BY StepCommits
<1> SUFFICES ASSUME mode = "security" PROVE TenantInv'
  BY <1>2 DEF TenantInv
<1>3. \A g \in Handlers : job'[g] = IF g = h THEN j ELSE job[g]
  BY <1>1 DEF Becomes, IInv, JobsInv
<1>4. \A c \in Collections : docs[c] \in 0 .. Len(commits)
  BY DEF IInv, DataInv, Latest
<1>5. Len(commits) \in Nat
  BY DEF IInv, DataInv
<1>6. Reading(j)
  <2>1. CASE j.op = "none" /\ j.joined = None /\ j.pc = "ended"
    BY <2>1 DEF Reading, Reads, Aggregates, Passed
  <2>2. CASE /\ j.op = job[h].op /\ j.token = job[h].token /\ job[h].pc \notin {"idle", "ended"}
             /\ j.op \in Reads => j.seen \in {job[h].seen, None, Version(h)}
             /\ j.joined = job[h].joined \/ (job[h].pc = "database" /\ j.op \in Aggregates)
             /\ j.pc \in Passed =>
                  Called(h) \/ (job[h].pc = "authorize" /\ Authorized(job[h]))
    <3>1. Scope(job[h]) = Tenant[job[h].token] /\ Scope(job[h]) \in Collections
      BY <2>2 DEF IInv, JobsInv, Honest, Scope, Collections
    <3>2. Version(h) # None =>
            Version(h) \in 1 .. Len(commits) /\ commits[Version(h)].scope = Tenant[job[h].token]
      BY <1>4, <1>5, <3>1 DEF Version, TenantInv, None
    <3>3. Reading(job[h])
      BY DEF TenantInv
    <3>4. j.pc \in Passed => Authorized(j)
      BY <2>2, <3>3 DEF Reading, Called, Passed, Authorized
    <3>5. job[h].pc = "database" /\ j.op \in Aggregates => MayWrite(j)
      <4> SUFFICES ASSUME job[h].pc = "database", j.op \in Aggregates
                   PROVE  "write" \in Permissions[Role[j.token]]
        BY DEF MayWrite
      <4>1. job[h].token \in Tokens /\ Authorized(job[h])
        BY <3>3 DEF IInv, JobsInv, Honest, Reading, Passed
      <4>2. Role[j.token] \in {"reader", "writer", "admin"}
        BY <2>2, <4>1, TokensAssumption
      <4>3. Required(j.op) \in Permissions[Role[j.token]] /\ Required(j.op) \in {"write", "admin"}
        BY <2>2, <4>1 DEF Authorized, Required, Aggregates
      <4> QED
        BY <4>2, <4>3 DEF Permissions
    <3> QED
      BY <2>2, <3>2, <3>3, <3>4, <3>5 DEF Reading, MayWrite
  <2> QED
    BY <1>1, <2>1, <2>2 DEF Goes, Called
<1>7. CASE UNCHANGED dataVars
  BY <1>2, <1>3, <1>6, <1>7 DEF dataVars, TenantInv, Reading, MayWrite, Authorized
<1>8. CASE ~UNCHANGED dataVars
  <2> DEFINE e == [token |-> job[h].token, scope |-> Scope(job[h]), base |-> job[h].base]
  <2>1. PICK version \in {None, Len(commits) + 1} :
          /\ job[h].pc = "database" /\ commits' = Append(commits, e)
          /\ docs' = [docs EXCEPT ![Scope(job[h])] = version]
    BY <1>2, <1>8 DEF Committed
  <2>2. /\ job[h].token \in Tokens /\ Scope(job[h]) = Tenant[job[h].token]
        /\ Scope(job[h]) \in Collections
    BY <2>1 DEF IInv, JobsInv, Honest, Scope, Collections
  <2>3. commits \in Seq(Commits) /\ e \in Commits
    <3>1. e.base \in Nat
      BY DEF IInv, JobsInv, Honest
    <3> QED
      BY <2>2, <3>1 DEF IInv, DataInv, Commits
  <2>4. /\ Len(commits') = Len(commits) + 1 /\ commits'[Len(commits) + 1] = e
        /\ \A i \in 1 .. Len(commits) : commits'[i] = commits[i]
    BY <2>1, <2>3
  <2>5. \A c \in Collections : docs'[c] = IF c = Scope(job[h]) THEN version ELSE docs[c]
    BY <2>1 DEF IInv, DataInv
  <2>6. ASSUME NEW i \in 1 .. Len(commits')
        PROVE  commits'[i].token \in Tokens /\ commits'[i].scope = Tenant[commits'[i].token]
    <3>1. CASE i = Len(commits) + 1
      BY <2>2, <2>4, <3>1
    <3>2. CASE i \in 1 .. Len(commits)
      BY <2>4, <3>2 DEF TenantInv
    <3> QED
      BY <1>5, <2>4, <3>1, <3>2
  <2>7. ASSUME NEW c \in Collections, docs'[c] # None
        PROVE  commits'[docs'[c]].scope = c
    <3>1. CASE c = Scope(job[h])
      BY <2>4, <2>5, <2>7, <3>1
    <3>2. CASE c # Scope(job[h])
      <4>1. docs'[c] = docs[c] /\ docs[c] \in 1 .. Len(commits)
        BY <1>4, <1>5, <2>5, <2>7, <3>2 DEF None
      <4> QED
        BY <2>4, <2>7, <4>1 DEF TenantInv
    <3> QED
      BY <3>1, <3>2
  <2>8. ASSUME NEW g \in Handlers PROVE Reading(job[g])'
    <3>1. Reading(job'[g])
      BY <1>3, <1>6 DEF TenantInv
    <3> QED
      BY <1>2, <1>5, <2>4, <3>1 DEF Reading, MayWrite, Authorized
  <2> QED
    BY <2>6, <2>7, <2>8 DEF TenantInv
<1> QED
  BY <1>7, <1>8

(* So do the arrival of a request and the steps of the server.             *)
Arrives(h, j) ==
  /\ \A g \in Handlers : job'[g] = IF g = h THEN j ELSE job[g]
  /\ j.pc = "limit" /\ j.made = None /\ j.seen = None /\ j.joined = None /\ j.status = 0
  /\ j.late => j.token \notin valid

LEMMA AcceptFields ==
  ASSUME IInv, NEW h \in Handlers, NEW op, NEW t, Accept(h, op, t)
  PROVE  \E j : Arrives(h, j)
<1> DEFINE j == [Idle EXCEPT !.pc = "limit", !.op = op, !.token = t,
                             !.from = IF op = "checkpoint" THEN Len(commits) ELSE 0,
                             !.late = t \notin valid]
<1>1. /\ j.pc = "limit" /\ j.made = None /\ j.seen = None /\ j.joined = None
      /\ j.status = 0 /\ j.token = t
      /\ j.late <=> t \notin valid
  BY DEF Idle
<1>2. \A g \in Handlers : job'[g] = IF g = h THEN j ELSE job[g]
  BY DEF Accept, Becomes, IInv, JobsInv
<1>3. Arrives(h, j)
  BY <1>1, <1>2 DEF Arrives
<1> QED
  BY <1>3

LEMMA NextRefuses == IInv /\ WithdrawnInv /\ [Next]_vars => WithdrawnInv'
<1> SUFFICES ASSUME IInv, WithdrawnInv, [Next]_vars PROVE WithdrawnInv'
  OBVIOUS
<1>1. ASSUME job' = job, mode' = mode, valid' \subseteq valid PROVE WithdrawnInv'
  BY <1>1 DEF WithdrawnInv, Refused
<1>2. CASE Construct \/ ServeOpens \/ ServePlainly \/ ServeSecured \/ Close
  BY <1>1, <1>2 DEF Construct, ServeOpens, ServePlainly, ServeSecured, Close
<1>3. CASE \E t \in Tokens : Revoke(t)
  BY <1>1, <1>3 DEF Revoke, serverVars
<1>4. ASSUME NEW h \in Handlers, NEW op \in Ops, NEW t \in Tokens \union {"none"},
             Accept(h, op, t)
      PROVE  WithdrawnInv'
  <2>1. mode' = mode /\ valid' = valid
    BY <1>4 DEF Accept, serverVars
  <2>2. PICK j : Arrives(h, j)
    BY <1>4, AcceptFields
  <2> QED
    BY <2>1, <2>2 DEF Arrives, WithdrawnInv, Refused
<1>5. ASSUME NEW h \in Handlers, HandlerStep(h) \/ Stall(h) PROVE WithdrawnInv'
  BY <1>5, StepRefuses
<1>6. CASE UNCHANGED vars
  BY <1>1, <1>6 DEF vars, serverVars
<1> QED
  BY <1>2, <1>3, <1>4, <1>5, <1>6 DEF Next

LEMMA NextTenants == IInv /\ TenantInv /\ [Next]_vars => TenantInv'
<1> SUFFICES ASSUME IInv, TenantInv, [Next]_vars PROVE TenantInv'
  OBVIOUS
<1>1. ASSUME job' = job, mode' = mode, UNCHANGED dataVars PROVE TenantInv'
  BY <1>1 DEF TenantInv, Reading, MayWrite, Authorized, dataVars
<1>2. CASE Construct \/ ServeOpens \/ ServePlainly \/ ServeSecured \/ Close
  BY <1>1, <1>2 DEF Construct, ServeOpens, ServePlainly, ServeSecured, Close
<1>3. CASE \E t \in Tokens : Revoke(t)
  BY <1>1, <1>3 DEF Revoke, serverVars
<1>4. ASSUME NEW h \in Handlers, NEW op \in Ops, NEW t \in Tokens \union {"none"},
             Accept(h, op, t)
      PROVE  TenantInv'
  <2>1. mode' = mode /\ UNCHANGED dataVars
    BY <1>4 DEF Accept, serverVars
  <2>2. PICK j : Arrives(h, j)
    BY <1>4, AcceptFields
  <2>3. Reading(j)
    BY <2>2 DEF Arrives, Reading, Passed
  <2>4. \A g \in Handlers : Reading(job'[g]) \/ mode # "security"
    BY <2>2, <2>3 DEF Arrives, TenantInv
  <2> QED
    BY <2>1, <2>4 DEF TenantInv, Reading, MayWrite, Authorized, dataVars
<1>5. ASSUME NEW h \in Handlers, HandlerStep(h) \/ Stall(h) PROVE TenantInv'
  BY <1>5, StepTenants
<1>6. CASE UNCHANGED vars
  BY <1>1, <1>6 DEF vars, serverVars
<1> QED
  BY <1>2, <1>3, <1>4, <1>5, <1>6 DEF Next

LEMMA InitRefuses == Init => WithdrawnInv
<1>1. Idle.late = FALSE
  BY DEF Idle
<1> QED
  BY <1>1 DEF Init, WithdrawnInv, Refused

LEMMA InitTenants == Init => TenantInv
<1> SUFFICES ASSUME Init, mode = "security" PROVE TenantInv
  BY DEF TenantInv
<1>1. \A h \in Handlers : Reading(job[h])
  <2>1. Idle.seen = None /\ Idle.joined = None /\ Idle.pc = "idle"
    BY DEF Idle
  <2> QED
    BY <2>1 DEF Init, Reading, Passed
<1>2. docs = [c \in Collections |-> IF commits # << >> /\ commits[1].scope = c THEN 1 ELSE None]
  BY DEF Init
<1>3. CASE commits = << >>
  BY <1>1, <1>2, <1>3 DEF TenantInv, None
<1>4. CASE commits # << >>
  <2>1. PICK t \in Tokens : commits = <<[token |-> t, scope |-> Tenant[t], base |-> None]>>
    BY <1>4 DEF Init, Stored
  <2>2. Len(commits) = 1 /\ commits[1].token = t /\ commits[1].scope = Tenant[t]
    BY <2>1
  <2>3. \A c \in Collections : docs[c] # None => docs[c] = 1 /\ commits[1].scope = c
    BY <1>2
  <2> QED
    BY <1>1, <2>2, <2>3 DEF TenantInv
<1> QED
  BY <1>3, <1>4

(* A request that arrived without a valid token neither reads nor commits. *)
THEOREM WithdrawnIsRefused == Spec => []WithdrawnHasNoEffect
<1>1. WithdrawnInv => WithdrawnHasNoEffect
  BY DEF WithdrawnInv, Refused, WithdrawnHasNoEffect
<1> QED
  BY <1>1, InductiveInv, InitRefuses, NextRefuses, PTL DEF Spec

(* "Tenant data is isolated": what a tenant has, and what its requests     *)
(* read in the collection they name, was written by a request of that      *)
(* tenant; a $lookup is the one way past this, and needs "write".          *)
THEOREM TenantsStayApart == Spec => []TenantsApart
<1>1. IInv /\ TenantInv => TenantsApart
  <2> SUFFICES ASSUME IInv, TenantInv, mode = "security" PROVE TenantsApart
    BY DEF TenantsApart
  <2>1. \A i \in 1 .. Len(commits) : Writer(i) = commits[i].scope
    BY DEF TenantInv, Writer
  <2>2. \A c \in Collections : docs[c] # None => Writer(docs[c]) = c
    <3>1. Len(commits) \in Nat /\ \A c \in Collections : docs[c] \in 0 .. Len(commits)
      BY DEF IInv, DataInv, Latest
    <3> QED
      BY <2>1, <3>1 DEF TenantInv, None
  <2>3. \A h \in Handlers :
          job[h].op \in Reads /\ job[h].seen # None =>
            Writer(job[h].seen) = Tenant[job[h].token]
    BY <2>1 DEF TenantInv, Reading
  <2>4. \A h \in Handlers :
          job[h].joined # None =>
            job[h].op \in Aggregates /\ "write" \in Permissions[Role[job[h].token]]
    BY DEF TenantInv, Reading, MayWrite
  <2> QED
    BY <2>2, <2>3, <2>4 DEF TenantsApart
<1> QED
  BY <1>1, InductiveInv, InitTenants, NextTenants, PTL DEF Spec

----------------------------------------------------------------------------
(* Types, and the answers put together from two calls: what a job holds at *)
(* each place, of n mutations committed so far.                            *)

Statuses == {0, 200, 201, 400, 401, 403, 404, 409, 413, 429, 500}
Outcomes == {"success", "denied", "conflict"}

After == {"record", "send", "ended"}

(* What SecondCallLags asks of an answer.                                  *)
Lags(j) ==
  /\ j.op = "list" /\ ~j.past /\ ~j.overtaken => (j.count = 1 <=> j.seen # None)
  /\ j.op = "checkpoint" => j.from <= j.seen /\ j.seen <= j.count

Typed(j, n) ==
  /\ j.op \in Ops \union {"none"} /\ j.made \in 0 .. n /\ j.seen \in 0 .. n
  /\ j.joined \in 0 .. n /\ j.from \in 0 .. n
  /\ j.status \in Statuses /\ j.audited \subseteq Outcomes

(* The rows that find saw are those of now, if its collection did not      *)
(* change since then.                                                      *)
Current(j) == Overtaken(j) \/ j.seen = docs[Scope(j)]

Between(j, current) ==
  /\ j.pc = "count" => j.op = "list" /\ (~j.past => current)
  /\ j.pc = "report" => j.op = "checkpoint" /\ j.from <= j.seen
  /\ j.pc \in {"record", "send"} /\ j.status = 200 => Lags(j)

Placed(j, n, current) == Typed(j, n) /\ Between(j, current)

MomentInv == \A h \in Handlers : Placed(job[h], Len(commits), Current(job[h]))

ServerTypes ==
  /\ phase \in {"down", "opened", "serving", "closed", "failed"}
  /\ dbOpen \in BOOLEAN /\ valid \subseteq Tokens /\ faults \in 0 .. MaxFaults

(* A handler commits at most once, on its way to the answer; one mutation  *)
(* may be from an earlier server.                                          *)
Done == {h \in Handlers : job[h].pc \in After}

CountInv == Len(commits) <= Cardinality(Done) + 1

(* What a step of handler h makes of its job, and of the data.             *)
Lands(h, j) ==
  /\ Placed(j, Len(commits'), Current(j))
  /\ job[h].pc \in After => j.pc \in After
  /\ \/ UNCHANGED dataVars
     \/ Len(commits') = Len(commits) + 1 /\ job[h].pc \notin After /\ j.pc \in After

LEMMA QuietLands ==
  ASSUME NEW h, NEW j, UNCHANGED dataVars, Placed(j, Len(commits), Current(j)),
         job[h].pc \in After => j.pc \in After
  PROVE  Lands(h, j)
BY DEF Lands, dataVars

(* Answers without an audit record, and places before the answer.          *)
LEMMA AnswerLands ==
  ASSUME IInv, MomentInv, NEW h \in Handlers, NEW status \in Refusing \union {500},
         Answer(h, status), UNCHANGED dataVars
  PROVE  \E j : Becomes(h, j) /\ Lands(h, j)
<1> DEFINE j == [job[h] EXCEPT !.pc = "send", !.status = status]
<1>1. DOMAIN job[h] = Fields /\ Typed(job[h], Len(commits))
  BY DEF IInv, JobsInv, Honest, MomentInv, Placed
<1>2. /\ j.pc = "send" /\ j.status = status /\ j.op = job[h].op /\ j.made = job[h].made
      /\ j.seen = job[h].seen /\ j.audited = job[h].audited
      /\ j.joined = job[h].joined /\ j.from = job[h].from
  BY <1>1 DEF Fields
<1>3. status \in Statuses /\ status # 200
  BY DEF Refusing, Statuses
<1> HIDE DEF j
<1>4. Typed(j, Len(commits))
  BY <1>1, <1>2, <1>3 DEF Typed
<1>5. Between(j, Current(j))
  BY <1>2, <1>3 DEF Between
<1>6. Lands(h, j)
  BY <1>2, <1>4, <1>5, QuietLands DEF Placed, After
<1> QED
  BY <1>6 DEF Answer, j

LEMMA PlaceLands ==
  ASSUME IInv, MomentInv, NEW h \in Handlers, job[h].pc \notin After, UNCHANGED dataVars,
         NEW l \in {"authorize", "body", "database", "stalled"},
         Becomes(h, [job[h] EXCEPT !.pc = l])
  PROVE  \E j : Becomes(h, j) /\ Lands(h, j)
<1> DEFINE j == [job[h] EXCEPT !.pc = l]
<1>1. DOMAIN job[h] = Fields /\ Typed(job[h], Len(commits))
  BY DEF IInv, JobsInv, Honest, MomentInv, Placed
<1>2. /\ j.pc = l /\ j.status = job[h].status /\ j.op = job[h].op /\ j.made = job[h].made
      /\ j.seen = job[h].seen /\ j.audited = job[h].audited
      /\ j.joined = job[h].joined /\ j.from = job[h].from
  BY <1>1 DEF Fields
<1> HIDE DEF j
<1>3. Typed(j, Len(commits))
  BY <1>1, <1>2 DEF Typed
<1>4. Between(j, Current(j))
  BY <1>2 DEF Between
<1>5. Lands(h, j)
  BY <1>3, <1>4, QuietLands DEF Placed
<1> QED
  BY <1>5 DEF j

(* The body may name the version an update expects.                        *)
LEMMA BodyLands ==
  ASSUME IInv, MomentInv, NEW h \in Handlers, job[h].pc = "body", UNCHANGED dataVars, NEW b,
         Becomes(h, [job[h] EXCEPT !.pc = "database", !.base = b])
  PROVE  \E j : Becomes(h, j) /\ Lands(h, j)
<1> DEFINE j == [job[h] EXCEPT !.pc = "database", !.base = b]
<1>1. DOMAIN job[h] = Fields /\ Typed(job[h], Len(commits))
  BY DEF IInv, JobsInv, Honest, MomentInv, Placed
<1>2. /\ j.pc = "database" /\ j.status = job[h].status /\ j.op = job[h].op
      /\ j.made = job[h].made /\ j.seen = job[h].seen /\ j.audited = job[h].audited
      /\ j.joined = job[h].joined /\ j.from = job[h].from
  BY <1>1 DEF Fields
<1> HIDE DEF j
<1>3. Typed(j, Len(commits))
  BY <1>1, <1>2 DEF Typed
<1>4. Between(j, Current(j))
  BY <1>2 DEF Between
<1>5. Lands(h, j)
  BY <1>3, <1>4, QuietLands DEF Placed, After
<1> QED
  BY <1>5 DEF j

LEMMA EndedLands ==
  ASSUME IInv, NEW h \in Handlers, Becomes(h, Ended), UNCHANGED dataVars
  PROVE  \E j : Becomes(h, j) /\ Lands(h, j)
<1>1. /\ Ended.pc = "ended" /\ Ended.op = "none" /\ Ended.made = 0 /\ Ended.seen = 0
      /\ Ended.status = 0 /\ Ended.audited = {} /\ Ended.joined = 0 /\ Ended.from = 0
  BY DEF Ended, Idle, None
<1>2. Len(commits) \in Nat
  BY DEF IInv, DataInv
<1>3. Typed(Ended, Len(commits))
  BY <1>1, <1>2 DEF Typed, Statuses
<1>4. Between(Ended, Current(Ended))
  BY <1>1 DEF Between
<1>5. Lands(h, Ended)
  BY <1>1, <1>3, <1>4, QuietLands DEF Placed, After
<1> QED
  BY <1>5

(* An answer with an audit record, if there is an audit log.               *)
LEMMA AuditedPlaced ==
  ASSUME NEW k, NEW n, NEW current, NEW status \in Statuses, NEW outcome, NEW guarded,
         DOMAIN k = Fields, Typed(k, n), status = 200 => Lags(k)
  PROVE  /\ Placed(Audited(k, status, outcome, guarded), n, current)
         /\ Audited(k, status, outcome, guarded).pc \in {"record", "send"}
<1> DEFINE j == Audited(k, status, outcome, guarded)
<1>1. /\ j.pc \in {"record", "send"} /\ j.status = status /\ j.op = k.op /\ j.made = k.made
      /\ j.seen = k.seen /\ j.audited = k.audited /\ j.overtaken = k.overtaken
      /\ j.past = k.past /\ j.count = k.count /\ j.joined = k.joined /\ j.from = k.from
  BY DEF Audited, Fields
<1> HIDE DEF j
<1>2. Typed(j, n)
  BY <1>1 DEF Typed
<1>3. Between(j, current)
  BY <1>1 DEF Between, Lags
<1>4. Placed(j, n, current) /\ j.pc \in {"record", "send"}
  BY <1>1, <1>2, <1>3 DEF Placed
<1> QED
  BY <1>4 DEF j

LEMMA AuditedLands ==
  ASSUME NEW h \in Handlers, NEW k, NEW status \in Statuses, NEW outcome, NEW guarded,
         UNCHANGED dataVars, DOMAIN k = Fields, Typed(k, Len(commits)),
         status = 200 => Lags(k), Becomes(h, Audited(k, status, outcome, guarded))
  PROVE  \E j : Becomes(h, j) /\ Lands(h, j)
<1> DEFINE j == Audited(k, status, outcome, guarded)
<1>1. Placed(j, Len(commits), Current(j)) /\ j.pc \in {"record", "send"}
  BY AuditedPlaced
<1>2. Becomes(h, j)
  OBVIOUS
<1> HIDE DEF j
<1>3. Lands(h, j)
  BY <1>1, QuietLands DEF After
<1> QED
  BY <1>2, <1>3

LEMMA AtOnceLands ==
  ASSUME NEW h \in Handlers, NEW k, NEW status \in Statuses, NEW outcome, NEW guarded,
         UNCHANGED dataVars, DOMAIN k = Fields, Typed(k, Len(commits)),
         Lags(k), Becomes(h, Audited(k, status, outcome, guarded))
  PROVE  \E j : Becomes(h, j) /\ Lands(h, j)
<1>1. status = 200 => Lags(k)
  OBVIOUS
<1> QED
  BY ZenonT(40), <1>1, AuditedLands

(* The version a request finds in the database.                            *)
LEMMA VersionType ==
  ASSUME IInv, NEW h \in Handlers, job[h].pc \in {"database", "count"}
  PROVE  Version(h) \in 0 .. Len(commits) /\ Scope(job[h]) \in Collections
BY DEF Version, IInv, JobsInv, DataInv, Latest, Honest, Scope, Collections

LEMMA MutateLands ==
  ASSUME IInv, MomentInv, NEW h \in Handlers, job[h].pc = "database",
         job[h].op \notin {"list", "checkpoint"}, NEW version, NEW status \in Succeeding,
         Mutate(h, version, status)
  PROVE  \E j : Becomes(h, j) /\ Lands(h, j)
<1> DEFINE n == Len(commits)
           k == [job[h] EXCEPT !.made = Len(commits) + 1, !.base = None, !.count = 1]
           j == Succeeded(k, status)
<1>1. /\ DOMAIN job[h] = Fields /\ Typed(job[h], n) /\ n \in Nat
      /\ commits \in Seq(Commits) /\ job[h].pc \notin After
  BY DEF IInv, JobsInv, DataInv, Honest, MomentInv, Placed, After
<1>2. CASE dbOpen
  <2>1. /\ DOMAIN k = Fields /\ k.op = job[h].op /\ k.made = n + 1 /\ k.seen = job[h].seen
        /\ k.status = job[h].status /\ k.audited = job[h].audited
        /\ k.joined = job[h].joined /\ k.from = job[h].from
    BY <1>1 DEF Fields
  <2>2. Becomes(h, j)
    BY <1>2 DEF Mutate
  <2>3. Len(commits') = n + 1
    BY <1>1, <1>2 DEF Mutate
  <2> HIDE DEF k
  <2>4. Typed(k, n + 1) /\ Lags(k) /\ status \in Statuses
    BY <1>1, <2>1 DEF Typed, Lags, Succeeding, Statuses
  <2>5. Placed(j, n + 1, Current(j)) /\ j.pc \in {"record", "send"}
    BY <2>1, <2>4, AuditedPlaced DEF Succeeded
  <2> HIDE DEF j
  <2>6. Lands(h, j)
    BY <1>1, <2>3, <2>5 DEF Lands, After
  <2> QED
    BY <2>2, <2>6
<1>3. CASE ~dbOpen
  BY <1>3, AnswerLands DEF Mutate, Refusing
<1> QED
  BY <1>2, <1>3

(* The ways of a handler before the database and after it.                 *)
LEMMA AroundLands ==
  ASSUME IInv, MomentInv, NEW h \in Handlers,
         \/ Limit(h) \/ Authorize(h) \/ ReadBody(h) \/ Stall(h) \/ RecordEvent(h) \/ Send(h)
  PROVE  \E j : Becomes(h, j) /\ Lands(h, j)
<1>1. DOMAIN job[h] = Fields /\ Placed(job[h], Len(commits), Current(job[h]))
  BY DEF IInv, JobsInv, Honest, MomentInv
<1>2. UNCHANGED dataVars
  BY DEF Limit, Authorize, ReadBody, Stall, RecordEvent, Send, dataVars
<1>3. CASE Limit(h)
  <2>1. job[h].pc \notin After
    BY <1>3 DEF Limit, At, After
  <2>2. Becomes(h, [job[h] EXCEPT !.pc = "authorize"]) \/ Answer(h, 429)
    BY <1>3 DEF Limit
  <2>3. 429 \in Refusing
    BY DEF Refusing
  <2> QED
    BY <1>2, <2>1, <2>2, <2>3, AnswerLands, PlaceLands
<1>4. CASE Authorize(h)
  <2>1. job[h].pc \notin After
    BY <1>4 DEF Authorize, At, After
  <2>2. ASSUME NEW status \in {401, 403}, NEW guarded,
               Becomes(h, Audited(job[h], status, "denied", guarded))
        PROVE  \E j : Becomes(h, j) /\ Lands(h, j)
    <3>1. Typed(job[h], Len(commits)) /\ status \in Statuses /\ status # 200
      BY <1>1 DEF Placed, Statuses
    <3> QED
      BY <1>1, <1>2, <2>2, <3>1, AuditedLands
  <2>3. ASSUME NEW l \in Dispatched(job[h].op), Becomes(h, [job[h] EXCEPT !.pc = l])
        PROVE  \E j : Becomes(h, j) /\ Lands(h, j)
    <3>1. l \in {"body", "database"}
      BY DEF Dispatched
    <3> QED
      BY <1>2, <2>1, <2>3, <3>1, PlaceLands
  <2>4. CASE ~Authenticates(job[h])
    BY ZenonT(40), <1>4, <2>2, <2>4 DEF Authorize
  <2>5. CASE Authenticates(job[h]) /\ ~Authorized(job[h])
    <3>1. Becomes(h, Audited(job[h], 403, "denied", FALSE))
      BY <1>4, <2>5 DEF Authorize
    <3> QED
      BY <2>2, <3>1
  <2>6. CASE Authenticates(job[h]) /\ Authorized(job[h])
    BY <1>4, <2>3, <2>6 DEF Authorize
  <2> QED
    BY <2>4, <2>5, <2>6
<1>5. CASE ReadBody(h) \/ Stall(h)
  <2>1. job[h].pc = "body" /\ job[h].pc \notin After
    BY <1>5 DEF ReadBody, Stall, At, After
  <2>2. \/ Becomes(h, [job[h] EXCEPT !.pc = "stalled"])
        \/ \E b : Becomes(h, [job[h] EXCEPT !.pc = "database", !.base = b])
        \/ Answer(h, 400) \/ Answer(h, 413) \/ Answer(h, 500)
    BY ZenonT(40), <1>5 DEF ReadBody, Stall
  <2>3. {400, 413, 500} \subseteq Refusing \union {500}
    BY DEF Refusing
  <2> QED
    <3>1. CASE Becomes(h, [job[h] EXCEPT !.pc = "stalled"])
      BY <1>2, <2>1, <3>1, PlaceLands
    <3>2. CASE \E b : Becomes(h, [job[h] EXCEPT !.pc = "database", !.base = b])
      BY <1>2, <2>1, <3>2, BodyLands
    <3>3. CASE Answer(h, 400) \/ Answer(h, 413) \/ Answer(h, 500)
      BY <1>2, <2>3, <3>3, AnswerLands
    <3> QED
      BY <2>2, <3>1, <3>2, <3>3
<1>6. CASE RecordEvent(h)
  <2>1. ASSUME NEW k \in {Written(job[h]), job[h]}, NEW status \in {job[h].status, 500},
               Becomes(h, Recorded(k, status))
        PROVE  \E j : Becomes(h, j) /\ Lands(h, j)
    <3> DEFINE j == Recorded(k, status)
    <3>1. job[h].pc = "record" /\ job[h].outcome \in Outcomes /\ status \in Statuses
      <4>1. Honest(mode, job[h]) /\ job[h].status \in Statuses /\ job[h].pc = "record"
        BY <1>1, <1>6 DEF IInv, JobsInv, Placed, Typed, RecordEvent, At
      <4>2. job[h].outcome \in Outcomes
        BY <4>1 DEF Honest, Outcomes
      <4> QED
        BY <4>1, <4>2 DEF Statuses
    <3>2. /\ DOMAIN k = Fields /\ k.op = job[h].op /\ k.past = job[h].past
          /\ k.seen = job[h].seen /\ k.made = job[h].made /\ k.count = job[h].count
          /\ k.overtaken = job[h].overtaken /\ k.joined = job[h].joined
          /\ k.from = job[h].from
          /\ k.audited \in {job[h].audited, job[h].audited \union {job[h].outcome}}
      <4>1. CASE k = job[h]
        BY <1>1, <4>1
      <4>2. CASE k = [job[h] EXCEPT !.audited = @ \union {job[h].outcome}]
        BY <1>1, <4>2 DEF Fields
      <4> QED
        BY <4>1, <4>2 DEF Written
    <3>3. /\ j.op = k.op /\ j.past = k.past /\ j.pc = "send" /\ j.seen = k.seen
          /\ j.made = k.made /\ j.count = k.count /\ j.overtaken = k.overtaken
          /\ j.joined = k.joined /\ j.from = k.from /\ j.status = status
          /\ j.audited = k.audited
      BY <3>2 DEF Fields, Recorded
    <3>4. Becomes(h, j)
      BY <2>1
    <3> HIDE DEF j
    <3>5. Typed(j, Len(commits))
      BY <1>1, <3>1, <3>2, <3>3 DEF Typed, Placed
    <3>6. Between(j, Current(j))
      BY <1>1, <2>1, <3>1, <3>2, <3>3 DEF Between, Placed, Lags
    <3>7. Lands(h, j)
      BY <1>2, <3>3, <3>5, <3>6, QuietLands DEF Placed, After
    <3> QED
      BY <3>4, <3>7
  <2>2. \/ \E k \in {Written(job[h]), job[h]}, status \in {job[h].status, 500} :
             Becomes(h, Recorded(k, status))
        \/ Becomes(h, Ended)
    <3>1. CASE Becomes(h, Recorded(Written(job[h]), job[h].status))
      BY <3>1
    <3>2. CASE \E k \in {Written(job[h]), job[h]} :
                 Becomes(h, IF k.guarded THEN Recorded(k, 500) ELSE Ended)
      <4>1. PICK k \in {Written(job[h]), job[h]} :
              Becomes(h, IF k.guarded THEN Recorded(k, 500) ELSE Ended)
        BY <3>2
      <4> QED
        BY <4>1
    <3> QED
      BY <1>6, <3>1, <3>2 DEF RecordEvent
  <2> QED
    BY <1>2, <2>1, <2>2, EndedLands
<1>7. CASE Send(h)
  <2>1. Becomes(h, Ended) \/ Answer(h, 400)
    BY <1>7 DEF Send
  <2>2. 400 \in Refusing
    BY DEF Refusing
  <2> QED
    BY <1>2, <2>1, <2>2, EndedLands, AnswerLands
<1> QED
  BY <1>3, <1>4, <1>5, <1>6, <1>7

(* The calls of the database.                                              *)
LEMMA FindLands ==
  ASSUME IInv, MomentInv, NEW h \in Handlers, Find(h)
  PROVE  \E j : Becomes(h, j) /\ Lands(h, j)
<1>0. PICK past \in BOOLEAN :
        Becomes(h, [job[h] EXCEPT !.pc = "count", !.from = Len(commits), !.past = past,
                                  !.seen = IF past THEN None ELSE Version(h)])
  BY DEF Find
<1> DEFINE n == Len(commits)
           j == [job[h] EXCEPT !.pc = "count", !.from = Len(commits), !.past = past,
                               !.seen = IF past THEN None ELSE Version(h)]
<1>1. /\ DOMAIN job[h] = Fields /\ Typed(job[h], n) /\ n \in Nat /\ job[h].pc = "database"
      /\ job[h].op = "list" /\ UNCHANGED dataVars /\ Becomes(h, j)
  BY <1>0 DEF IInv, JobsInv, DataInv, Honest, MomentInv, Placed, Find, Calls, At, dataVars
<1>2. /\ j.pc = "count" /\ j.from = n /\ j.op = job[h].op /\ j.past = past
      /\ j.seen = (IF past THEN None ELSE Version(h)) /\ j.made = job[h].made
      /\ j.status = job[h].status /\ j.audited = job[h].audited /\ j.token = job[h].token
      /\ j.joined = job[h].joined
  BY <1>1 DEF Fields
<1>3. Version(h) \in 0 .. n
  BY <1>1, VersionType
<1> HIDE DEF j
<1>4. Typed(j, n)
  BY <1>1, <1>2, <1>3 DEF Typed, None
<1>5. Version(h) = docs[Scope(j)]
  BY <1>2 DEF Version, Scope
<1>6. Between(j, Current(j))
  BY <1>1, <1>2, <1>5 DEF Between, Current
<1>7. Lands(h, j)
  BY <1>1, <1>4, <1>6, QuietLands DEF Placed, After
<1> QED
  BY <1>1, <1>7

LEMMA CountLands ==
  ASSUME IInv, MomentInv, NEW h \in Handlers, Count(h)
  PROVE  \E j : Becomes(h, j) /\ Lands(h, j)
<1> DEFINE n == Len(commits)
           k == [job[h] EXCEPT !.from = 0, !.overtaken = Overtaken(job[h]),
                               !.count = IF Version(h) = None THEN 0 ELSE 1]
<1>0. UNCHANGED dataVars /\ Becomes(h, Audited(k, 200, "success", TRUE))
  BY Zenon DEF Count, Succeeded, dataVars
<1>1. /\ DOMAIN job[h] = Fields /\ Typed(job[h], n) /\ job[h].pc = "count"
      /\ Between(job[h], Current(job[h])) /\ n \in Nat
  BY DEF IInv, JobsInv, DataInv, Honest, MomentInv, Placed, Count, At
<1>2. /\ DOMAIN k = Fields /\ k.op = job[h].op /\ k.past = job[h].past /\ k.seen = job[h].seen
      /\ k.made = job[h].made /\ k.status = job[h].status /\ k.audited = job[h].audited
      /\ k.count = (IF Version(h) = None THEN 0 ELSE 1)
      /\ k.joined = job[h].joined /\ k.from = 0
  BY <1>1 DEF Fields
<1>3. k.overtaken = Overtaken(job[h])
  BY <1>1 DEF Fields
<1>4. /\ job[h].op = "list"
      /\ ~job[h].past => Overtaken(job[h]) \/ job[h].seen = Version(h)
  BY <1>1 DEF Between, Current, Version
<1> HIDE DEF k
<1>5. Typed(k, n) /\ 200 \in Statuses
  BY <1>1, <1>2 DEF Typed, Statuses
<1>6. ~k.past /\ ~k.overtaken => k.seen = Version(h)
  BY <1>2, <1>3, <1>4
<1>7. Lags(k)
  BY <1>2, <1>4, <1>6 DEF Lags
<1> QED
  BY ZenonT(40), <1>0, <1>2, <1>5, <1>7, AtOnceLands

LEMMA CheckpointLands ==
  ASSUME IInv, MomentInv, NEW h \in Handlers, Checkpoint(h)
  PROVE  \E j : Becomes(h, j) /\ Lands(h, j)
<1> DEFINE n == Len(commits)
           j == [job[h] EXCEPT !.pc = "report", !.seen = Len(commits)]
<1>1. /\ DOMAIN job[h] = Fields /\ Typed(job[h], n) /\ n \in Nat /\ job[h].pc = "database"
      /\ job[h].op = "checkpoint" /\ UNCHANGED dataVars
  BY DEF IInv, JobsInv, DataInv, Honest, MomentInv, Placed, Checkpoint, Calls, At, dataVars
<1>2. /\ j.pc = "report" /\ j.from = job[h].from /\ j.op = job[h].op
      /\ j.seen = n /\ j.made = job[h].made /\ j.status = job[h].status
      /\ j.audited = job[h].audited /\ j.joined = job[h].joined
  BY <1>1 DEF Fields
<1>3. CASE dbOpen
  <2>1. Becomes(h, j)
    BY <1>3 DEF Checkpoint
  <2> HIDE DEF j
  <2>2. Typed(j, n) /\ Between(j, Current(j))
    BY <1>1, <1>2 DEF Typed, Between
  <2>3. Lands(h, j)
    BY <1>1, <2>2, QuietLands DEF Placed, After
  <2> QED
    BY <2>1, <2>3
<1>4. CASE ~dbOpen
  <2>1. Answer(h, 400) /\ 400 \in Refusing
    BY <1>4 DEF Checkpoint, Refusing
  <2> QED
    BY <1>1, <2>1, AnswerLands
<1> QED
  BY <1>3, <1>4

LEMMA ReportLands ==
  ASSUME IInv, MomentInv, NEW h \in Handlers, Report(h)
  PROVE  \E j : Becomes(h, j) /\ Lands(h, j)
<1> DEFINE n == Len(commits)
           k == [job[h] EXCEPT !.count = Len(commits)]
<1>1. /\ DOMAIN job[h] = Fields /\ Typed(job[h], n) /\ UNCHANGED dataVars
      /\ job[h].op = "checkpoint" /\ job[h].from <= job[h].seen
      /\ Becomes(h, Audited(k, 200, "success", TRUE))
  BY DEF IInv, JobsInv, Honest, MomentInv, Placed, Between, Report, At, dataVars, Succeeded
<1>2. /\ DOMAIN k = Fields /\ k.op = job[h].op /\ k.past = job[h].past /\ k.seen = job[h].seen
      /\ k.made = job[h].made /\ k.status = job[h].status /\ k.audited = job[h].audited
      /\ k.count = n /\ k.joined = job[h].joined /\ k.from = job[h].from
  BY <1>1 DEF Fields
<1> HIDE DEF k
<1>3. Typed(k, n) /\ 200 \in Statuses
  BY <1>1, <1>2 DEF Typed, Statuses
<1>4. Lags(k)
  BY <1>1, <1>2 DEF Lags, Typed
<1> QED
  BY ZenonT(40), <1>1, <1>2, <1>3, <1>4, AtOnceLands

(* The calls that are no part of an answer put together from two.          *)
LEMMA CallLands ==
  ASSUME IInv, MomentInv, NEW h \in Handlers,
         \/ Get(h) \/ Insert(h) \/ Patch(h) \/ Delete(h) \/ Aggregate(h) \/ Administer(h)
         \/ CallRaises(h)
  PROVE  \E j : Becomes(h, j) /\ Lands(h, j)
<1>1. /\ DOMAIN job[h] = Fields /\ Typed(job[h], Len(commits)) /\ job[h].pc = "database"
  BY DEF IInv, JobsInv, Honest, MomentInv, Placed, Get, Insert, Patch, Delete, Aggregate,
         Administer, CallRaises, Calls, At
<1>2. 400 \in Refusing /\ 404 \in Refusing /\ {200, 201} \subseteq Succeeding
      /\ 200 \in Statuses /\ 409 \in Statuses /\ 409 # 200
  BY DEF Refusing, Succeeding, Statuses
<1>3. ASSUME UNCHANGED dataVars, job[h].op \notin {"list", "checkpoint"},
             Becomes(h, Succeeded(job[h], 200))
      PROVE  \E j : Becomes(h, j) /\ Lands(h, j)
  <2>1. Lags(job[h]) /\ Becomes(h, Audited(job[h], 200, "success", TRUE))
    BY <1>3 DEF Lags, Succeeded
  <2>2. 200 \in Statuses /\ DOMAIN job[h] = Fields /\ Typed(job[h], Len(commits))
    BY <1>1, <1>2
  <2> QED
    BY ZenonT(40), <1>3, <2>1, <2>2, AtOnceLands
<1>4. CASE Get(h)
  <2>1. UNCHANGED dataVars /\ job[h].op = "get"
    BY <1>4 DEF Get, Calls
  <2>2. CASE Answer(h, 404)
    BY <1>2, <2>1, <2>2, AnswerLands
  <2>3. CASE Becomes(h, Succeeded([job[h] EXCEPT !.seen = Version(h)], 200))
    <3> DEFINE k == [job[h] EXCEPT !.seen = Version(h)]
    <3>1. /\ DOMAIN k = Fields /\ k.op = job[h].op /\ k.seen = Version(h)
          /\ k.made = job[h].made /\ k.status = job[h].status /\ k.audited = job[h].audited
          /\ k.joined = job[h].joined /\ k.from = job[h].from
      BY <1>1 DEF Fields
    <3>2. Becomes(h, Audited(k, 200, "success", TRUE))
      BY <2>3 DEF Succeeded
    <3>3. Version(h) \in 0 .. Len(commits)
      BY <1>1, VersionType
    <3> HIDE DEF k
    <3>4. Typed(k, Len(commits)) /\ Lags(k)
      BY <1>1, <2>1, <3>1, <3>3 DEF Typed, Lags
    <3>5. 200 \in Statuses /\ DOMAIN k = Fields
      BY <1>2, <3>1
    <3> QED
      BY ZenonT(40), <2>1, <3>2, <3>4, <3>5, AtOnceLands
  <2> QED
    BY <1>4, <2>2, <2>3 DEF Get
<1>5. CASE Insert(h) \/ Patch(h) \/ Delete(h)
  <2>1. job[h].op \notin {"list", "checkpoint"}
    BY <1>5 DEF Insert, Patch, Delete, Calls
  <2>2. \/ (Conflict(h) \/ NothingThere(h)) /\ UNCHANGED dataVars
        \/ \E version : \E status \in {200, 201} : Mutate(h, version, status)
    <3>1. CASE Insert(h)
      BY <3>1 DEF Insert
    <3>2. CASE Patch(h)
      <4>1. \/ Conflict(h) /\ UNCHANGED dataVars
            \/ NothingThere(h)
            \/ Mutate(h, Len(commits) + 1, 200)
        BY <3>2 DEF Patch
      <4> QED
        BY <4>1 DEF NothingThere
    <3>3. CASE Delete(h)
      <4>1. NothingThere(h) \/ Mutate(h, None, 200)
        BY <3>3 DEF Delete
      <4> QED
        BY <4>1 DEF NothingThere
    <3> QED
      BY <1>5, <3>1, <3>2, <3>3
  <2>3. CASE Conflict(h) /\ UNCHANGED dataVars
    <3>1. Becomes(h, Audited(job[h], 409, "conflict", FALSE))
      BY <2>3 DEF Conflict
    <3>2. /\ 409 \in Statuses /\ DOMAIN job[h] = Fields /\ Typed(job[h], Len(commits))
          /\ 409 = 200 => Lags(job[h])
      BY <1>1, <1>2
    <3> QED
      BY ZenonT(40), <2>3, <3>1, <3>2, AuditedLands
  <2>4. CASE NothingThere(h) /\ UNCHANGED dataVars
    <3>1. Answer(h, 404) \/ Becomes(h, Succeeded(job[h], 200))
      BY <2>4 DEF NothingThere
    <3> QED
      BY <1>2, <1>3, <2>1, <2>4, <3>1, AnswerLands
  <2>5. CASE \E version : \E status \in {200, 201} : Mutate(h, version, status)
    BY <1>1, <1>2, <2>1, <2>5, MutateLands
  <2> QED
    BY <2>2, <2>3, <2>4, <2>5
<1>6. CASE Administer(h)
  BY <1>3, <1>6 DEF Administer, Calls
<1>7. CASE CallRaises(h)
  <2>1. (Answer(h, 400) \/ Answer(h, 500)) /\ UNCHANGED dataVars
    BY <1>7 DEF CallRaises
  <2> QED
    BY <1>2, <2>1, AnswerLands
<1>8. CASE Aggregate(h)
  <2>1. UNCHANGED dataVars /\ job[h].op \notin {"list", "checkpoint"}
    BY <1>8 DEF Aggregate, Aggregates
  <2>2. PICK own \in {None, Version(h)}, c \in Collections :
          Becomes(h, Succeeded([job[h] EXCEPT !.seen = own, !.joined = docs[c]], 200))
    BY <1>8 DEF Aggregate
  <2> DEFINE k == [job[h] EXCEPT !.seen = own, !.joined = docs[c]]
  <2>3. /\ DOMAIN k = Fields /\ k.op = job[h].op /\ k.seen = own /\ k.joined = docs[c]
        /\ k.made = job[h].made /\ k.status = job[h].status /\ k.audited = job[h].audited
        /\ k.from = job[h].from
    BY <1>1 DEF Fields
  <2>4. Becomes(h, Audited(k, 200, "success", TRUE))
    BY <2>2 DEF Succeeded
  <2>5. own \in 0 .. Len(commits) /\ docs[c] \in 0 .. Len(commits)
    BY <1>1, VersionType DEF IInv, DataInv, Latest, None
  <2> HIDE DEF k
  <2>6. Typed(k, Len(commits)) /\ Lags(k)
    BY <1>1, <2>1, <2>3, <2>5 DEF Typed, Lags
  <2>7. 200 \in Statuses /\ DOMAIN k = Fields
    BY <1>2, <2>3
  <2> QED
    BY ZenonT(40), <2>1, <2>4, <2>6, <2>7, AtOnceLands
<1> QED
  BY <1>4, <1>5, <1>6, <1>7, <1>8

LEMMA StepLands ==
  ASSUME IInv, MomentInv, NEW h \in Handlers, HandlerStep(h) \/ Stall(h)
  PROVE  \E j : Becomes(h, j) /\ Lands(h, j)
BY AroundLands, FindLands, CountLands, CheckpointLands, ReportLands, CallLands DEF HandlerStep

(* So both invariants are kept: the answer that another handler is putting *)
(* together is overtaken once a mutation of its collection is committed,   *)
(* and any other mutation leaves it current.                               *)
LEMMA Elsewhere ==
  ASSUME IInv, NEW h \in Handlers, NEW g \in Handlers, Committed(h), ~UNCHANGED dataVars,
         Len(commits') = Len(commits) + 1, mode' = mode,
         Placed(job[g], Len(commits), Current(job[g])), job'[g] = job[g]
  PROVE  Placed(job'[g], Len(commits'), Current(job[g])')
<1> DEFINE n == Len(commits)
           j == job[g]
           e == [token |-> job[h].token, scope |-> Scope(job[h]), base |-> job[h].base]
<1>1. n \in Nat /\ commits \in Seq(Commits) /\ docs \in [Collections -> Nat]
  BY DEF IInv, DataInv
<1>2. Typed(j, n + 1) /\ j.from \in 0 .. n
  BY <1>1 DEF Placed, Typed
<1>3. PICK version :
        /\ commits' = Append(commits, e) /\ docs' = [docs EXCEPT ![Scope(job[h])] = version]
        /\ job[h].pc = "database"
  BY DEF Committed
<1>4. e \in Commits /\ Scope(job[h]) \in Collections
  BY <1>3, ScopeType DEF IInv, JobsInv, Honest, Commits
<1>5. commits'[n + 1] = e /\ \A i \in 1 .. n : commits'[i] = commits[i]
  BY <1>1, <1>3, <1>4
<1>6. ASSUME j.pc = "count", Current(j) PROVE Current(job[g])'
  <2>1. Scope(job'[g]) = Scope(j) /\ Scope(j)' = Scope(j)
    BY DEF Scope
  <2>2. CASE Overtaken(j)
    <3>1. PICK i \in j.from + 1 .. n : commits[i].scope = Scope(j)
      BY <2>2 DEF Overtaken
    <3>2. i \in j.from + 1 .. Len(commits') /\ commits'[i].scope = Scope(j)
      BY <1>1, <1>2, <1>5, <3>1
    <3>3. Overtaken(job[g])'
      BY <2>1, <3>2 DEF Overtaken
    <3> QED
      BY <3>3 DEF Current
  <2>3. CASE j.seen = docs[Scope(j)] /\ Scope(job[h]) = Scope(j)
    <3>1. n + 1 \in j.from + 1 .. Len(commits') /\ commits'[n + 1].scope = Scope(j)
      BY <1>1, <1>2, <1>5, <2>3
    <3>2. Overtaken(job[g])'
      BY <2>1, <3>1 DEF Overtaken
    <3> QED
      BY <3>2 DEF Current
  <2>4. CASE j.seen = docs[Scope(j)] /\ Scope(job[h]) # Scope(j)
    <3>1. Scope(j) \in Collections
      BY <1>6, VersionType
    <3>2. docs'[Scope(j)] = docs[Scope(j)]
      BY <1>1, <1>3, <2>4, <3>1
    <3> QED
      BY <2>1, <2>4, <3>2 DEF Current
  <2> QED
    BY <1>6, <2>2, <2>3, <2>4 DEF Current
<1>7. Between(j, Current(job[g])')
  BY <1>6 DEF Placed, Between
<1> QED
  BY <1>2, <1>7 DEF Placed

LEMMA StepMoment ==
  ASSUME IInv, MomentInv, NEW h \in Handlers, HandlerStep(h) \/ Stall(h)
  PROVE  MomentInv'
<1>1. PICK j : Becomes(h, j) /\ Lands(h, j)
  BY StepLands
<1>2. mode' = mode /\ Committed(h)
  BY StepCommits
<1>3. \A g \in Handlers : job'[g] = IF g = h THEN j ELSE job[g]
  BY <1>1 DEF Becomes, IInv, JobsInv
<1> SUFFICES ASSUME NEW g \in Handlers
             PROVE  Placed(job'[g], Len(commits'), Current(job[g])')
  BY DEF MomentInv
<1>4. CASE g = h
  <2>1. job'[g] = j /\ Placed(j, Len(commits'), Current(j))
    BY <1>1, <1>3, <1>4 DEF Lands
  <2>2. CASE UNCHANGED dataVars
    <3>1. Current(job[g])' = Current(j)
      BY <1>2, <2>1, <2>2 DEF Current, Overtaken, Scope, dataVars
    <3> QED
      BY <2>1, <3>1
  <2>3. CASE j.pc \in After
    <3>1. Between(j, Current(job[g])')
      BY <2>1, <2>3 DEF Placed, Between, After
    <3> QED
      BY <2>1, <3>1 DEF Placed
  <2> QED
    BY <1>1, <2>2, <2>3 DEF Lands
<1>5. CASE g # h
  <2>1. job'[g] = job[g] /\ Placed(job[g], Len(commits), Current(job[g]))
    BY <1>3, <1>5 DEF MomentInv
  <2>2. CASE UNCHANGED dataVars
    <3>1. Current(job[g])' = Current(job[g])
      BY <1>2, <2>1, <2>2 DEF Current, Overtaken, Scope, dataVars
    <3> QED
      BY <2>1, <2>2, <3>1 DEF dataVars
  <2>3. CASE ~UNCHANGED dataVars
    <3>1. Len(commits') = Len(commits) + 1
      BY <1>1, <2>3 DEF Lands
    <3> QED
      BY <1>2, <2>1, <2>3, <3>1, Elsewhere
  <2> QED
    BY <2>2, <2>3
<1> QED
  BY <1>4, <1>5

(* A handler that commits is done, and was not before.                     *)
LEMMA DoneFinite ==
  IsFiniteSet(Done) /\ Cardinality(Done) \in Nat /\ Cardinality(Done) <= Cardinality(Handlers)
<1>1. IsFiniteSet(Handlers) /\ Done \subseteq Handlers
  BY BoundsAssumption DEF Done
<1> QED
  BY <1>1, FS_Subset, FS_CardinalityType

LEMMA StepCounts ==
  ASSUME IInv, MomentInv, CountInv, NEW h \in Handlers, HandlerStep(h) \/ Stall(h)
  PROVE  CountInv'
<1>1. PICK j : Becomes(h, j) /\ Lands(h, j)
  BY StepLands
<1>2. \A g \in Handlers : job'[g] = IF g = h THEN j ELSE job[g]
  BY <1>1 DEF Becomes, IInv, JobsInv
<1>3. Done \subseteq Done'
  BY <1>1, <1>2 DEF Done, Lands
<1>4. IsFiniteSet(Done') /\ Done' \subseteq Handlers
  BY BoundsAssumption, FS_Subset DEF Done
<1>5. Cardinality(Done) \in Nat /\ Cardinality(Done') \in Nat /\ Len(commits) \in Nat
  BY <1>4, DoneFinite, FS_CardinalityType DEF IInv, DataInv
<1>6. CASE UNCHANGED dataVars
  <2>1. Cardinality(Done) <= Cardinality(Done')
    BY <1>3, <1>4, FS_Subset
  <2> QED
    BY <1>5, <1>6, <2>1 DEF CountInv, dataVars
<1>7. CASE /\ Len(commits') = Len(commits) + 1
           /\ job[h].pc \notin After /\ j.pc \in After
  <2>1. h \notin Done /\ Done \union {h} \subseteq Done'
    BY <1>2, <1>3, <1>7 DEF Done
  <2>2. Cardinality(Done \union {h}) = Cardinality(Done) + 1
    BY <2>1, DoneFinite, FS_AddElement
  <2>3. Cardinality(Done \union {h}) <= Cardinality(Done')
    BY <1>4, <2>1, FS_Subset
  <2> QED
    BY <1>5, <1>7, <2>2, <2>3 DEF CountInv
<1> QED
  BY <1>1, <1>6, <1>7 DEF Lands

PlaceInv == MomentInv /\ CountInv /\ ServerTypes

LEMMA StepTypes ==
  ASSUME ServerTypes, NEW h \in Handlers, HandlerStep(h) \/ Stall(h)
  PROVE  ServerTypes'
<1>1. phase' = phase /\ dbOpen' = dbOpen /\ valid' = valid
  BY DEF HandlerStep, Limit, Authorize, ReadBody, Find, Count, Get, Insert, Patch, Delete,
     Aggregate, Administer, Checkpoint, Report, CallRaises, RecordEvent, Send, Stall, serverVars
<1>2. faults' = faults \/ (faults < MaxFaults /\ faults' = faults + 1)
  BY DEF HandlerStep, Limit, Authorize, ReadBody, Find, Count, Get, Insert, Patch, Delete,
     Aggregate, Administer, Checkpoint, Report, CallRaises, RecordEvent, Send, Stall
<1> QED
  BY <1>1, <1>2, BoundsAssumption DEF ServerTypes

LEMMA AcceptPlaces ==
  ASSUME IInv, PlaceInv, NEW h \in Handlers, NEW op \in Ops, NEW t, Accept(h, op, t)
  PROVE  PlaceInv'
<1> DEFINE j == [Idle EXCEPT !.pc = "limit", !.op = op, !.token = t,
                             !.from = IF op = "checkpoint" THEN Len(commits) ELSE 0,
                             !.late = t \notin valid]
<1>1. /\ j.pc = "limit" /\ j.op = op /\ j.made = 0 /\ j.seen = 0 /\ j.status = 0
      /\ j.audited = {} /\ j.joined = 0 /\ j.from \in {0, Len(commits)}
  BY DEF Idle, None
<1>2. \A g \in Handlers : job'[g] = IF g = h THEN j ELSE job[g]
  BY DEF Accept, Becomes, IInv, JobsInv
<1>3. UNCHANGED <<serverVars, valid, dataVars, faults>> /\ job[h].pc = "idle"
  BY DEF Accept, At
<1> HIDE DEF j
<1>4. Len(commits) \in Nat
  BY DEF IInv, DataInv
<1>5. \A current : Placed(j, Len(commits), current)
  BY <1>1, <1>4 DEF Placed, Typed, Between, Statuses
<1>6. MomentInv'
  <2> SUFFICES ASSUME NEW g \in Handlers
               PROVE  Placed(job'[g], Len(commits), Current(job[g])')
    BY <1>3 DEF MomentInv, dataVars
  <2>1. CASE g = h
    BY <1>2, <1>5, <2>1
  <2>2. CASE g # h
    <3>1. Current(job[g])' = Current(job[g])
      BY <1>2, <1>3, <2>2 DEF Current, Overtaken, Scope, serverVars, dataVars
    <3> QED
      BY <1>2, <2>2, <3>1 DEF PlaceInv, MomentInv
  <2> QED
    BY <2>1, <2>2
<1>7. Done' = Done
  BY <1>1, <1>2, <1>3 DEF Done, After
<1>8. CountInv'
  BY <1>3, <1>7 DEF PlaceInv, CountInv, dataVars
<1>9. ServerTypes'
  BY <1>3 DEF PlaceInv, ServerTypes, serverVars
<1> QED
  BY <1>6, <1>8, <1>9 DEF PlaceInv

LEMMA NextPlaces == IInv /\ PlaceInv /\ [Next]_vars => PlaceInv'
<1> SUFFICES ASSUME IInv, PlaceInv, [Next]_vars PROVE PlaceInv'
  OBVIOUS
<1>1. ASSUME job' = job, mode' = mode, UNCHANGED dataVars PROVE MomentInv' /\ CountInv'
  BY <1>1 DEF PlaceInv, MomentInv, Current, Overtaken, Scope, CountInv, Done, dataVars
<1>2. CASE Construct \/ ServeOpens \/ ServePlainly \/ ServeSecured \/ Close
  <2>1. job' = job /\ mode' = mode /\ UNCHANGED dataVars
    BY <1>2 DEF Construct, ServeOpens, ServePlainly, ServeSecured, Close
  <2>2. ServerTypes'
    BY <1>2 DEF Construct, ServeOpens, ServePlainly, ServeSecured, Close, PlaceInv, ServerTypes
  <2> QED
    BY <1>1, <2>1, <2>2 DEF PlaceInv
<1>3. CASE \E t \in Tokens : Revoke(t)
  <2>1. job' = job /\ mode' = mode /\ UNCHANGED dataVars
    BY <1>3 DEF Revoke, serverVars
  <2>2. ServerTypes'
    BY <1>3, BoundsAssumption DEF Revoke, PlaceInv, ServerTypes, serverVars
  <2> QED
    BY <1>1, <2>1, <2>2 DEF PlaceInv
<1>4. ASSUME NEW h \in Handlers, NEW op \in Ops, NEW t \in Tokens \union {"none"},
             Accept(h, op, t)
      PROVE  PlaceInv'
  BY <1>4, AcceptPlaces
<1>5. ASSUME NEW h \in Handlers, HandlerStep(h) \/ Stall(h) PROVE PlaceInv'
  BY <1>5, StepMoment, StepCounts, StepTypes DEF PlaceInv
<1>6. CASE UNCHANGED vars
  <2>1. ServerTypes'
    BY <1>6 DEF vars, serverVars, PlaceInv, ServerTypes
  <2> QED
    BY <1>1, <1>6, <2>1 DEF vars, serverVars, PlaceInv
<1> QED
  BY <1>2, <1>3, <1>4, <1>5, <1>6 DEF Next

LEMMA InitPlaces == Init => PlaceInv
<1> SUFFICES ASSUME Init PROVE PlaceInv
  OBVIOUS
<1>1. commits = << >> \/ \E e : commits = <<e>>
  BY DEF Init, Stored
<1>2. Len(commits) \in {0, 1}
  BY <1>1
<1>3. /\ Idle.pc = "idle" /\ Idle.op = "none" /\ Idle.made = 0 /\ Idle.seen = 0
      /\ Idle.status = 0 /\ Idle.audited = {} /\ Idle.joined = 0 /\ Idle.from = 0
  BY DEF Idle, None
<1>4. \A h \in Handlers : job[h] = Idle
  BY DEF Init
<1>5. \A current : Placed(Idle, Len(commits), current)
  BY <1>2, <1>3 DEF Placed, Typed, Between, Statuses
<1>6. MomentInv
  BY <1>4, <1>5 DEF MomentInv
<1>7. CountInv
  <2>1. Cardinality(Done) \in Nat
    BY DoneFinite
  <2>2. Len(commits) <= Cardinality(Done) + 1
    <3>1. \A n \in {0, 1} : \A m \in Nat : n <= m + 1
      OBVIOUS
    <3> QED
      BY ONLY <1>2, <2>1, <3>1, Zenon
  <2> QED
    BY <2>2 DEF CountInv
<1>8. ServerTypes
  <2>1. valid = {AuthToken} \/ valid = Tokens
    BY DEF Init
  <2>2. valid \subseteq Tokens
    BY <2>1, TokensAssumption
  <2>3. phase = "down" /\ dbOpen = FALSE /\ faults = 0
    BY DEF Init
  <2>4. faults \in 0 .. MaxFaults
    BY <2>3, BoundsAssumption
  <2> QED
    BY <2>2, <2>3, <2>4 DEF ServerTypes
<1> QED
  BY <1>6, <1>7, <1>8 DEF PlaceInv

LEMMA InductivePlaces == Spec => [](IInv /\ PlaceInv)
BY InductiveInv, InitPlaces, NextPlaces, PTL DEF Spec

(* Every variable keeps its type, and there are never more mutations than  *)
(* handlers, but for one of an earlier server.                             *)
THEOREM TypeCorrect == Spec => []TypeOK
<1>1. IInv /\ PlaceInv => TypeOK
  <2> SUFFICES ASSUME IInv, PlaceInv PROVE TypeOK
    OBVIOUS
  <2>1. Len(commits) \in Versions
    <3>1. Len(commits) \in Nat /\ Cardinality(Handlers) \in Nat
      BY BoundsAssumption, FS_CardinalityType DEF IInv, DataInv
    <3> QED
      BY <3>1, DoneFinite DEF PlaceInv, CountInv, Versions
  <2>2. \A c \in DOMAIN docs : docs[c] \in 0 .. Len(commits)
    BY DEF IInv, DataInv, Latest
  <2>3. \A h \in Handlers :
          /\ job[h].pc \in Steps /\ job[h].op \in Ops \union {"none"}
          /\ {job[h].made, job[h].seen, job[h].joined, job[h].from} \subseteq 0 .. Len(commits)
          /\ job[h].status \in {0, 200, 201, 400, 401, 403, 404, 409, 413, 429, 500}
          /\ job[h].audited \subseteq {"success", "denied", "conflict"}
    BY DEF IInv, JobsInv, Honest, PlaceInv, MomentInv, Placed, Typed, Statuses, Outcomes
  <2> QED
    BY <2>1, <2>2, <2>3 DEF TypeOK, IInv, PlaceInv, ServerTypes
<1> QED
  BY <1>1, InductivePlaces, PTL

(* Rows differ from their count only if a request of the same collection   *)
(* came between the two calls, whatever other handlers do; and a checkpoint*)
(* has all that was committed before it was asked for, and its number all  *)
(* that it has.                                                            *)
THEOREM AnswersLag == Spec => []SecondCallLags
<1>1. IInv /\ PlaceInv => SecondCallLags
  BY DEF PlaceInv, MomentInv, Placed, Between, Lags, SecondCallLags, Answers, At
<1> QED
  BY <1>1, InductivePlaces, PTL
=============================================================================
