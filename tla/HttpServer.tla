----------------------------- MODULE HttpServer -----------------------------
(***************************************************************************)
(* The HTTP server of src/http.py: one handler thread per request, which   *)
(* takes it through the rate limiter, authentication, authorization        *)
(* (SecurityManager of src/core.py), the database, the audit log and the   *)
(* response, while other handlers do the same, tokens are revoked, clients *)
(* go away, the audit log or the database raises, and the server closes.   *)
(*                                                                         *)
(* The limiter, the credentials, the audit log and the database have       *)
(* modules of their own; here the first may admit or refuse, the second is *)
(* the set of valid tokens, the third may fail, and a database call is one *)
(* step, as the engine lock makes it.  A collection is reduced to one      *)
(* document, and a document to its version: the number of the mutation     *)
(* that wrote it, 0 while there is none.                                   *)
(* A server with a SecurityManager also has a limiter and an audit log, as *)
(* serve makes it.                                                         *)
(***************************************************************************)
EXTENDS Naturals, Sequences, FiniteSets

CONSTANTS
  Handlers,     \* handler threads, one per request
  Tokens,       \* bearer tokens clients present
  Tenant,       \* the tenant of the principal of each token
  Role,         \* and its role
  AuthToken,    \* the token of a server that has one and no SecurityManager
  Plain,        \* the collection of a server without a SecurityManager
  MaxFaults     \* bound on what fails from outside

ASSUME TokensAssumption ==
  /\ DOMAIN Tenant = Tokens /\ Plain \notin {Tenant[t] : t \in Tokens}
  /\ AuthToken \in Tokens /\ Role \in [Tokens -> {"reader", "writer", "admin"}]
ASSUME BoundsAssumption == IsFiniteSet(Handlers) /\ MaxFaults \in Nat

VARIABLES
  phase,    \* of the server: down, opened, serving, closed, failed
  mode,     \* how it authenticates: open, token or security
  dbOpen,   \* is the database open?
  valid,    \* the tokens that authenticate
  commits,  \* the mutations committed so far
  docs,     \* per collection, the version of its document
  job,      \* what each handler thread is at
  faults    \* what failed from outside so far

serverVars == <<phase, mode, dbOpen>>
dataVars   == <<commits, docs>>
vars == <<serverVars, valid, dataVars, job, faults>>

None == 0

(* "aggregate" is ?aggregate=1; "admin" stands for _index, _explain and    *)
(* _aggregate, which aggregates as well.                                   *)
Aggregates == {"aggregate", "admin"}
Reads      == {"get", "list"} \union Aggregates
Mutations  == {"insert", "patch", "delete"}
Ops        == Reads \union Mutations \union {"checkpoint"}

(* Where a request goes once it is authorized: _read_json, or not.  Of the *)
(* two routes that delete, only that of a collection has a body.           *)
Dispatched(op) ==
  CASE op \in Aggregates \union {"insert", "patch"} -> {"body"}
    [] op = "delete" -> {"body", "database"}
    [] OTHER -> {"database"}

Idle == [pc |-> "idle", op |-> "none", token |-> "none", base |-> None, past |-> FALSE,
         late |-> FALSE, status |-> 0, outcome |-> "none", guarded |-> TRUE, made |-> None,
         seen |-> None, joined |-> None, count |-> 0, from |-> 0, overtaken |-> FALSE,
         audited |-> {}]

Collections == {Plain} \union {Tenant[t] : t \in Tokens}

(* What the server may find in the database: nothing, or the document that *)
(* a request to an earlier server of its kind inserted.                    *)
Stored(m) ==
  {<< >>} \union (IF m = "security"
                    THEN {<<[token |-> t, scope |-> Tenant[t], base |-> None]>> : t \in Tokens}
                    ELSE {<<[token |-> "none", scope |-> Plain, base |-> None]>>})

Ended == [Idle EXCEPT !.pc = "ended"]

Init ==
  /\ phase = "down" /\ mode \in {"open", "token", "security"} /\ dbOpen = FALSE
  /\ valid = IF mode = "token" THEN {AuthToken} ELSE Tokens
  /\ commits \in Stored(mode)
  /\ docs = [c \in Collections |-> IF commits # << >> /\ commits[1].scope = c THEN 1 ELSE None]
  /\ job = [h \in Handlers |-> Idle] /\ faults = 0

----------------------------------------------------------------------------
(* The server: constructed by a program that opened the database, or by    *)
(* the start command through serve.                                        *)

Construct ==
  /\ phase = "down"
  /\ phase' = "serving" /\ dbOpen' = TRUE
  /\ UNCHANGED <<mode, valid, dataVars, job, faults>>

ServeOpens ==
  /\ phase = "down"
  /\ phase' = "opened" /\ dbOpen' = TRUE
  /\ UNCHANGED <<mode, valid, dataVars, job, faults>>

(* Without EFDB_CREDENTIALS there is no SecurityManager.                   *)
ServePlainly ==
  /\ phase = "opened" /\ mode # "security"
  /\ phase' = "serving"
  /\ UNCHANGED <<mode, dbOpen, valid, dataVars, job, faults>>

(* With it, the default of EFDB_AUDIT_LOG is evaluated whether it is used  *)
(* or not, and names Path, which http.py does not import: serve raises     *)
(* outside the try that closes the server.                                 *)
ServeSecured ==
  /\ phase = "opened" /\ mode = "security"
  /\ phase' = "failed"
  /\ UNCHANGED <<mode, dbOpen, valid, dataVars, job, faults>>

(* close: no new requests, then the database is closed; the handlers are   *)
(* daemon threads and are not waited for.                                  *)
Close ==
  /\ phase = "serving"
  /\ phase' = "closed" /\ dbOpen' = FALSE
  /\ UNCHANGED <<mode, valid, dataVars, job, faults>>

Revoke(t) ==
  /\ mode = "security" /\ phase = "serving" /\ t \in valid /\ faults < MaxFaults
  /\ valid' = valid \ {t} /\ faults' = faults + 1
  /\ UNCHANGED <<serverVars, dataVars, job>>

----------------------------------------------------------------------------
(* The ways of a handler through _handle.                                  *)

At(h, l) == job[h].pc = l

Becomes(h, j) == job' = [job EXCEPT ![h] = j]

(* A response that is not audited.                                         *)
Answer(h, status) == Becomes(h, [job[h] EXCEPT !.pc = "send", !.status = status])

(* A response that is, if there is an AuditLogger: guarded inside the try, *)
(* not in an except clause.                                                *)
Audited(j, status, outcome, guarded) ==
  [j EXCEPT !.pc = IF mode = "security" THEN "record" ELSE "send",
            !.status = status, !.outcome = outcome, !.guarded = guarded]

Succeeded(j, status) == Audited(j, status, "success", TRUE)

Conflict(h) == Becomes(h, Audited(job[h], 409, "conflict", FALSE))

(* A request for a checkpoint remembers what had been committed before it. *)
Accept(h, op, t) ==
  /\ phase = "serving" /\ At(h, "idle")
  /\ t \in IF mode = "open" THEN {"none"} ELSE Tokens
  /\ Becomes(h, [Idle EXCEPT !.pc = "limit", !.op = op, !.token = t,
                             !.from = IF op = "checkpoint" THEN Len(commits) ELSE 0,
                             !.late = t \notin valid])
  /\ UNCHANGED <<serverVars, valid, dataVars, faults>>

Limit(h) ==
  /\ At(h, "limit")
  /\ \/ Becomes(h, [job[h] EXCEPT !.pc = "authorize"])
     \/ mode = "security" /\ Answer(h, 429)
  /\ UNCHANGED <<serverVars, valid, dataVars, faults>>

(* A mutant: a token that was issued once is good for ever.                *)
AnyIssued(j) == mode = "open" \/ j.token \in Tokens

Authenticates(j) == mode = "open" \/ j.token \in valid

Permissions ==
  [reader |-> {"read"}, writer |-> {"read", "write"}, admin |-> {"read", "write", "admin"}]

(* A POST needs "write", whatever it does.                                 *)
Required(op) ==
  CASE op \in {"get", "list"} -> "read" [] op = "admin" -> "admin" [] OTHER -> "write"

(* The routes of the server itself need no permission.                     *)
Authorized(j) ==
  mode = "security" /\ j.op # "checkpoint" => Required(j.op) \in Permissions[Role[j.token]]

Authorize(h) ==
  /\ At(h, "authorize")
  /\ CASE ~Authenticates(job[h]) -> Becomes(h, Audited(job[h], 401, "denied", TRUE))
       [] Authenticates(job[h]) /\ ~Authorized(job[h]) ->
            Becomes(h, Audited(job[h], 403, "denied", FALSE))
       [] OTHER -> \E l \in Dispatched(job[h].op) : Becomes(h, [job[h] EXCEPT !.pc = l])
  /\ UNCHANGED <<serverVars, valid, dataVars, faults>>

(* _read_json: the body is an object, which may name an expected_version,  *)
(* or is none, or is longer than 8 MiB, or the connection fails.           *)
ReadBody(h) ==
  /\ At(h, "body")
  /\ \/ /\ \E b \in IF job[h].op = "patch" THEN 0 .. Len(commits) ELSE {None} :
             Becomes(h, [job[h] EXCEPT !.pc = "database", !.base = b])
        /\ UNCHANGED faults
     \/ (Answer(h, 400) \/ Answer(h, 413)) /\ UNCHANGED faults
     \/ faults < MaxFaults /\ faults' = faults + 1 /\ Answer(h, 500)
  /\ UNCHANGED <<serverVars, valid, dataVars>>

(* The client sends no more; there is no timeout.                          *)
Stall(h) ==
  /\ At(h, "body") /\ faults < MaxFaults
  /\ faults' = faults + 1
  /\ Becomes(h, [job[h] EXCEPT !.pc = "stalled"])
  /\ UNCHANGED <<serverVars, valid, dataVars>>

----------------------------------------------------------------------------
(* _dispatch: one action per call of the database.                         *)

(* A mutant: the collection is not scoped by the tenant.                   *)
Unscoped(j) == Plain

Scope(j) == IF mode = "security" THEN Tenant[j.token] ELSE Plain

Version(h) == docs[Scope(job[h])]

Calls(h, op) == At(h, "database") /\ job[h].op = op

(* find, which may look at the past, then count, which may not.            *)
Find(h) ==
  /\ Calls(h, "list")
  /\ \E past \in BOOLEAN :
       Becomes(h, [job[h] EXCEPT !.pc = "count", !.from = Len(commits), !.past = past,
                                 !.seen = IF past THEN None ELSE Version(h)])
  /\ UNCHANGED <<serverVars, valid, dataVars, faults>>

(* Since the first call of a job another request changed its collection.   *)
Overtaken(j) == \E i \in j.from + 1 .. Len(commits) : commits[i].scope = Scope(j)

(* A mutant: the rows of every collection are counted.                     *)
CountAll(h) ==
  /\ At(h, "count")
  /\ Becomes(h, Succeeded([job[h] EXCEPT !.from = 0, !.overtaken = Overtaken(job[h]),
                             !.count = IF \E c \in DOMAIN docs : docs[c] # None THEN 1 ELSE 0],
                          200))
  /\ UNCHANGED <<serverVars, valid, dataVars, faults>>

Count(h) ==
  /\ At(h, "count")
  /\ Becomes(h, Succeeded([job[h] EXCEPT !.from = 0, !.overtaken = Overtaken(job[h]),
                                         !.count = IF Version(h) = None THEN 0 ELSE 1], 200))
  /\ UNCHANGED <<serverVars, valid, dataVars, faults>>

Get(h) ==
  /\ Calls(h, "get")
  /\ IF Version(h) = None
       THEN Answer(h, 404)
       ELSE Becomes(h, Succeeded([job[h] EXCEPT !.seen = Version(h)], 200))
  /\ UNCHANGED <<serverVars, valid, dataVars, faults>>

(* A mutant: applied in memory before it is logged.                        *)
MutateAppliesFirst(h, version, status) ==
  /\ docs' = [docs EXCEPT ![Scope(job[h])] = version]
  /\ IF dbOpen
       THEN /\ commits' = Append(commits, [token |-> job[h].token, scope |-> Scope(job[h]),
                                            base |-> job[h].base])
            /\ Becomes(h, Succeeded(job[h], status))
       ELSE Answer(h, 400) /\ UNCHANGED commits

(* A mutation that passed its checks: logged and applied, or refused by a  *)
(* log that is closed (ValueError).  The answer counts what was changed.   *)
Mutate(h, version, status) ==
  IF dbOpen
    THEN /\ commits' = Append(commits, [token |-> job[h].token, scope |-> Scope(job[h]),
                                        base |-> job[h].base])
         /\ docs' = [docs EXCEPT ![Scope(job[h])] = version]
         /\ Becomes(h, Succeeded([job[h] EXCEPT !.made = Len(commits) + 1, !.base = None,
                                                  !.count = 1],
                                 status))
    ELSE Answer(h, 400) /\ UNCHANGED dataVars

Insert(h) ==
  /\ Calls(h, "insert")
  /\ IF Version(h) # None
       THEN Conflict(h) /\ UNCHANGED dataVars
       ELSE Mutate(h, Len(commits) + 1, 201)
  /\ UNCHANGED <<serverVars, valid, faults>>

(* A mutant: expected_version is not passed on.                            *)
PatchAnyVersion(h) ==
  /\ Calls(h, "patch")
  /\ IF Version(h) = None
       THEN Answer(h, 404) /\ UNCHANGED dataVars
       ELSE Mutate(h, Len(commits) + 1, 200)
  /\ UNCHANGED <<serverVars, valid, faults>>

(* Nothing to change: not found by the route of a document, no rows by     *)
(* that of a collection.                                                   *)
NothingThere(h) ==
  /\ Answer(h, 404) \/ Becomes(h, Succeeded(job[h], 200))
  /\ UNCHANGED dataVars

(* The route of a collection may also insert what it does not find; what   *)
(* the engine does if it is also given an expected_version is not known.   *)
Patch(h) ==
  /\ Calls(h, "patch")
  /\ CASE Version(h) = None ->
            NothingThere(h) \/ (job[h].base = None /\ Mutate(h, Len(commits) + 1, 200))
       [] Version(h) # None /\ job[h].base \notin {None, Version(h)} ->
            Conflict(h) /\ UNCHANGED dataVars
       [] OTHER -> Mutate(h, Len(commits) + 1, 200)
  /\ UNCHANGED <<serverVars, valid, faults>>

Delete(h) ==
  /\ Calls(h, "delete")
  /\ IF Version(h) = None
       THEN NothingThere(h)
       ELSE Mutate(h, None, 200)
  /\ UNCHANGED <<serverVars, valid, faults>>

(* A pipeline reads the collection of the request, now or as of an earlier *)
(* sequence, and $lookup any other: its "from" is passed on as it is given *)
(* and names a collection of the whole database.                           *)
Aggregate(h) ==
  /\ At(h, "database") /\ job[h].op \in Aggregates
  /\ \E own \in {None, Version(h)}, c \in Collections :
       Becomes(h, Succeeded([job[h] EXCEPT !.seen = own, !.joined = docs[c]], 200))
  /\ UNCHANGED <<serverVars, valid, dataVars, faults>>

(* _index and _explain leave the documents as they are.  The routes that   *)
(* answer with counters, /health, /v1/status, metrics and inspect, are     *)
(* left out; /v1/compact is a mutation of none either.                     *)
Administer(h) ==
  /\ Calls(h, "admin")
  /\ Becomes(h, Succeeded(job[h], 200))
  /\ UNCHANGED <<serverVars, valid, dataVars, faults>>

(* checkpoint, then metrics for the sequence number it reports.            *)
Checkpoint(h) ==
  /\ Calls(h, "checkpoint")
  /\ IF dbOpen
       THEN Becomes(h, [job[h] EXCEPT !.pc = "report", !.seen = Len(commits)])
       ELSE Answer(h, 400)
  /\ UNCHANGED <<serverVars, valid, dataVars, faults>>

(* A mutant: the number is read before the checkpoint is taken.            *)
ReportBefore(h) ==
  /\ At(h, "report")
  /\ Becomes(h, Succeeded([job[h] EXCEPT !.count = job[h].from], 200))
  /\ UNCHANGED <<serverVars, valid, dataVars, faults>>

Report(h) ==
  /\ At(h, "report")
  /\ Becomes(h, Succeeded([job[h] EXCEPT !.count = Len(commits)], 200))
  /\ UNCHANGED <<serverVars, valid, dataVars, faults>>

(* The call raises: what it was given is invalid, or the disk failed.      *)
CallRaises(h) ==
  /\ At(h, "database")
  /\ \/ Answer(h, 400) /\ UNCHANGED faults
     \/ /\ faults < MaxFaults
        /\ faults' = faults + 1
        /\ Answer(h, 500)
  /\ UNCHANGED <<serverVars, valid, dataVars>>

----------------------------------------------------------------------------
(* The audit record and the response.                                      *)

Written(j) == [j EXCEPT !.audited = @ \union {j.outcome}]

Recorded(j, status) ==
  [j EXCEPT !.pc = "send", !.status = status, !.outcome = "none", !.guarded = TRUE]

(* A mutant: the response is sent although the event could not be recorded.*)
RecordIgnored(h) ==
  /\ At(h, "record")
  /\ \E j \in {Written(job[h]), job[h]} : Becomes(h, Recorded(j, j.status))
  /\ UNCHANGED <<serverVars, valid, dataVars, faults>>

(* record raises, with the line in the file or not: inside the try this is *)
(* an internal error, in an except clause the connection is dropped.       *)
RecordEvent(h) ==
  /\ At(h, "record")
  /\ \/ /\ Becomes(h, Recorded(Written(job[h]), job[h].status))
        /\ UNCHANGED faults
     \/ /\ faults < MaxFaults /\ faults' = faults + 1
        /\ \E j \in {Written(job[h]), job[h]} :
             Becomes(h, IF j.guarded THEN Recorded(j, 500) ELSE Ended)
  /\ UNCHANGED <<serverVars, valid, dataVars>>

(* A mutant: a response that could not be sent is recorded and sent again. *)
SendAgain(h) ==
  /\ At(h, "send")
  /\ Becomes(h, Ended) \/ Becomes(h, [job[h] EXCEPT !.pc = "record"])
  /\ UNCHANGED <<serverVars, valid, dataVars, faults>>

(* What answers with documents, or with what it was given, may find it     *)
(* impossible to write as JSON (a value of the embedding program, half of  *)
(* a surrogate pair); numbers it can always write.                         *)
Returning == Ops \ {"delete", "checkpoint"}

(* _send: the response is delivered, or the client is gone, in which case  *)
(* the second attempt of the except clause fails as the first did.  Or     *)
(* nothing is sent yet when _json_bytes raises: a success is sent inside   *)
(* the try, and becomes a 400; anything else but a 401 is sent in an       *)
(* except clause, and the connection is dropped.                           *)
Send(h) ==
  /\ At(h, "send")
  /\ \/ Becomes(h, Ended)
     \/ job[h].status \in {200, 201} /\ job[h].op \in Returning /\ Answer(h, 400)
  /\ UNCHANGED <<serverVars, valid, dataVars, faults>>

HandlerStep(h) ==
  \/ Limit(h) \/ Authorize(h) \/ ReadBody(h)
  \/ Find(h) \/ Count(h) \/ Get(h) \/ Insert(h) \/ Patch(h) \/ Delete(h)
  \/ Aggregate(h) \/ Administer(h) \/ Checkpoint(h) \/ Report(h) \/ CallRaises(h)
  \/ RecordEvent(h) \/ Send(h)

Next ==
  \/ Construct \/ ServeOpens \/ ServePlainly \/ ServeSecured \/ Close
  \/ \E t \in Tokens : Revoke(t)
  \/ \E h \in Handlers :
       \/ \E op \in Ops, t \in Tokens \union {"none"} : Accept(h, op, t)
       \/ Stall(h) \/ HandlerStep(h)

Spec == Init /\ [][Next]_vars

(* Threads run, calls of the database return, and a client that does not   *)
(* stall sends its body and reads the response.                            *)
FairSpec == Spec /\ \A h \in Handlers : WF_vars(HandlerStep(h))

----------------------------------------------------------------------------
(* Properties.                                                             *)

Steps == {"idle", "limit", "authorize", "body", "stalled", "database", "count", "report",
          "record", "send", "ended"}

Versions == 0 .. Cardinality(Handlers) + 1

(* Every variable keeps its type; the only statuses are those of the code. *)
TypeOK ==
  /\ phase \in {"down", "opened", "serving", "closed", "failed"}
  /\ mode \in {"open", "token", "security"} /\ dbOpen \in BOOLEAN
  /\ valid \subseteq Tokens
  /\ Len(commits) \in Versions /\ \A c \in DOMAIN docs : docs[c] \in 0 .. Len(commits)
  /\ \A h \in Handlers :
       /\ job[h].pc \in Steps /\ job[h].op \in Ops \union {"none"}
       /\ {job[h].made, job[h].seen, job[h].joined, job[h].from} \subseteq 0 .. Len(commits)
       /\ job[h].status \in {0, 200, 201, 400, 401, 403, 404, 409, 413, 429, 500}
       /\ job[h].audited \subseteq {"success", "denied", "conflict"}
  /\ faults \in 0 .. MaxFaults

Answers(h, statuses) == At(h, "send") /\ job[h].status \in statuses

(* What a client can rely on, whatever failed on the way and although the  *)
(* server may close its database under the handler.  After a success what  *)
(* the answer counts is committed, and nothing else, and the success is in *)
(* the audit log.  After a refusal nothing was committed, and the audit    *)
(* log does not say so; but a 400 to a request that is answered with       *)
(* documents may stand for a success that could not be written as JSON:    *)
(* only the audit log, which has it, tells the two apart.                  *)
StatusTellsTheTruth ==
  \A h \in Handlers :
    /\ Answers(h, {200, 201}) =>
         /\ job[h].op \in Mutations => (job[h].count = 1 <=> job[h].made # None)
         /\ mode = "security" => job[h].audited = {"success"}
    /\ Answers(h, {400, 401, 403, 404, 409, 413, 429}) =>
         \/ job[h].made = None /\ "success" \notin job[h].audited
         \/ /\ job[h].status = 400 /\ job[h].op \in Returning
            /\ mode = "security" => job[h].audited = {"success"}

(* "Conditional writes cannot overwrite a newer version"                   *)
(* (PRODUCTION_INVARIANTS.md): of all the requests that update one version *)
(* of a document with expected_version, at most one is ever committed.     *)
NoLostUpdate ==
  \A i, j \in DOMAIN commits :
    commits[i].base # None /\ commits[i].base = commits[j].base
      /\ commits[i].scope = commits[j].scope => i = j

(* The tenant of the request that wrote a version.                         *)
Writer(version) ==
  IF commits[version].token \in Tokens THEN Tenant[commits[version].token] ELSE Plain

(* "Tenant data is isolated" (PRODUCTION_INVARIANTS.md): the document a    *)
(* tenant has, and every document a request has read in the collection it  *)
(* names, was written by a request of that tenant.  The one way past this  *)
(* is a $lookup, and only of a principal that may write.                   *)
TenantsApart ==
  mode = "security" =>
    /\ \A c \in Collections : docs[c] # None => Writer(docs[c]) = c
    /\ \A h \in Handlers :
         /\ job[h].op \in Reads /\ job[h].seen # None =>
              Writer(job[h].seen) = Tenant[job[h].token]
         /\ job[h].joined # None /\ Writer(job[h].joined) # Tenant[job[h].token] =>
              job[h].op \in Aggregates /\ "write" \in Permissions[Role[job[h].token]]

(* A request that arrived after its token was revoked, or with a token     *)
(* that is not the server's, neither reads nor commits anything.           *)
WithdrawnHasNoEffect ==
  \A h \in Handlers :
    mode # "open" /\ job[h].late =>
      /\ job[h].made = None /\ job[h].seen = None /\ job[h].joined = None
      /\ job[h].status \in {0, 401, 429, 500}

(* How far an answer that is put together from two calls of the database   *)
(* may be from "A read view is internally consistent"                      *)
(* (PRODUCTION_INVARIANTS.md).  Rows of now are not those that are counted *)
(* only if a request of the same collection, so of the same tenant, was    *)
(* committed between the two calls.  A checkpoint includes all that was    *)
(* committed when it was asked for, and the number it is reported with is  *)
(* not below what it includes.                                             *)
SecondCallLags ==
  \A h \in Handlers : Answers(h, {200}) =>
    /\ job[h].op = "list" /\ ~job[h].past /\ ~job[h].overtaken =>
         (job[h].count = 1 <=> job[h].seen # None)
    /\ job[h].op = "checkpoint" =>
         job[h].from <= job[h].seen /\ job[h].seen <= job[h].count

(* Every request ends, with a response or a dropped connection, and so do  *)
(* the others while a client stalls.                                       *)
RequestsEnd == \A h \in Handlers : At(h, "limit") ~> At(h, "ended") \/ At(h, "stalled")
=============================================================================
