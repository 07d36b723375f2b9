# EflortableJD: a verification project

TLA+ models of EflortableJD, a document database in Python, with the TLC runs
that check them and the TLAPS proofs of what matters most. Every definition is
read off the source; `PROJECT.json` ("map") names the lines of each.

## The system

The repository is flat: the modules below lie directly in `src/`. Two packages
its tests use are missing from it, `storage/engine.py` (`Database`,
`Collection`) and `cluster`. What the code that is there requires of the
engine is modelled as an external component; the cluster is not modelled.

| component | source | state | operations | interacts with |
|---|---|---|---|---|
| write-ahead log | wal.py | the file, an append handle | append, replay, truncate | engine, under its lock |
| snapshot file | snapshot.py | snapshot.json, a temporary file | write_snapshot, read_snapshot | engine, backup manager |
| storage engine (external) | - | sequence, documents, history, indexes | mutations, checkpoint, open, close | all of the others |
| hash indexes | hash.py, utils.py | key -> identifiers, per index | create, drop, add, remove, lookup | driven by the collection |
| backup manager | manager.py | backup directory and manifest | create, verify, restore, point_in_time_restore | engine, snapshot |
| command line | main.py | none | cmd_restore; the rest calls one operation | backup manager, engine |
| rate limiter | core.py | a token bucket per address | check | handler threads of the HTTP server |
| audit log | core.py | the file, the hash of its last event | record | handler threads |
| credential store | core.py | the JSON file, a copy per process | create_user, disable_user, issue_token, revoke_token, authenticate | server, CLI, programs |
| access control | core.py | none | authorize, scoped_collection | HTTP server |
| protocol | protocol.py | client socket, connections | call; handler threads | engine |
| HTTP server | http.py | a thread per request; open or closed | routes, serve, close | all of the above |
| query engine | engine.py | none | matches, project, sort_documents | collection |
| path helpers | utils.py | none | get_path, set_path, del_path, contains_value | query engine, indexes, collection |
| metrics text | metrics.py | none | prometheus | HTTP server |

What makes them correct, and what is hard:

- **Durability** (log, snapshot, engine). An acknowledged mutation survives a
  kill or a power loss at any instruction, including those between snapshot,
  rename, directory sync and truncation; a torn tail is forgiven, damage
  elsewhere is not.
- **Backups.** What a verified backup restores to is a state the database was
  in, also when writers run, the restore is killed, files are damaged, and the
  restored database is used on.
- **Indexes.** The incremental index equals a rebuild; unique means unique.
- **Threads.** The limiter, the audit log and the client are shared by threads
  and split their work over locked and unlocked parts.
- **Processes.** The credentials file is shared by processes that cache it.
- **Requests.** A request passes limiter, authentication, authorization, one or
  two database calls, the audit log and the response, each of which may fail,
  while tokens are revoked and the server closes: what its status says must be
  true.
- **Queries.** Missing fields, lists, values of different kinds and early exits
  must not change what a query means; rows come stably ordered and faithfully
  projected.

`PROJECT.json` lists the hazards one by one, at the line where each bites.

## Modules

| module | models | runs |
|---|---|---|
| `WriteAheadLog`, `Snapshot` | the two files, with what the medium may hold | through `StorageEngine` |
| `StorageEngine` | composes both: mutations, checkpoints, starts, failures | `storage_*` |
| `DurableStore` | what the engine promises: the abstract specification | `storage_crash` |
| `StorageProofs` | theorems about `StorageEngine` | - |
| `RateLimiter` | buckets shared by threads | `rate_window` |
| `AuditLog` | `AuditLogger.record` and its constructor | `audit_*` |
| `LimiterAuditProofs` | theorems about `RateLimiter` and `AuditLog` | - |
| `ProtocolClient`, `ClientProofs` | `DatabaseClient`, connections and handlers; theorems | `client_*` |
| `IndexManager`, `IndexProofs` | hash indexes and the documents they follow; theorems | `index_*` |
| `BackupManager`, `BackupProofs` | backup, verify, restore, point-in-time restore, CLI restore; theorems | `backup_restore` |
| `CredentialStore`, `CredentialProofs` | the credentials file and the processes on it; theorems | `credentials_*` |
| `HttpServer`, `HttpServerProofs` | the request handler: composes limiter, access control, database and audit log; theorems | `http_requests` |
| `DocumentPaths` | JSON values and the path helpers | through `QueryEngine` |
| `QueryEngine` | matching, projection, sorting, as operators | through `QueryFind` |
| `QueryFind` | a collection, updates at paths and finds; the meaning of queries | `query_find` |
| `QueryProofs` | theorems about `QueryFind` and the operators it is built from | - |
| `MC...` | constants, symmetry for TLC | |

Definitions whose comment starts with "A mutant:" are plausible mistakes in the
code; nothing in a specification uses them. Each is named under "mutants" with
the property that finds it.

### State and actions

**Write-ahead log.** `log` is the content of `wal.log` every process sees,
`disk` the set of contents a power loss may leave, `buffer` what the handle keeps
of lines whose writing raised (any later flush writes them). A line is a record, a torn
line (no newline), `garbled` (decoding or applying it raises) or `badsum`.
`Intact`, `Replayed`, `IgnoredAsTorn` and `ReplayFails` are the loop of
`replay`; `Written` joins a record to an unterminated last line as `append`
does in mode `a+b`; `WriteFails` is a write or flush that raises and leaves the
line in the buffer, in the file in part, or nowhere. An fsync that returns
makes the whole file durable, also after one that raised.

**Snapshot.** One action per effect of `write_snapshot`: write, fsync, replace,
directory fsync. `snapDisk` holds the snapshots the directory entry may show
after a power loss.

**Storage engine.** The lock of the engine makes one call a sequence of steps;
`pc` is the step. `BeginMutation; AppendRecord; CommitMutation` is a mutation,
`AppendFails` and `SyncFails` are the two ways its append raises (wal.py:37, 40:
nothing is applied, no number is consumed, and the client gets an error),
`BeginCheckpoint; SyncSnapshot; InstallSnapshot; SyncDirectory; DropLog;
FinishCheckpoint` a checkpoint, which `CheckpointFails` may end early. `FlushBuffered`
is any flush that writes what an append has left in the buffer. `Kill`, `PowerLoss` and `Decay` may come between
any two. A mutation is a number; the state of the database is the set of
records applied.

**Rate limiter.** Tokens are counted in units so that the fractions of the code
become integers. `Lookup` is the part of `check` under the limiter's lock,
`Admit` and `Refuse` are `consume`; `Tick` and other threads may come between.

**Audit log.** `Build` reads `_previous_hash` outside the lock, as the code
does; `Acquire`, `WriteLine`, `SyncLine`, `Publish` are the locked part, and
`WriteFails` and `SyncFails` the exceptions. A hash stands for its event.

**Protocol client.** One action per use of the lock, of `self._socket` or of the
connection: `self._socket` is read anew each time. `Fails` is an exception the
`except` clause of `call` names, `Stray` any other. `Handle` is one turn of a
handler thread, which dispatches the request (successfully or not).

**Indexes.** A value is its equality class, its hashability, its repr, and its
repr after a round through JSON: that is all `_key` can tell. `ReadBack` gives a
document the reprs JSON leaves it, so that a dictionary comes back in the order
of its sorted keys. Names of length
one are single-field indexes. `Insert`, `Update`, `Delete` are the collection
(external): preflight against the unique indexes, then `remove` and `add` on
each index. `Reopen` rebuilds every exported index from the stored documents.

**Backup manager.** A directory is a snapshot (with history) and a log, and the
live database is what its files load to, which `StorageEngine` justifies. A hash
is the content it is taken of; at most one file of a backup is damaged. `timeline` records the documents after every
sequence number and is what the properties compare with. A restore is
`Begin...`, `PutSnapshot`, `PutLog`, with `Kill` between and during the copies.
Assumed of the engine: it keeps the history it loads and numbers mutations from
the sequence it loads. `Running` says nobody works on a directory in which a
restore was cut short before repeating it.

**Credential store.** Inodes are explicit, because two processes share one
temporary path. `Load` and `TakeTime` are the constructor; `CreateUser`,
`DisableUser`, `IssueToken` and `RevokeToken` change the data in memory (`Change`),
after which `OpenTemporary; WriteTemporary; Replace; TakeTime` are `_persist`;
`CheckTime; ReadAgain; Decide` is `authenticate_token`. The time of a file is that
of a clock with ticks, as `st_mtime_ns` has them: a write may get the time of the
one before. Any process may do any of this at any moment. `revoke_token` of a
token that is not in the data of its process changes nothing, without an error,
and is no step. Four history variables say what can be promised all the same.
`clean` are the processes whose change starts from what the file holds and during
which nobody else writes; `acked` is what clean changes that returned made of each
entry, and is forgotten when a change that is not clean reaches the file; `known`
is what was acknowledged to be withdrawn when a call of `authenticate_token`
began; `misled` are the processes that hold other data than the file although
they have seen its time.

**HTTP server.** `job[h]` is what handler thread `h` is at; its `pc` is the place
in `_handle`: `Limit; Authorize; ReadBody;` one of `Find; Count`, `Get`,
`Insert`, `Patch`, `Delete`, `Aggregate`, `Administer`, `Checkpoint; Report`, `CallRaises`;
`RecordEvent; Send`. `Aggregate` reads the collection of the request (`seen`) and,
for `$lookup`, any other (`joined`): its `from` goes to the database as it came.
`ReadBody` may end in 400, in 413 or, if the connection fails, in 500; `Send` may
find that the answer cannot be written as JSON (http.py:25, 77), and then, if it
was to be a success, goes on to the 400 of http.py:223. Each database call is one step, since the engine holds its
lock, and what lies between two calls is open to other handlers, `Revoke` and
`Close`. An `except` clause is an operator that sets the status: `Audited` for
those that write an audit record first, `Answer` for the others; `guarded` says
whether an exception of `record` is caught. The components with a module of
their own appear as what they promise: the limiter admits or refuses, the
credentials are the set of valid tokens, the database takes a mutation or
raises. A collection is one document and a document its version, the number of
the mutation that wrote it; that versions are never reused and that
`expected_version` is compared under the engine lock is assumed of the engine.

**Queries.** A value is tagged with its kind, a query is the sequence of its
items; an `$and` or `$or` of something else than a list is an item of its own
(`malformed`), and `Numerals` are the strings `int` takes for numbers (`$size`). `Matches` and `Compare` follow the evaluation of one document, with its
early exits (`Throughout`), raised errors and caught `TypeError`s; `Meaning` in
`QueryFind` defines the same queries as an algebra of sets of documents, and
`RowsAsAsked` compares the two. `SortDocuments` uses the comparison of the code,
`InOrder` states what order it should give. The order of texts (`str(v)`) and
the substrings of strings are constants. What the code does with a loop or by
calling itself is a recursive function: over the parts of a path (`Walk`,
`Rebuilt`), over the queries (`Matching`, which `Nesting` makes well-founded),
over the documents (`Among`, `Sorting`) and over the fields (`Shown`). Two lists
are compared at their first difference, and where lists stand there in turn, to
the depth `MaxNesting` (`Deciding`).

## Runs

A passing run checks what holds; a run that expects a violation shows a
disagreement of the code with its own documentation, listed under "findings".

| run | question | bounds |
|---|---|---|
| storage_crash | is anything acknowledged lost by kills, torn writes, power losses? which damage refuses a start, which drops records? is the engine a `DurableStore`? | 3 mutations, any number of checkpoints, crashes and raised writes or fsyncs, any line |
| rate_window | is the limiter exact? | 2 threads, 2 keys, clock to its bound |
| audit_faults | what of the chain holds, and what is kept? | 2 threads, 4 events, every fault |
| client_calls | how often is a call executed, does it end, whose answer does it return? | 2 threads, a call each, one retry |
| index_reprs | index = scan, uniqueness, what a reopening refuses | 3 documents, 2 fields, 3 names, 4 values |
| backup_restore | are restores exact and whole, and does a repeated CLI restore end in the backup? | 2 documents, 3 mutations, 2 directories, 2 restores |
| credentials_shared | which changes are kept, which revocations seen, whatever processes do? | 2 processes, 4 files, 2 ticks, 1 user, 1 token |
| http_requests | what can a status be relied on for, are updates and tenants kept apart, how far apart are two calls of one request, does every request end? | 2 requests, 2 tokens, a stored document, 1 outside event |
| query_find | does a find return what its query means, in order and faithfully? | 3 documents of 11 kinds, 19 queries nested up to 3 deep (`MaxNesting`), 5 sorts, 4 projections |
| storage_torn_tail | violation: `AckedRecoverable` | 2 mutations |
| audit_fork | violation: `ChainUnbroken` | 2 threads, 2 events |
| client_stale_response | violation: `OwnResponse` | 2 threads, a call each |

**Why the bounds are enough.** Three mutations put a record before, in and after
a snapshot, so every overlap of snapshot and log occurs, twice over for
renumbering. Two threads are all a data race needs. Three documents let two
conflict while a third is moved. Three mutations allow a put, a deletion and a
later write around a backup and on each side of a restore. Four credentials files
are the first one, an addition, a withdrawal and one that overtakes, which two
processes can do to each other; with two ticks two writes may get one time or
two. The four values of the index run are a list, the string that is its repr,
and one dictionary in two orders, of which JSON writes one: every case of
`ToldApart`, also across a reopening. Two requests on a database that may hold a document already are
enough for two conditional updates of one version, a read and a write, or a
revocation under way; the outside event (`MaxFaults`) is a revocation, a stalled
client or a failure, and closing the server comes on top. The handlers of the
model take one request each, as the threads of the server do. Three documents
are what an order that is not transitive or not stable needs. Bounds
(`MaxFaults`, `MaxUpdated`, `MaxRestores`, `MaxMutations`, `MaxTime`, `MaxEvents`, `Calls`,
`MaxWrites`) occur only in guards. `CHECK_DEADLOCK FALSE` is set where the
system stops at a bound or stays refused; the others are checked for deadlock.

`DurableStore` has a variable `intact`: it promises what the engine promises as
long as no record was spoiled, and nothing after, so that the refinement is
checked in the run with all faults.

**Fairness.** `CallsEnd` of `client_calls`: `FairSpec` assumes weak fairness of each thread's step inside `call`: threads
are scheduled, and the socket timeout (3 s by default, set on every connection)
ends each wait, so `ReceiveFails` is always enabled while a thread waits. Nothing is assumed of the
server, of the lock being granted fairly, or of new calls being made; the number
of calls is finite, so the lock cannot be snatched for ever.

`RequestsEnd` of `http_requests`: weak fairness of each handler's own steps, that
is, threads are scheduled, calls of the database and the audit log return or
raise, and a client that sends its body also reads the response. The handler has
no socket timeout, so nothing is assumed of a client that stalls; the property
says that it holds up nobody else. No fairness is assumed of new requests, of
revocations or of closing.

## Where the code does not keep the promise

Three disagreements with the documentation are runs of their own and listed
under "findings": the torn tail, the forked chain and the shared client. The
rest are the conditions under which the other properties are stated; dropping a
condition makes TLC find the behaviour.

| condition | where it is stated | what happens without it |
|---|---|---|
| no record ran into a torn line or was damaged | `Safe` | an acknowledged record is skipped as torn, or the next start refused (`storage_torn_tail`) |
| no record was written behind one whose append had raised | `Safe` | the record of the failed append is in the file (wal.py:40), its number is given to the next, and replay refuses the second as non-monotonic (wal.py:61): acknowledged mutations are out of reach. TLC finds it with `IOErrors = TRUE`, `TornWrites = FALSE` for `AckedRecoverable`; a failed append may also show up after a restart (`RestartInvisible`) |
| the directory can be synced | `Safe` (`DirFsync`) | `write_snapshot` swallows the error (snapshot.py:42), the log is truncated, a power loss brings the old snapshot back |
| a final record with a wrong checksum counts as damage | `RefusedOnlyForDamage` | a final record with a bad checksum refuses the start (wal.py:58), although ARCHITECTURE.md:47 calls it a torn write that is not applied |
| threads take turns | `TurnsAreClean` | a call returns another call's answer (`client_stale_response`), or the assertion at protocol.py:172 fails because another thread's `close` came in between |
| no fork is counted | `ChainRooted` instead of `ChainUnbroken` | two threads, or an fsync that raises before the hash is published (core.py:241), make two events with one predecessor |
| the keys tell the values apart | `ToldApart` | equal dictionaries filled in another order pass a unique index (hash.py:22), JSON writes both in one order, and the next start refuses to rebuild the index, although PRODUCTION_INVARIANTS.md:11 says they never contain duplicates; a list and the string that reads like its repr share a key: a lookup of one finds the other, and a unique index refuses it |
| an index asked to be unique is new | not stated | `create(unique=True)` returns an existing non-unique index (hash.py:104) |
| no database goes on with a point-in-time restore | `OneBranch` | its history keeps the abandoned future, whose numbers are handed out again (manager.py:105): a later point-in-time restore mixes the two |
| the CLI restore is not cut short | `HalfRestored`, `DirectoryWhole` | between the copies of main.py:107 the old log is replayed over the new snapshot; nor does the command verify the backup, as PRODUCTION_INVARIANTS.md:19 asks |
| nothing is written while the manifest is | not stated | the manifest states a sequence number that is not in the backup (manager.py:43) |
| no request of the same collection is committed between two calls of one, and `as_of` is not given | `SecondCallLags` | the count is not that of the rows: it is a second call and ignores `as_of` (http.py:150), although PRODUCTION_INVARIANTS.md:13 says "A read view is internally consistent"; the sequence number of a checkpoint is read after it and may be above what it includes (http.py:134) |
| a 400 is not that of an answer which cannot be written as JSON | `StatusTellsTheTruth` | `_send` is inside the try: if `_json_bytes` raises ValueError or TypeError (half of a surrogate pair, a value of the embedding program), http.py:223 answers 400 to a mutation that is committed and in the audit log as a success |
| what is read is in the collection of the request | `TenantsApart` | the `from` of a `$lookup` is not scoped (http.py:158, 169; test_query_advanced.py:36 shows that it names another collection of the database): a principal that may write reads the documents of any tenant whose collection it can name, although PRODUCTION_INVARIANTS.md:15 says "Tenant data is isolated"; `?aggregate=1` needs no more than `write`, the `_aggregate` route `admin` |
| the status is not 500 | `StatusTellsTheTruth` | a mutation was committed although the answer is an internal error, when the audit log fails after it (http.py:208) |
| the record of a refusal can be written | `RequestsEnd` counts it as ended | an exception of `record` in an `except` clause drops the connection without a response (http.py:215, 221) |
| `EFDB_CREDENTIALS` is not set | `ServeSecured` | `serve` raises NameError, because http.py:259 names `Path` and does not import it, and leaves the database open; README.md:46 says how to start with it |
| no write of a line was interrupted | `LoggedReadable`, `HeadIsLast` | a torn line in the audit log refuses every later start (core.py:230) |
| the operators are known | `Fits` | an unsupported operator is refused only if some document has the field (engine.py:20); otherwise its condition is false, and `$not` of it true |
| operands of `$in`, `$nin`, `$all` are lists | `Fits` | a number looked up in a string is a TypeError: neither `$in` nor `$nin` holds |
| a column holds numbers and nulls, or strings | `Sortable` | values of different kinds compare by their text (engine.py:112), which together with numbers is not transitive: the rows depend on the order of insertion |
| no other process changes the file between the reading and the replacing of a change | `clean` | no method reads the file before it changes its copy (core.py:111): the change of another process is written over, a revoked token is active again; two that write at once use one temporary file, and one may fail or publish the data of the other |
| the time of the file tells | `misled` | two replacements in one tick of the clock have one `st_mtime_ns`: a process that has read the first never reads the second (core.py:93), and accepts a revoked token until the file is replaced again; the constructor takes the time after it has read (core.py:89), so that a replacement in between is missed in the same way |

## Proofs

`StorageProofs` proves, for all values of the constants, that the specification
of `StorageEngine` implies

- `TypeOK` (`TypeCorrect`),
- `AckedRecoverableWhenSafe` (`AcknowledgedSurvives`),
- `RestartInvisible` (`RestartIsInvisible`),
- `SequenceUnique` (`SequenceNumbersUnique`).

None of them is inductive. A checkpoint makes the log redundant step by step and
a power loss may combine any content of the log in `disk` with any snapshot in
`snapDisk`, so the inductive invariant `IInv` says that every such pair recovers
everything acknowledged, that the visible files agree with the memory of the engine
up to a record being written or one whose append raised (`MemoryMatches`), which
pairs are possible at each `pc`, and that no file is more than one number ahead
(`NoneFarAhead`). `Control` says, also when nothing is safe, that what is buffered
has the next number and belongs to calls that raised. Its parts are named, and the
proof that a step preserves it goes action by action. The last three are stated
while `Safe`, the condition of the table above.

It also proves

- `RefusedOnlyForDamage` (`RefusalsAreForDamage`), in every environment, with or
  without syncing, after damage and after raised appends: `OrderInv` says that a
  record behind an intact prefix is in order or has the number of the one before it,
  whose call had raised, in the log and in every content a power loss may leave,
  since a start continues from the largest number it replayed, and that a snapshot
  is never installed before its data is synced.
- `ImplementsDurableStore` (`EngineIsDurable`), under the hypothesis `Synced`: if
  power can be lost, log and directory are synced. An append, or a flush of what
  one has left, is a `Commit` of `DurableStore`, the end of a mutation an
  `Acknowledge`, an error a `Fail`, a power loss or the truncation of a record that
  failed a `DropSuffix`, and starts are stutters. `IInv` is not enough for the power
  loss: `MediumInv` says that any log and any snapshot of the medium recover an
  initial part (`Near`), in the order of the numbers, of what the visible files
  recover, but for a mutation that failed, and that with the visible log all
  snapshots recover the same.
- `NothingBeforeTailDropped` (`TailOnlyDropped`), an action property, in every
  environment: the first line that is not intact, if the log has one (the least
  number with that property), was ignored as torn by a start that succeeds; an
  undecodable line is ignored only as the last, and `TornInv` says that a line is
  torn only as the last one, in the log and in every content a power loss may
  leave.

`LimiterAuditProofs` proves, of the limiter, `LimiterTypeOK`
(`LimiterTypeCorrect`), `WindowBound` (`WindowBounded`) and
`RefusesOnlyOverLimit` (`RefusalsJustified`). The invariant relates a bucket to
the history: for every earlier admission, the tokens taken since then and the
tokens left never exceed the allowance of the time since, and the tokens left
are exactly what some window, or the full bucket, leaves.

`IndexProofs` proves `TypeOK`, `LookupMatchesScan` (`LookupsMatchScans`),
`UniqueNeverDuplicate` (`NeverDuplicate`) and the action property
`RefusedOnlyForReprs` (`RefusedForReprsOnly`), whatever the values are. The
invariant is about keys, not about values: every index is `Exact`, what building it
anew from the documents would give, which the removal and addition of a key keep
only because the preflight has excluded a conflict in all unique indexes before. A
key is then traced back to the values: for those it tells apart, and only for
those, it is the same exactly if they are equal. A refused opening has two
documents with one key as they are read back; had their keys told them apart
there and in memory, they would have been equal, and had one key, before.

Of the audit log `LimiterAuditProofs` proves `TypeOK`, `ChainRooted` (`ChainStaysRooted`), `HeadIsLast`
(`HeadStaysLast`) and `LoggedReadable` (`LoggedStaysReadable`). `ChainInv` says
that every hash that may still be written as a predecessor, the published one or
that of an event a thread has built, is already in the file, unless an unreadable
line stops the reader before. `LogInv` says that, as long as no write was cut short,
what was logged is on a synced line, nothing logged follows the line of the
published hash, and the last line is that of the thread that is writing.

`HttpServerProofs` proves `NoLostUpdate` (`NoUpdateIsLost`),
`StatusTellsTheTruth` (`StatusIsTrue`), `WithdrawnHasNoEffect`
(`WithdrawnIsRefused`) and `TenantsApart` (`TenantsStayApart`), for any number of
handlers, tokens and events. `Honest` says, for each place a handler can be at, what
it may have committed, counted and recorded by then, including on the way out of
an exception, and that a committed mutation which ends in a 400 was one that is
answered with documents; `Latest` says that a document's version is the last commit
of its collection, so that a version compared under the lock is replaced only once.
`TenantInv` and `WithdrawnInv` are on top of that: what a job has read in its own
collection was committed by its tenant, and what it has joined only an authorized
aggregate can have (`Reading`, `MayWrite`), for each way a step may take a job
(`Goes`). It also proves `TypeOK` (`TypeCorrect`) and `SecondCallLags`
(`AnswersLag`). The types are not a
matter of one step: that the number of commits stays in `Versions` holds because
each handler commits at most once, so `CountInv` counts the handlers that are done
and bounds the commits by them. `Between` says, for each place between two calls of
a request, what the first has returned: the rows are still those of now unless a
mutation of their collection was committed since (`Current`, `Overtaken`), and a
checkpoint includes at least what was committed when it was asked for; since the
commits only grow, the number read after it is not below (`Lags`).

`CredentialProofs` proves `TypeOK` (`TypeCorrect`), `AcknowledgedKept`
(`ChangesKept`) and `WithdrawnRejected` (`RevokedRejected`), with no hypothesis on
what the processes do: any number of them may read, change and write at once, be
killed at any step and go on from what they left. While a clean change is being
written nobody else writes, so the temporary file is its own and its data are those
of the file taken further (`Writing`); once moved to the path, the file has it
(`Written`). What was acknowledged since the last change that was not clean is
therefore reached, entry by entry, by the file (`Kept`), and a change that is not
clean makes all of it forgotten (`UncleanForgets`). `Remembered` says that what a
call of `authenticate_token` knew to be withdrawn is so in the file it reads and,
unless the process is misled, in the data it decides from. The model assumes that
there is a user or a token, since a file without entries is not told from an empty
one.

`ClientProofs` proves `TypeOK`, `ExecutionsBounded` (`RetriesBounded`) and
`TurnsAreClean` (`AnswersAreOwn`), for any number of threads, calls, retries and
connections. A timeout leaves a request behind that a handler may execute later, so
`CountInv` bounds what has happened together with what may still happen: the
executions of a call plus the connections on which its request waits never exceed
the attempts it has made, and no request waits twice on one connection. `TurnInv`
says that, as long as no call began during another, no connection is open but the
socket, and what is under way on it is the request of the thread inside `call`, or
the one response to it, or nothing; between calls nothing.

`BackupProofs` proves `TypeOK` (`TypeCorrect`), `DirectoryWhole`
(`DirectoriesWhole`), `PointInTimeExact` (`RestoresExact`) and `RestoreComplete`
(`RestoresComplete`), the last an action property. What a start loads is a
recursion over the log (`Replaying`); that the recursion has a solution, that its
states are well typed, that records the snapshot includes change nothing and that a
record appended is applied last are shown by looking at the least index at which
they would fail (`LeastNumber`, from the well-foundedness of the numbers), which is
how an induction is done here. None of the properties is inductive: `DirHolds` adds
that no record of a directory is beyond what it loads, and that its history gives
back every state of its timeline, not only the last one, as long as no number was
handed out twice (`OneBranch`, see the table above). A mutation adds an entry that
no earlier number sees and that is the latest for its own (`MaterializedEarlier`,
`MaterializedNow`); backups and restores carry the history along (`BackupInv`,
`Target`), so that a backup of a restored database is exact again.

`QueryProofs` proves `TypeOK` (`TypeCorrect`), `RowsAsAsked` (`RowsAreAsAsked`),
`ProjectionFaithful` (`ProjectionIsFaithful`) and the action property
`PathsIndependent` (`UpdatesStayInTheirPaths`), for documents of any depth, paths
of any length and any number of documents, queries, fields and sort keys.

- The recursive functions of the model are first shown to satisfy their equations
  (`WalkSteps`, `RebuiltSteps`, `MatchingSteps`, `MeaningsSteps`, ...), and then
  what is said of all their arguments, each time by looking at the least number
  at which it would fail (`LeastNumber`); for the queries that number is `Nesting`.
- The inductive invariant `IInv` is small, since a find is one step: a document is a
  mapping with the identifier of its place, made of `Proper` values (`DocsInv`),
  and an answer is what the operators compute from the documents as they are
  (`AnswerInv`). That identifiers stay is itself a fact about paths: no update
  names one that begins with `_id`.
- *Paths.* Two paths of which neither is above the other part somewhere (`Apart`).
  A document that `set_path` has written is taken apart into its layers along the
  path (`Layer`); above the place where a second path leaves it nothing of that
  path is lost, and from there on it is what it was (`SetThere`, `SetElsewhere`,
  `DelThere`, `DelElsewhere`).
- *Projection.* After each field the row shows exactly the fields so far, at and
  below them (`ShownOf`, `ShowMore`), also if one of them is inside another or was
  shown in part before.
- *Matching.* For queries all of whose operands fit their operators (`Regular`),
  the evaluation with its early exits agrees with the set it means, item by item
  (`CompareFits`, `ItemAgrees`, `RegularAgrees`); in particular it never raises.
- *Sorting.* Where the columns are sortable, the comparison of the code is the order
  of the places (`FieldOrderIs`, `DocumentOrderIs`), which is transitive, and placing
  one document after another before the first that is greater keeps the rows ordered,
  equal ones in the order of insertion (`PlacedInOrder`, `SortingIs`).

`PathsIndependent` and `ProjectionFaithful` need nothing but the assumptions on the
constants. The one about the order of texts says that the text of a number comes
before `None`, as digits and signs do: a column of numbers and nulls is ordered by
the texts of the two (engine.py:112).

The proofs rest on the assumptions named in the modules, all of which TLC
evaluates, and on the hypotheses above. Every safety property of the passing runs
is proved. What stays with TLC is liveness (`CallsEnd`, `RequestsEnd`), which is
out of the prover's reach, and the three violations.

## Not modelled

- The protocol dispatcher's operations: one call of the collection each, in the
  same shape as the routes of the HTTP server, and reduced in `ProtocolClient` to
  executing a request.
- Booleans and fractions in documents, `$all` of a string or a mapping, cursors
  and aggregation (which are in the missing engine); regular expressions are
  plain texts.
- The directory entry of a new `wal.log`, which is never synced: a power loss after
  the first mutations of a database could lose the whole file.
- A directory fsync that fails once and works later (`DirFsync` is a constant).
- The counter of errors, which handlers increment without a lock (http.py:224, 227).
- Users with several roles, reserved collection names, expiry of tokens; routes
  that only report counters, and the counters.
- Batches, versions, `as_of` reads, compaction of history and the cluster: their
  code is not in the repository.
- `metrics.py`, the remaining CLI commands and the benchmark format or print.
- Power loss for backups and credentials: neither is synced, and nothing is
  promised of them.

## Plan

1. Done: log, snapshot, engine, their refinement and proofs; rate limiter with
   proofs; audit log; client; indexes; backups; credentials.
2. Done: `HttpServer`, the handler as a composition; `DocumentPaths`,
   `QueryEngine` and `QueryFind`, queries checked against their meaning.
3. Done: proofs of every safety property: the engine with its refinement, the
   limiter, the indexes, the audit log, the client, the HTTP server, the
   credentials, the backups, and the queries.
