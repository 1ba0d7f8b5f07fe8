# A verification project for documind

documind stores PDFs, has them extracted and embedded in the background, and
answers questions about them. This directory holds TLA+ models of its core
logic, the TLC configurations that check them on small instances, and proofs,
checked by TLAPS, of the properties that matter most for every instance.

    tlc -workers 2 -config MCDocumentJobs_safety.cfg MCDocumentJobs.tla
    tlapm DocumentJobs_proofs.tla

## 1. The system

| Part | Code | State | Operations |
|---|---|---|---|
| Document job queue | `api/database.go`, `api/worker.go` | rows of `documents` (status, attempts, lease, backoff, failure kind), their chunks; per worker goroutine the job at hand and its heartbeat | claim, renew, complete, fail, retry; user retry and delete |
| Upload quota and files | `api/documents.go`, `api/database.go`, `api/storage.go`, `api/main.go` | `db_owner_usages`, `upload_reservations`, `documents`, files | reserve, put, commit, release, delete, recover, reconcile |
| Question answering | `api/documents.go` (Ask), `document-processor/service.py` | `answer_reservations`, the active counter, the event stream, history | begin and end an answer, stream, save |
| Processor | `document-processor/service.py` | three semaphores, the draining flag | Process, EmbedQuestion, AnswerQuestion |
| Chunking | `document-processor/service.py` (chunks) | none | cut a text into chunks with offsets and pages |
| Reads | `api/documents.go`, `api/database.go`, `api/storage.go` | none | list by pages, serve ranges of a file |
| Rate limits | `api/database.go` (AllowRate), `api/auth_limiter.go` | buckets per window; in-memory attempts | allow |
| Sessions and accounts | `api/auth.go` | accounts, sessions | register, log in, log out, authenticate |
| Frontend | `frontend/src/hooks` | selected document, list, polls, answer stream | select, search, page, ask, stop, retry, delete |
| In-memory admission | `api/admission.go` | counters and times per owner | reserve, release, begin, end; only used with stores that have no durable quota (tests) |

How they interact. Upload, Delete, Retry and Ask are HTTP handlers of one or
several API processes that share a PostgreSQL database and a file store. Each
process also runs worker goroutines, which poll the database, claim a document
under a lease and stream it through the Python processor over gRPC. The
processes synchronise through the database alone: row locks, conditional
updates on a lease token, and one usage row per owner that quota transactions
lock first. On start a process migrates the schema, recovers expired
reservations and reconciles the file store before it serves.

What is hard: leases that run out under a slow worker, and its late answer;
crashes between any two steps; several instances starting while others serve;
commits whose outcome is unknown; files and rows that no transaction joins;
failures that the code classifies as permanent. Every such hazard has an entry
with its line in `PROJECT.json`, with the properties that watch over it or a
note saying that none does yet.

What makes each part correct:

- *Queue*: one result per document, that of its last claim; every claim costs
  one attempt; nobody gives up early or late; final states are final; whatever
  crashes, every document settles; a valid PDF is failed for good by nothing but
  what its last claim met, and should not be failed for good at all (section 5).
- *Quota and files*: an owner never holds more than the quota; counters drift
  in no direction that harms the owner; refusals are justified; a listed
  document has its file; leftovers go away.
- *Answers*: at most two at a time per owner; a slot is always given back; only
  completed answers are saved, and only the answer that was shown.
- *Processor*: slots are given back on every path; a stream that ends early is
  recognised; draining refuses rather than truncates; chunks hold the whole text.
- *Locks*: transactions that lock several rows never wait for each other in a
  circle.
- *Reads*: a list that is read page by page misses and repeats nothing; a range
  is served exactly.
- *Rate limits*: at most the limit per window (and at most twice over any span
  of that length); in memory, at most the limit over any span.
- *Sessions*: a revoked or expired session is refused.
- *Frontend*: what is shown belongs to the selected document.

## 2. Modules

| Module | Models |
|---|---|
| `DocumentJobs` | the queue: table, worker loop, heartbeat, user requests, clock |
| `JobLifecycle` | what the queue promises an owner; `DocumentJobs` implements it |
| `UploadQuota` | the Upload and Delete handlers of one owner, quota rows, files, recovery and reconciliation |
| `AnswerQuota` | the slots for active answers of one owner: admission, end, expiry, recovery |
| `Quota` | what both quotas promise an owner; `UploadQuota` and `AnswerQuota` implement it |
| `AnswerStream` | one document's questions: Ask, the call to the processor, AnswerQuestion with its callback and slot, the model |
| `UsageLocks` | the row locks of all transactions, one at a time |
| `Accounts` | one account: registration, login, logout, tokens, login limit |
| `Chunking`, `ProcessorStream`, `DocumentReads`, `RateWindows` | algorithms, as operators without state |
| `Algorithms` | applies those to inputs and says what they are for |
| `DocumentJobs_proofs`, `Quota_proofs`, `UploadQuota_proofs`, `AnswerQuota_proofs`, `AnswerStream_proofs`, `UsageLocks_proofs`, `Accounts_proofs`, `Algorithms_proofs` | theorems about them |
| `MC...` | instances for TLC |

### DocumentJobs

`row[d]` is the row of document `d`: `status`, `attempts` (attempt_count),
`token` (lease_token), `failureKind`, and two facts about time, `leaseLive`
(lease_expires_at > NOW()) and `backoff` (next_attempt_at > NOW()). `result` is
the token of the claim whose text and chunks are stored: `Complete` writes both
in one transaction, and foreign keys delete chunks with their row. The random
lease token of a claim is modelled by its number, `claims[d]`; `retries[d]`
counts what the user asked for. `worker[w]` is a goroutine: where `processNext`
is, the job it holds, how `processDocument` ended, and where its heartbeat is.

A transaction or a single UPDATE is one action. The parts that are not atomic
in the code are separate actions:

- PostgreSQL's NOW() is the time at which a transaction starts, so the test of
  the lease in RenewLease, Complete, Fail and Retry is on an instant before the
  update. `HeartbeatTick` and `StopHeartbeat` begin the transaction and record
  the answer in `sawLive`; the token and the status are compared at the update.
- The heartbeat runs beside processing. If its renewal is in flight when
  `stopHeartbeat` cancels its context, `maintainLease` reports the cancellation
  as an error and `processNext` drops the result (`AbandonJob`).
- `Crash` ends a job anywhere. It also stands for a shutdown, whose cancelled
  context makes the finalizing update fail. `SettleFails` stands for a lost
  lease and for an error of the database; in both cases nothing is written.

`ClaimNext` is one transaction of two statements, the sweep of exhausted rows
and the claim. They act on disjoint rows, and the sweep's row locks last until
its commit, so it is one action. Which candidate is claimed is left open,
although the code orders them by age: no property depends on the order, and a
claim that is left open is the harder case for liveness. SKIP LOCKED may hide
every candidate; then only the sweep happens (`ClaimNothing`).

`Outcomes(d)` is what `processDocument` can return for `d` when nothing goes wrong
but what may always do so: a temporary error is always possible, so that every
interleaving of retries is explored, and the file of a deleted document is gone.
`FaultKinds` lists the rest, what makes the worker fail a valid PDF for good: a file
that cannot be read (`worker.go:274`), a processor that drains and ends the stream
early (`service.py:305`), an extraction that times out or whose child process fails
(`service.py:114-120`, reported at 291 as for an invalid PDF), and a text or a chunk
that is larger than the worker accepts (`worker.go:316`, `341`). The constant
`Faults` says which of them may happen. To the queue they are alike, so that a fault
is one outcome; `faulty` is history, the documents whose last claim has met one.
`OnlyLastClaimRejects` is about those: a valid PDF is failed for good only if its
last claim met a fault. A late worker whose own claim met one, or found no file, is
never believed.

### UploadQuota

One owner, because owners share no row: the usage row of an owner is locked
first by every quota transaction, and held to its end, so that each is one
action. The exception is `DeleteOwnedWithUsage`, which reads the document
before it locks: `DeleteRead` and `DeleteRow`.

`handler[u]` is where the Upload handler of request `u` is; the request's
document, reservation and file have the same index because their identifiers
are drawn from it. Files are `temporary` between creation and rename. `usage`
is the owner's row of counters, with the arithmetic of the code, GREATEST
included; the widths of its integers are out of reach for 1000 documents of
bounded size, and are not modelled. `expired` and `old` are facts about time:
the reservation has expired, the file is older than UPLOAD_ORPHAN_MIN_AGE. Any
reservation may expire and any file may age at any moment, so also while its
upload is still running.

`startup` is one starting instance: recovery, then the list, then check and
deletion one object at a time. Other instances serve meanwhile; a new one can
start as soon as this one serves. `UploadCrash` and `DeleteCrash` end a handler
anywhere. A reservation that commits but reports an error is `ReserveUpload`
followed by `UploadCrash`.

A refused admission returns an error and so rolls its recovery back
(`RefuseUpload`): the counters on disk may stay stale, which is harmless since
each admission recomputes them.

Worth knowing: two deletes of one document both succeed and both subtract it,
so that `committedDocuments` can fall below the number of documents.
`NeverOvercounts` states the direction, and `DocumentQuota` that it does not
matter: admission never trusts the stored counters.

`Pool` is the quota that all this implements. In `Quota` there are no counters,
reservations or crashes: a request is granted exactly when it fits beside the
claims that are held or kept. `Claim(u)` reads the claim of an upload off its row in
`documents` and its reservation. A reservation that has expired is a claim that has
*lapsed*: it stands against nobody, and its upload may still commit (`Keep`) until
the next admission or recovery takes it away, all lapsed claims together
(`Revoke`, and the first half of `Grant`). The counters, the recovery that happens
only when somebody asks, the rollback of a refusal and the order of a delete's two
steps are how the code brings this about, and `ImplementsQuota` says that it does.

### AnswerQuota

One owner again, for the same reason. `reservation[r]` is the row of request
`r` in `answer_reservations`, `activeAnswers` the counter in the owner's usage
row, `handler[r]` where the Ask handler is. Two facts about time: `late`, the
generation context has timed out, and `expired`, the reservation is past
`expires_at`. The handler creates the context before BeginAnswer and both use
`answerGenerationTimeout()`, so a reservation outlasts its context; `late` before
`expired` is that order. It assumes that the clocks of the API instances agree:
the instant of expiry is computed by one instance and compared by another.

A generation ends at any moment, late or not, and `EndAnswer` may run much
later, after a recovery has released the reservation and another answer has
taken the slot. `AskCrash` is a crash, or an EndAnswer that fails, whose error
the code drops. `BeginInDoubt` commits and reports an error. Recoveries start
anywhere, since upload admissions and other instances run them as well. What
the answer says, and what is saved of it, is the part of
`AnswerStream`.
`ImplementsQuota` is the same statement as for uploads: a claim is an active
reservation, and it is returned by EndAnswer or taken away by a recovery, never by
both.
The daily rate limit, which Ask asks first, turns away requests that then never
reach this state; a request may stay `new` for ever.

### AnswerStream

Several questions about one document. `ask[r]` is the handler, with the answer
that it has gathered and what it told its client (`outcome`); `call[r]` the gRPC
call, with the events on their way; `server[r]` the processor's thread and,
beside it, the thread that gRPC runs `cancel_response` on. A piece of text is its
number, so that an answer is whole exactly if it is 1, 2, ... up to what the
model `produced`.

The steps are cut where threads or processes can meet. `set_response` stores the
response and then looks at the event; `cancel_response` sets the event and then
looks for the response: four actions, whose every order is explored. A call can
be over for the handler (`ContextDone`) before the processor knows
(`CallCancelled`). A generator that gRPC drops, because the call is over, ends
where it stands and releases its slot (`Leave`). The model may send text, be
done, end early, report an error or be silent. `OLLAMA_CHAT_TIMEOUT` bounds the
wait for its first line (`SetResponse` or `StreamFails`).

EmbedQuestion, the search and the start of the call are one step, which can
fail: they change nothing that the handler looks at later. The quota of
active answers is `AnswerQuota`'s; `AskFails` stands for its refusal as well.
A document is only ever deleted; its status cannot leave `completed`. `Delete`
removes the history through the foreign key, which also makes a later insert
fail (`Insertable`).

### UsageLocks

A transaction is the sequence of the rows it locks; it holds them to its end.
`tx[c]` is what connection `c` runs: the locks it holds and those it has yet to
take. Rows that a statement may or may not find (expired reservations, chunks)
are looked up when their turn comes (`Found`), and skipped if there are none
(`FindNothing`). A document that is no longer what the statement asks for ends the
transaction, unless it is a sweep or a delete (`GoesOn`): this is the check of
`RowsAffected`. `Complete` replaces the chunks of its document (`Written`) and so
always takes their lock. All reservations of one owner count as one lock, which is sound
for the cycles in question because each transaction that locks any of them holds the usage row of
the owner first. Inserting a question takes a share lock of its document and
nothing after it, and so cannot be part of a cycle; it is left out, and so is
RenewLease, which like `Fail` updates one row. `Rollback` may happen at any
time: an error, a lost connection, or PostgreSQL ending a deadlock.

`OnlySweepsDeadlock` is stated about circles of waiting transactions, not as the
absence of deadlock in TLC's sense, because a circle of two is no deadlock of a
third. What remains are sweeps of ClaimNext, whose UPDATE has no order: two
workers can each lock a document that the other is about to sweep. PostgreSQL
ends one, whose worker logs the error and polls again, so that nothing is lost.

### Accounts

One account, as accounts share no rows. Each statement is an action: `login` counts its
attempt, reads the row, compares the password and signs a token, with any other
request in between. Tokens are not stored; `entry[e]` is a request that issues
one, with the version and the time that the token carries. `revoked` is
history: the tokens that existed when a logout took effect. A login that read
the version before a logout and signs its token after it gets a token that is
already worthless, which is harmless. The clock is explicit here because the
windows of the limit and the expiry of tokens are about numbers of ticks.

### The algorithms

`Algorithms` applies each algorithm to its inputs, and the properties compare what
comes out with what was wanted, stated without the algorithm. `input` and `output`
are its variables. A behaviour is one application, or, where the code keeps a state
between events or goes through a loop, the steps one by one:

- `Chunking` knows a text by its layout: how long its pages are, where on them its
  words are, and which words are a paragraph (`IsText`). Offsets are computed from that
  as the code computes them. The iterations of the three loops are steps
  (`GoOnCutting`): one joins a page to `raw_text` and notes where it starts, one cuts
  a paragraph or a window of it, one packs a unit into the current chunk, and the last
  chunk is a step of its own.
- `ProcessorStream` has both ends of the stream of Process. What is sent depends on
  where the run stopped, and why (`Stops`). The receiver has limits of its own, on
  texts, pages, dimensions and embeddings; whether an event `fits` them is a fact
  about it, and the number of chunks is counted. `processDocument` receives one event
  after the other
  (`NextEvent`, `EndOfStream`); the record of a receiver is its local variables and
  its verdict. It is given what Process sends (`Run`) and arbitrary streams
  (`Receive`), which show that the checks need no trust in the sender.
- `RetryBackoff` is the loop of `retryBackoff`, with the width of a Duration:
  `Delays` are the values of its variable, and a doubling may wrap.
- `DocumentReads` has the list and the ranges. A client reads a list page by page
  (`ListPage`), and each page sees a snapshot of its own: any documents may have come
  or gone since the last one. A range is one request.
- `RateWindows` has the limits in memory. A call holds a mutex from its first line to
  its last, so that it is one step (`Admit`, `Attempt`); the time that has passed
  before it is an input. Each key of the limiter has its own limit and window, as
  logins and registrations have. Beside what the code keeps, the records remember
  everything that was ever admitted, which the properties are about.

## 3. Runs

| Run | Instance | Shows |
|---|---|---|
| `jobs_safety` | 2 documents, one without text; 2 workers; 2 attempts; 1 user retry; every fault | fencing of results and of verdicts, attempt accounting, finality, exclusion under a live lease |
| `jobs_liveness` | the same without user retries; fair | every document settles; the refinement of `JobLifecycle` |
| `jobs_drain` | a draining processor | finding: a valid PDF fails for good |
| `upload_quota` | 2 uploads of sizes 1 and 2; room for one document; 2 deletes; every fault | the quota, the direction of the counters, justified refusals; the implementation of `Quota` |
| `upload_files` | 2 uploads; 2 bytes of room; working storage; fair | the byte quota, files of listed documents, removal of orphans |
| `answer_quota` | 4 questions for 2 slots | at most 2 answers are generated at once; the counter is exact; refusals are justified; the implementation of `Quota` |
| `answer_stream` | 2 questions for one slot of the processor, of at most 2 pieces of text and none; clients leave, timeouts, drain, delete; fair | only whole answers are saved; who is told ok finds the answer; slots come back; every request ends; a cancelled model is closed |
| `usage_locks` | 3 connections, 3 owners, 2 documents | only sweeps deadlock |
| `accounts` | 2 registrations, 3 logins, 2 logouts, windows of 2 ticks, 5 moments | revoked sessions stay out; the limits of the windows |
| `algorithms` | the inputs of `MCAlgorithms`, 250,000 states | chunks, streams, backoff, lists, ranges and limits do what they are for |
| `upload_indoubt` | a commit may succeed and report an error | finding: a listed document without its file |
| `upload_temporary` | working storage; fair | finding: temporary files stay |

Why the bounds are enough to meet the hard cases. Two workers are the old and
the new holder of a lease; with two attempts the second claim is also the last,
so that takeover and exhaustion meet; one user retry starts a second round of
claims while workers of the first still run. The second document makes the
sweep and the claim of one transaction meet. `MaxAttempts` is 5 and workers are
any number in the theorems. Uploads of different sizes let the quota of bytes
and that of documents bind separately; two deletes are needed to delete the
same document twice. Four questions for two
slots: one that ends late, one that has taken its slot, one beside them, and one
that is refused. `MaxUserRetries` is the only bound of the queue that the code does not
have, and the theorems hold for any value of it. In `answer_stream`, one slot for
two questions makes a slot that is not given back, or given back twice, show at
once; `MaxTokens` bounds what the model says, which is enough for an answer to be cut
short, and `Watched` names the questions whose clients may leave and of whose
steps fairness is required; the other one competes for the slot under no
assumption. In `usage_locks`, three connections allow circles of two and of three,
and three owners make orders other than ascending and descending. In
`accounts`, the second logout is the stale one, and three logins are one more
than two windows admit. The inputs of `algorithms` are all those up to a size at
which each limit is reached and passed: texts of three pages, blank ones and
paragraphs up to four windows long among them, with few enough `MaxChunks` to
refuse some; every way a run can stop with up to five chunks, of which `MaxProcessedChunks` (3) are accepted, and
streams of three events; 5-bit durations (`MaxDuration` is 15), so that
doubling wraps; lists of three documents, of which some have equal times, read with
every snapshot for every page; numbers below, at and beyond `MaxOffset`. `MaxCalls`,
which is 5, bounds the calls of the admission controller and of the limiter: one
more than fill a limit, expire and fill it again.

Deadlock is checked in `usage_locks` alone: the other models have finitely many
requests, so a run may really end, with every document settled or deleted, and
an algorithm ends with its result or after `MaxCalls` calls. Symmetry is used
where requests are interchangeable: workers in `jobs_safety` and `jobs_drain`,
deletes in `upload_quota`, questions in `answer_quota`, connections in
`usage_locks`, requests of a kind in `accounts`. The runs with liveness use none.

Each property of a passing run is matched by a mutant, a variant of one
operation with a plausible bug, defined right before it, under which the run
finds the property violated (`PROJECT.json`, "mutants").

### Fairness

`DocumentJobs!Fairness`. The poll loop of `startWorker` never ends and is
restarted with its process, so a worker that can claim something does so;
`processingTimeout` bounds `processDocument`; `processNext` waits for its
heartbeat and then for one transaction, and both end, perhaps with an error.
Backoffs elapse. A lease is only required to expire while no heartbeat of its
claim runs: an attended lease may be renewed for ever. Nothing is assumed of
the heartbeat, of crashes or of users.

`UploadQuota!Fairness`. Handlers end, one way or another; clocks advance;
instances are started again and again, and complete their reconciliation. The
last is an assumption on the operation of the system: the code reconciles only
at start. Both fair runs of this module assume that the storage works, because
after an error reconciliation gives up until the next start.

`AnswerStream!Fairness`. Handlers and the processor go on, since their steps
are local or bounded by timeouts; a call that is over is noticed by gRPC on
both sides, which also runs the callback; `answerGenerationTimeout` elapses;
`OLLAMA_CHAT_TIMEOUT` ends the wait for the model's first line. Nothing else is
expected of the model: it may be silent for ever between two lines, and the only
fairness about reading is that a response that has been closed fails at once.
That is why `CancelledSlotsReturn` is about calls that are over: for them the
callback has to close the response. Of a client it is assumed that it reads as long
as it is connected. The server has no write timeout (`api/main.go:70`), so a handler
could wait in a write for one that does not; `EveryAskEnds` says nothing about that
case, which is listed as a hazard.

## 4. Proofs

All theorems hold for any set of documents, workers or requests, any limits and
any combination of the faults (`FilesKept` excludes one, and says so), from
the assumptions that the modules name, which the runs evaluate:

- `DocumentJobs`: `DocsAssumption`, `BoundsAssumption` (at least one attempt),
  `FaultsAssumption` (the faults that may happen are among those listed).
- `UploadQuota`: `UploadsAssumption` (finitely many uploads, sizes are natural
  numbers), `LimitsAssumption`, `FaultsAssumption`.
- `AnswerQuota` and `AnswerStream`: `RequestsAssumption` (finitely many
  questions), `LimitAssumption` and `BoundsAssumption` (at least one slot).
- `UsageLocks`: `OwnersAssumption` (finitely many owners, documents and
  connections; owners are ordered, as their identifiers are).
- `Accounts`: `RequestsAssumption` (finitely many requests, each either
  registers or logs in), `LimitsAssumption` (limits and times are natural
  numbers; a window and a token last at least one tick).
- `Algorithms`: `RequestsAssumption` (a stored file has a size; the numbers of a
  Range are natural numbers), `TextsAssumption` (words are in order, each on one page,
  with whitespace between them, there is one at least, and no paragraph goes beyond its
  page, since an empty line joins two pages), `StreamsAssumption` (a run is one that Process can
  make; other streams are any sequences of events), `BackoffsAssumption` (durations
  are positive, as the configuration demands), `ListingsAssumption` and
  `CallsAssumption` (what the inputs are), and those of the modules it applies:
  `RatesAssumption` and `ReadsAssumption` (limits and windows are natural numbers, not
  zero where the code has constants; documents are ordered by their identifiers),
  `StreamAssumption` (a batch holds at least one chunk; the limit on chunks and the
  largest duration are natural numbers), and `ChunkAssumption` (the
  overlap is smaller than a chunk, as the processor demands when it starts, and
  `MAX_CHUNKS` is positive, which it is by default and which nothing checks).
- `Quota` assumes nothing; `QuotaKept` is about quotas under which fewer claims are
  allowed wherever more are, as they are under a number of documents, of bytes or of
  answers.

| Module | Theorem | States |
|---|---|---|
| `DocumentJobs_proofs` | `TypeCorrect` | `TypeOK`: types, and no document exceeds `MaxAttempts` |
| | `Fencing` | `ResultOfLastClaim` |
| | `NoEarlyGiveUp` | `GivesUpOnlyWhenExhausted` |
| | `AttemptsAccounted` | `EveryClaimIsCounted` |
| | `LastClaimRejects` | `OnlyLastClaimRejects`, whatever faults may happen |
| | `FinalRows`, `LiveLeases` | the action properties `FinalRowsStay`, `LiveLeaseExcludes` |
| | `Refinement` | `DocumentJobs` implements `JobLifecycle!Spec` |
| `UploadQuota_proofs` | `QuotaRespected`, `StorageRespected` | `DocumentQuota`, `StorageQuota` |
| | `TypesKept`, `NothingLeaks` | `TypeOK`, `NeverOvercounts` |
| | `RefusalsAreRight` | the action property `RefusedOnlyWhenFull` |
| | `FilesKept` | `EveryDocumentHasItsFile`, if no commit is in doubt |
| | `UploadsImplementQuota` | `UploadQuota` implements `Quota!Spec` |
| `Quota_proofs` | `QuotaKept` | `WithinQuota`: what is held, lapsed or kept is allowed |
| `AnswerQuota_proofs` | `SlotsAreCounted` | the inductive invariant |
| | `QuotaOfAnswers`, `CounterExact`, `AnswerTypes`, `JustifiedRefusals` | `AnswerQuota`, `CountIsExact`, `TypeOK`, `RefusedOnlyWhenBusy` |
| | `AnswersImplementQuota` | `AnswerQuota` implements `Quota!Spec` |
| `AnswerStream_proofs` | `SavedAnswersAreWhole`, `ToldTheTruth`, `HistoryGoesWithDocument` | `SavedIsWhole`, `OkIsTrue`, `NoHistoryOfDeleted` |
| | `CancellationIsSeen`, `SlotsConserved`, `TypesKept` | `CancelReachesModel`, `SlotsAreConserved`, `TypeOK` |
| `UsageLocks_proofs` | `OnlySweepsWaitInCircles`, `LocksAreExclusive` | `OnlySweepsDeadlock`, `TypeOK` |
| `Accounts_proofs` | `LogoutIsFinal`, `LoginsLimited`, `TypeCorrect` | `RevokedStaysOut`, `AttemptsAreLimited`, `TypeOK` |
| `Algorithms_proofs` | `RangesServed`, `VerdictsRight`, `PagesComplete` | `RangesAsAsked`, `VerdictIsRight`, `PagesListOnce` |
| | `AdmissionsBounded`, `AttemptsBounded`, `BackoffCapped` | `AdmissionKeepsLimits`, `SlidingLimit`, `BackoffIsCapped` |
| | `ChunksCover` | `ChunksCoverText` |

The queue. None of the properties is inductive. `IInv` adds what a row must
look like in each status (`RowOK`: only a processing row has a token, and it is
that of the last claim; a document that is not deleted has been claimed
`retries * MaxAttempts + attempts` times) and what a worker remembers
(`WorkerOK`: its token was issued by a claim of its document, and its attempt is
the row's for as long as the row still carries that token). The last clause is
what makes `Fail` sound: it decides by the worker's attempt and is applied to
the row. From it, `HolderIsLastClaim` says that whoever passes the WHERE clause
holds the last claim. The proof is by rows: lemmas say that each way to rewrite
a row keeps `RowOK`, and that a step disturbs one row, or those the sweep
fails. Both action properties and the refinement are read off the same case
analysis (`StepMovesRows`).

`LastClaimRejects` has an invariant of its own, `VerdictInv`: if a worker holds a
permanent verdict on a valid PDF, the document has been deleted, or its last claim has
met a fault, or the worker is not that of the last claim. Only the second can be
written: a deletion is final (`FinalRowStays`), and a worker of an earlier claim does
not pass the WHERE clause (`HolderIsLastClaim`). `ClaimNext` clears `faulty`, so that
what an earlier claim met counts for nothing once the document is claimed again
(`FaultStep`, `VerdictKept`).

The quota. `QuotaRespected` and `StorageRespected` never mention the counters: an
admission decides on what it has just recomputed, so that it fits beside what
the owner holds, and no other step adds to that. Facts about sums over sets
would need an induction. So `Bytes` is the cardinality of a union of disjoint
blocks, one of `Size[u]` elements for every upload `u`, and the facts about sums
are facts about finite sets (`BytesAddUp`, `FewerBytes`).

The invariant about the counters is `CInv`. The reserved ones are exact; the
committed ones are never more than the documents, and may be less, because a
document that two requests delete is subtracted twice, down to zero at most
(GREATEST). A release subtracts only what is still counted, since it checks the
state of its reservation (`RowInv`); a delete subtracts a document that was
committed (`ReadInv`). A refusal is right because the admission counts only
documents that are listed and reservations that have not expired, which are
distinct uploads that hold space (`RefusalIsRight`).

The files. `FilesKept` needs to know who may still commit
and who may still delete: an upload that can be committed has its file
(`UploadInv`); what a delete is about to remove has lost its row for good
(`DeleterInv`); what reconciliation found unreferenced stays so, since
identifiers are fresh and an upload reserves before it writes (`StartupInv`).
The assumption on commits is needed, as `upload_indoubt` shows.

The answers. `IInv` ties the counter to the active reservations, and these to
the handlers: an answer that is generated and not late has an active
reservation, which is not expired because it is not late; an active reservation
belongs to a handler that is under way or was cut short. The first makes the
quota follow from the number of reservations, the second makes a refusal name
who holds the slots. That EndAnswer checks the state of the reservation is what
keeps the counter exact.

The two refinements. `UploadsImplementQuota` and `AnswersImplementQuota` go action by
action: an admission is `Grant`, a refusal `Refuse`, an expiry `Lapse`, a commit
`Keep`, a release, a delete and EndAnswer are `Return`, a recovery is `Revoke`, and
all other steps leave the claims alone. What they need of the invariants is that the
counters, once recovered, are those of the claims that stand (`ClaimsOfTables`,
`ClaimsOfRows`, `AdmissionAsksQuota`): for uploads this holds although the counters on
disk may be stale or too small, because an admission recomputes them. That a lapsed
claim may be kept is the step that makes the quota worth stating: it is harmless
only because a grant takes away all lapsed claims in the same transaction, and because
the commit checks the state of its reservation. `QuotaKept` is proved of the abstract
quota, once.

The stream of an answer. `OneQuestion` is about one question: where its handler, its call and
the processor can be at the same time (`EndsAgree`); that what was received and,
behind it, what is on its way are the pieces of text in order, all of them
unless the call was cut short (`NothingLost`); and where `set_response` and
`cancel_response` can be at the same time (`CancelSeen`). `SavedIsWhole` follows
from `NothingLost`, since the handler only saves after a stream that ended with
ok, when nothing is on its way any more. A step changes the records of one
question (`StepsAreLocal`), so that each action is looked at for its own
question only. History and slots are shared, and have `Saved`, `Told` and
`SlotsAreConserved`.

The locks. Every transaction is `Disciplined`: it holds and wants only locks of
its footprint, takes none twice, takes the lock that guards another one first,
and takes usage rows in the order of their owners. A circle is excluded by
counting: everybody in it waits for one lock, which has one holder, and as many
are waited for as there are, so that everybody in it also holds something that
another one waits for (`EverybodyWaits`). Hence nobody in it waits for the first
lock of its plan, and nobody for a lock whose guard both its holder and its
waiter hold. A completion and a delete never meet at the chunks of a document,
as what each has found, a document that is processed or chunks of a completed one, stays
so while it is locked (`FoundStays`). What is left (`WhoWaitsForWhat`) are recoveries, which wait for
usage rows, and deletes and sweeps, which wait for documents. A recovery holds a
usage row that is waited for and is smaller than the one it wants itself, by
another recovery again: there is none that wants the smallest (`NoRecoveryWaits`).
A delete that waits for its document holds locks which nobody in the circle
waits for then (`NoDeleteWaits`), so that only sweeps remain.

The sessions. That a revoked token has a smaller version than the account is
inductive only together with `NoneAhead`: no request knows a version that the
account does not have yet, and while there is no account nobody knows one at all.
Registration is the step that needs it, as it sets the version to 0; that it
finds no account is what the unique index of the emails grants. That the
database computes `session_version + 1` makes every logout raise the version, the
stale ones too.

The limit of logins. The bucket of a window is the number of logins admitted in
it (`BucketsCount`), which is the limit for each window. An interval as long as
a window meets at most two of them (`TwoWindows`), which is the other half.

The ranges. `RangesServed` is about a function, for files of any size and numbers
of any magnitude. Each form of a Range (`SuffixAsked`, `OpenAsked`,
`ClosedAsked`) is compared with the set of bytes it asks for: clipping, ranges
that cannot be satisfied and numbers that do not fit are cases of these lemmas.

The limits in memory. `Window` says of the times that a limiter keeps that they are in
order, that none was invented (`Follows`), that none is missing that still lies within
the window (`Covers`), and that no interval of that length has ever held more than the
limit. Forgetting, waiting and admitting keep it (`WindowForgets`, `WindowWaits`,
`WindowAdmits`). The limiter of attempts forgets with the window of the call at hand;
so its invariant `Limiting` is about every window that is no longer than all that
have been asked with, and this is also as much as `SlidingLimit` can promise. For the
admission controller, `Admitting` adds that its numbers are those of what is held,
with bytes counted as in `BytesAddUp`.

The backoff. `Delays` is a recursive function. That it exists on `1 .. attempt`, and
that its values double up to the limit although a doubling may wrap, is shown by the
least attempt for which it would not (`LeastNumber`).

The list. `Listed` is about a client between two pages: its items are in order, all of
them before what is behind the cursor (`ToCome`), and each document that was in every
snapshot so far is listed or still to come. A page (`IsPage`) is the first of what is
behind the cursor, one more than are shown; that the one ahead decides whether there
is more, and the last one shown is the cursor, keeps `Listed`.

The stream of a document. `Taken` says what the receiver is after n events that it has
not rejected: the metadata came first, the batches are numbered and their chunks are
the first ones of the document, in order (`Whole`). So whatever arrives, what is
extracted is whole (`ReceivedSoFar`). For the streams that Process sends, `RunSoFar`
adds how many chunks there are after each batch, and that nothing is rejected but what
does not fit, so that the verdict follows from where the run stopped and whether the
worker's limits hold of what was sent (`Oversize`).

The chunks of a text. `ChunksCut` follows the three loops. `PagesJoined`: the pages that
have been joined are in order, two characters apart. `UnitsCut`: the units hold the
words in order, up to the one that the next unit starts with, which is right behind the
last unit, or, in the middle of a paragraph, an overlap before that. `Packed`: the
current chunk is made of the units from `first` to `packed`, and its tokens are the
cardinality of the set of their words, to which a unit adds its own (`OneMoreUnit`);
`Made`: the chunks before it are good and end where it begins. Which pages a chunk is on
follows from the order of the words alone (`PagesOfSpan`): a page before that of its
first word ends before that word starts, one behind that of its last word starts after
that word ends, and blank pages, whose ranges `max(0, ...)` may make empty, are one or
the other or in between.

Only model-checked is liveness (`EverySubmissionSettles`, `OrphanObjectsAreRemoved`,
`EveryAskEnds`, `CancelledSlotsReturn`), which needs fairness and ENABLED. Induction over
data is out of reach as well, since its theorems take an operator as a parameter, which
the installed provers cannot instantiate. What the code does in a loop or between events
is therefore modelled step by step, and has an inductive invariant; elsewhere an argument
by the smallest element of a set or by cardinalities does (`LeastNumber`,
`NoRecoveryWaits`, `BytesAddUp`).

Every other invariant and action property of the runs is a theorem. The `TypeOK` of
`AnswerQuota` and of `Accounts` is a theorem only: what it says beyond types
follows from properties that the runs check.

## 5. Findings

1. *Draining fails valid PDFs for good* (`jobs_drain`). Between two batches
   `Process` returns without an error when the processor starts to drain
   (`document-processor/service.py:305`). The worker sees a stream that ended
   with too few chunks and fails the document as permanent
   (`api/worker.go:365`), so that its user cannot retry it. The README has
   temporary processor failures return to `queued`. The flag is set when the
   wait of `serve_grpc` is interrupted, as by Ctrl-C on the service run in a
   terminal; a SIGTERM ends the process without draining, and the worker sees
   a temporary error. Aborting with UNAVAILABLE,
   as at the start of `Process`, would. Three other faults lead to the same
   verdict (`FaultKinds`): a failed read of the stored file (`worker.go:274`), an
   extraction that times out or fails (`service.py:291`), and a text or a chunk
   beyond the worker's limits. Whether README's temporary failures include them is
   open; `OnlyInvalidPdfsFailForGood` is refuted by each of them alone.
2. *A commit in doubt loses the file* (`upload_indoubt`). Upload deletes the file
   on any error of the commit (`api/documents.go:160`), although the commit may
   have taken effect. The row stays, is queued and fails for good when the file
   cannot be read.
3. *Temporary files stay* (`upload_temporary`). Reconciliation looks at
   `original.pdf` only (`api/storage.go:237`), so the `.upload-*` file of a Put
   that a crash interrupted is never removed.

Met on the way, and stated by properties that hold:

- A PDF that needs no spaces, as text in Chinese or Japanese, has few and long
  words, and a chunk of 800 of them can exceed the 100,000 bytes that the worker
  accepts (`api/worker.go:341`). The processor also bounds the text by the sum of its
  pages (`service.py:96`), without the breaks that join them (`service.py:278`), so
  that a text just below its limit is above that of the worker (`worker.go:316`); and
  its limits can be configured, the worker's cannot. Such a PDF fails for good; `VerdictIsRight`
  names the case (`Oversize`) and does not call it right.
- A PDF whose extraction times out is reported like one without text, and fails for
  good. `VerdictIsRight` only says that it is not taken for a document.
- The README says that the API allows 10 uploads per hour. The windows are fixed, so
  up to twice the limit pass within an hour: `AttemptsAreLimited` states both
  bounds, for logins, which are counted by the same statement.
- A range whose last number does not fit into 64 bits is refused with 416, although
  a server may clip it (`RangesAsAsked`).
- Two sweeps can deadlock, harmlessly (`UsageLocks`).
- Without a database, an attempt to log in makes the limiter forget registrations of
  the last hour, of any name, because a call prunes all names with its own window
  (`api/auth_limiter.go:48`). `SlidingLimit` holds the limit of a key for windows as
  short as all that were asked with; for the longer window of the key itself it does
  not hold, and no property watches over that. Production runs with a database, where windows are counted separately.

## 6. Not modelled, and the plan

To come, in this order:

1. The frontend's lists and polls against uploads and deletes: a response that
   was under way overwrites what is newer. Its state is React's, which makes it the
   hardest part to model faithfully. The hazards are listed.
2. The ingestion and embedding slots, which are acquired and released like the
   answer slots but without a callback.

Left out for good: rendering, metrics (nothing reads them back), configuration,
migrations (serialised by goose's advisory lock before anything else runs),
vector search (PostgreSQL's), generated code, the S3 client beyond what the
filesystem model says, evaluation scripts, the extraction of text (pypdf's, in a
child process that a timeout ends), passwords and cookies, and which address a
request counts for. The handlers Get, Status, Chunks and Questions only read one
row or a list of rows.
