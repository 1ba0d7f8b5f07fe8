---------------------------- MODULE DocumentJobs ----------------------------
(***************************************************************************)
(* The document processing queue: the documents table as the workers of    *)
(* the API see it (src/api/database.go) and the worker loop that claims a  *)
(* document under a renewable lease, has the processor extract it and      *)
(* settles the result (src/api/worker.go).                                 *)
(*                                                                         *)
(* A database transaction or a single UPDATE is one action.  Time is not   *)
(* counted: leaseLive says whether lease_expires_at > NOW(), backoff       *)
(* whether next_attempt_at > NOW(), and LeaseExpires and BackoffElapses    *)
(* let the clock pass either instant at any moment.  NOW() is the start of *)
(* a transaction, so a worker's test of its lease uses what it saw when    *)
(* the transaction began (sawLive), not the lease at the update.           *)
(***************************************************************************)
EXTENDS Integers

CONSTANTS
    Docs,             \* documents that may be uploaded
    ValidPdfs,        \* those from which the processor can extract text
    NoDoc,            \* the document of an idle worker
    Workers,          \* worker goroutines, of one API process or of several
    MaxAttempts,      \* DOCUMENT_WORKER_MAX_ATTEMPTS
    MaxUserRetries,   \* bound on the retries a user asks for, per document
    Faults            \* the faults that may happen, of those listed below

\* What makes the worker fail a valid PDF for good.
\*   file        the stored file cannot be read
\*   drain       the processor, shut down, ends the stream early, without error
\*   extraction  extracting the text times out or its child process fails,
\*               which the processor reports as it does an invalid PDF
\*   limits      the text or a chunk is larger than the worker accepts
FaultKinds == {"file", "drain", "extraction", "limits"}

ASSUME DocsAssumption == ValidPdfs \subseteq Docs /\ NoDoc \notin Docs
ASSUME BoundsAssumption == MaxAttempts \in Nat \ {0} /\ MaxUserRetries \in Nat
ASSUME FaultsAssumption == Faults \subseteq FaultKinds

VARIABLES
    row,     \* the documents table, with the chunks that belong to each row
    claims,  \* the number of lease tokens issued for each document
    retries, \* the number of times its user has asked for a retry
    worker,  \* the local state of each worker goroutine
    faulty   \* history: the documents whose last claim has met a fault

vars == <<row, claims, retries, worker, faulty>>

-----------------------------------------------------------------------------
(* The documents table.  A lease token is a fresh random id: it is modelled *)
(* by the number of the claim that issued it.  result is the token of the   *)
(* claim whose text and chunks are stored; Complete writes both at once.    *)

NoToken == 0

Row == [status      : {"absent", "queued", "processing", "completed", "failed", "deleted"},
        attempts    : 0 .. MaxAttempts,
        token       : Nat,
        leaseLive   : BOOLEAN,
        backoff     : BOOLEAN,
        failureKind : {"retryable", "permanent"},
        result      : Nat]

EmptyRow(status) ==
    [status |-> status, attempts |-> 0, token |-> NoToken, leaseLive |-> FALSE,
     backoff |-> FALSE, failureKind |-> "retryable", result |-> NoToken]

\* What every update that ends a lease does to the lease and the backoff.
Unleased(r) ==
    [r EXCEPT !.token = NoToken, !.leaseLive = FALSE, !.backoff = FALSE]

\* Mutant of ClaimedRow: taking over an expired lease costs no attempt.
ClaimedRow_freeTakeover(r, t) ==
    [r EXCEPT !.status = "processing", !.token = t, !.leaseLive = TRUE, !.backoff = FALSE,
              !.attempts = IF r.status = "queued" THEN @ + 1 ELSE @]
ClaimedRow(r, t) ==
    [r EXCEPT !.status = "processing", !.attempts = @ + 1, !.token = t,
              !.leaseLive = TRUE, !.backoff = FALSE]
SweptRow(r)        == [Unleased(r) EXCEPT !.status = "failed"]
CompletedRow(r, t) == [Unleased(r) EXCEPT !.status = "completed", !.result = t]
FailedRow(r, kind) == [Unleased(r) EXCEPT !.status = "failed", !.failureKind = kind]
\* Mutant of RequeuedRow: a temporary failure refunds its attempt.
RequeuedRow_refund(r) ==
    [Unleased(r) EXCEPT !.status = "queued", !.backoff = TRUE, !.attempts = @ - 1,
                        !.failureKind = "retryable"]
RequeuedRow(r)     == [Unleased(r) EXCEPT !.status = "queued", !.backoff = TRUE,
                                          !.failureKind = "retryable"]
ReopenedRow(r)     == [Unleased(r) EXCEPT !.status = "queued", !.attempts = 0,
                                          !.failureKind = "retryable"]

-----------------------------------------------------------------------------
(* The worker loop.  pc is where processNext is:                            *)
(*   processing  processDocument runs under the heartbeat                   *)
(*   returned    it has returned; the heartbeat is still to be stopped      *)
(*   settling    the finalizing transaction has begun and taken its NOW()   *)
(* heartbeat is where maintainLease is: waiting for its ticker, in the      *)
(* middle of RenewLease, or ended by an error.                              *)

Worker == [pc        : {"idle", "processing", "returned", "settling"},
           doc       : Docs \cup {NoDoc},
           token     : Nat,
           attempt   : 0 .. MaxAttempts,
           outcome   : {"none", "extracted", "retryable", "permanent"},
           heartbeat : {"none", "ticking", "renewing", "failed"},
           sawLive   : BOOLEAN]

IdleWorker ==
    [pc |-> "idle", doc |-> NoDoc, token |-> NoToken, attempt |-> 0,
     outcome |-> "none", heartbeat |-> "none", sawLive |-> FALSE]

ClaimingWorker(d, t, n) ==
    [pc |-> "processing", doc |-> d, token |-> t, attempt |-> n,
     outcome |-> "none", heartbeat |-> "ticking", sawLive |-> FALSE]

Init ==
    /\ row = [d \in Docs |-> EmptyRow("absent")]
    /\ claims = [d \in Docs |-> 0]
    /\ retries = [d \in Docs |-> 0]
    /\ worker = [w \in Workers |-> IdleWorker]
    /\ faulty = {}

SetRow(d, r) == row' = [row EXCEPT ![d] = r]
SetWorker(w, s) == worker' = [worker EXCEPT ![w] = s]

-----------------------------------------------------------------------------
(* Claiming a document.                                                     *)

\* Mutants of Due: a lease is taken over before it expires, or never.
Due_ignoresLease(r) == r.status = "processing" \/ (r.status = "queued" /\ ~r.backoff)
Due_queuedOnly(r) == r.status = "queued" /\ ~r.backoff

\* Queued with its backoff over, or processing under a lease that ran out.
Due(r) ==
    \/ r.status = "queued" /\ ~r.backoff
    \/ r.status = "processing" /\ ~r.leaseLive

\* Mutant of Exhausted: the sweep gives up one attempt early.
Exhausted_early(r) == Due(r) /\ r.attempts >= MaxAttempts - 1
Exhausted(r) == Due(r) /\ r.attempts >= MaxAttempts
\* Mutant of Claimable: the candidates are not bounded by their attempts.
Claimable_unbounded(r) == Due(r)
Claimable(r) == Due(r) /\ r.attempts < MaxAttempts

Swept(r) == IF Exhausted(r) THEN SweptRow(r) ELSE r

\* ClaimNext: one transaction fails every due document whose attempts are
\* spent and claims one of the others.  Which one is left open: the ORDER BY
\* only makes the choice fairer than the model's.
ClaimNext(w, d) ==
    /\ worker[w].pc = "idle"
    /\ Claimable(row[d])
    /\ row' = [e \in Docs |-> IF e = d THEN ClaimedRow(row[d], claims[d] + 1)
                                       ELSE Swept(row[e])]
    /\ claims' = [claims EXCEPT ![d] = @ + 1]
    /\ SetWorker(w, ClaimingWorker(d, claims[d] + 1, row[d].attempts + 1))
    /\ faulty' = faulty \ {d}
    /\ UNCHANGED retries

\* ClaimNext when no candidate is found, or all are skipped as locked: the
\* sweep commits and the worker polls again.
ClaimNothing(w) ==
    /\ worker[w].pc = "idle"
    /\ \E d \in Docs : Exhausted(row[d])
    /\ row' = [d \in Docs |-> Swept(row[d])]
    /\ UNCHANGED <<claims, retries, worker, faulty>>

-----------------------------------------------------------------------------
(* Processing under the heartbeat.                                          *)

\* What processDocument can return for the document of the job if it meets no
\* fault: text and chunks of a valid PDF; a gRPC error, InvalidArgument for a
\* PDF without text; and no file, if the document has been deleted.
Outcomes(d) ==
    {"retryable"}
        \cup (IF d \in ValidPdfs THEN {"extracted"} ELSE {"permanent"})
        \cup (IF row[d].status = "deleted" THEN {"permanent"} ELSE {})

Returns(w, o) == SetWorker(w, [worker[w] EXCEPT !.pc = "returned", !.outcome = o])

\* The worker takes each of the faults for an invalid PDF.
ProcessDocument(w) ==
    /\ worker[w].pc = "processing"
    /\ \/ /\ \E o \in Outcomes(worker[w].doc) : Returns(w, o)
          /\ UNCHANGED faulty
       \/ /\ Faults # {}
          /\ Returns(w, "permanent")
          /\ faulty' = faulty \cup {d \in Docs : /\ d = worker[w].doc
                                                /\ claims[d] = worker[w].token}
    /\ UNCHANGED <<row, claims, retries>>

HeartbeatRuns(w) == worker[w].pc \in {"processing", "returned"}

\* The ticker fires: RenewLease begins and takes its NOW().
HeartbeatTick(w) ==
    /\ HeartbeatRuns(w)
    /\ worker[w].heartbeat = "ticking"
    /\ SetWorker(w, [worker[w] EXCEPT !.heartbeat = "renewing",
                                      !.sawLive = row[worker[w].doc].leaseLive])
    /\ UNCHANGED <<row, claims, retries, faulty>>

\* Mutants of HoldsLease: the token is not compared, or the status is not.
HoldsLease_anyToken(w) == row[worker[w].doc].status = "processing" /\ worker[w].sawLive
HoldsLease_anyRow(w) == worker[w].sawLive

\* The WHERE clause shared by RenewLease, Complete, Fail and Retry.
HoldsLease(w) ==
    LET r == row[worker[w].doc]
    IN  /\ r.status = "processing"
        /\ r.token = worker[w].token
        /\ worker[w].sawLive

RenewedRow(r) == [r EXCEPT !.leaseLive = TRUE]

\* RenewLease updates the row it still holds.
RenewLease(w) ==
    /\ HeartbeatRuns(w)
    /\ worker[w].heartbeat = "renewing"
    /\ HoldsLease(w)
    /\ SetRow(worker[w].doc, RenewedRow(row[worker[w].doc]))
    /\ SetWorker(w, [worker[w] EXCEPT !.heartbeat = "ticking"])
    /\ UNCHANGED <<claims, retries, faulty>>

\* RenewLease matches no row (errLeaseLost) or the database fails: the
\* heartbeat ends with an error and cancels the processing.
RenewalFails(w) ==
    /\ HeartbeatRuns(w)
    /\ worker[w].heartbeat = "renewing"
    /\ SetWorker(w, [worker[w] EXCEPT !.heartbeat = "failed"])
    /\ UNCHANGED <<row, claims, retries, faulty>>

-----------------------------------------------------------------------------
(* Settling the job, once processDocument has returned.                     *)

\* The heartbeat stops without error and the finalizing transaction begins.
StopHeartbeat(w) ==
    /\ worker[w].pc = "returned"
    /\ worker[w].heartbeat = "ticking"
    /\ SetWorker(w, [worker[w] EXCEPT !.pc = "settling", !.heartbeat = "none",
                                      !.sawLive = row[worker[w].doc].leaseLive])
    /\ UNCHANGED <<row, claims, retries, faulty>>

\* processNext returns the heartbeat's error and drops the result: the
\* heartbeat has failed, or stopHeartbeat cancels a renewal in flight, which
\* maintainLease reports like any other error.
AbandonJob(w) ==
    /\ worker[w].pc = "returned"
    /\ worker[w].heartbeat \in {"failed", "renewing"}
    /\ SetWorker(w, IdleWorker)
    /\ UNCHANGED <<row, claims, retries, faulty>>

\* A finalizing update that matches its row, and the return to the poll loop.
Settle(w, r) ==
    /\ worker[w].pc = "settling"
    /\ HoldsLease(w)
    /\ SetRow(worker[w].doc, r)
    /\ SetWorker(w, IdleWorker)
    /\ UNCHANGED <<claims, retries, faulty>>

Complete(w) ==
    /\ worker[w].outcome = "extracted"
    /\ Settle(w, CompletedRow(row[worker[w].doc], worker[w].token))

Fail(w) ==
    \/ /\ worker[w].outcome = "permanent"
       /\ Settle(w, FailedRow(row[worker[w].doc], "permanent"))
    \/ /\ worker[w].outcome = "retryable"
       /\ worker[w].attempt >= MaxAttempts
       /\ Settle(w, FailedRow(row[worker[w].doc], "retryable"))

Retry(w) ==
    /\ worker[w].outcome = "retryable"
    /\ worker[w].attempt < MaxAttempts
    /\ Settle(w, RequeuedRow(row[worker[w].doc]))

\* The finalizing update matches no row (errLeaseLost) or its transaction is
\* rolled back by an error: the row keeps its lease until it expires.
SettleFails(w) ==
    /\ worker[w].pc = "settling"
    /\ SetWorker(w, IdleWorker)
    /\ UNCHANGED <<row, claims, retries, faulty>>

\* The API process stops or crashes in the middle of a job and is started
\* again; nothing the worker held survives.
Crash(w) ==
    /\ worker[w].pc # "idle"
    /\ SetWorker(w, IdleWorker)
    /\ UNCHANGED <<row, claims, retries, faulty>>

-----------------------------------------------------------------------------
(* The user's requests and the clock.                                       *)

\* Upload commits the row of a new document.
Upload(d) ==
    /\ row[d].status = "absent"
    /\ SetRow(d, EmptyRow("queued"))
    /\ UNCHANGED <<claims, retries, worker, faulty>>

\* RetryOwned: a failed document that has not failed for good is queued
\* again with all its attempts.
RetryOwned(d) ==
    /\ row[d].status = "failed"
    /\ row[d].failureKind # "permanent"
    /\ retries[d] < MaxUserRetries
    /\ SetRow(d, ReopenedRow(row[d]))
    /\ retries' = [retries EXCEPT ![d] = @ + 1]
    /\ UNCHANGED <<claims, worker, faulty>>

\* DeleteOwnedWithUsage removes the row and what refers to it, whatever a
\* worker may be doing with the document.
Delete(d) ==
    /\ row[d].status \notin {"absent", "deleted"}
    /\ SetRow(d, EmptyRow("deleted"))
    /\ UNCHANGED <<claims, retries, worker, faulty>>

LeaseExpires(d) ==
    /\ row[d].leaseLive
    /\ SetRow(d, [row[d] EXCEPT !.leaseLive = FALSE])
    /\ UNCHANGED <<claims, retries, worker, faulty>>

BackoffElapses(d) ==
    /\ row[d].backoff
    /\ SetRow(d, [row[d] EXCEPT !.backoff = FALSE])
    /\ UNCHANGED <<claims, retries, worker, faulty>>

-----------------------------------------------------------------------------
WorkerNext(w) ==
    \/ \E d \in Docs : ClaimNext(w, d)
    \/ ClaimNothing(w)
    \/ ProcessDocument(w)
    \/ HeartbeatTick(w) \/ RenewLease(w) \/ RenewalFails(w)
    \/ StopHeartbeat(w) \/ AbandonJob(w)
    \/ Complete(w) \/ Fail(w) \/ Retry(w) \/ SettleFails(w)
    \/ Crash(w)

DocNext(d) ==
    \/ Upload(d) \/ RetryOwned(d) \/ Delete(d)
    \/ LeaseExpires(d) \/ BackoffElapses(d)

Next == (\E w \in Workers : WorkerNext(w)) \/ (\E d \in Docs : DocNext(d))

Spec == Init /\ [][Next]_vars

\* No heartbeat renews the lease of d: its worker has stopped or lost it.
Unattended(d) ==
    \A w \in Workers : ~(/\ HeartbeatRuns(w)
                         /\ worker[w].doc = d
                         /\ worker[w].token = row[d].token)

\* The poll loop runs for ever and is restarted with its process; processing
\* has a timeout; a finalizing transaction ends; clocks advance, but a lease
\* need not run out while its heartbeat goes on.
Fairness ==
    /\ \A w \in Workers :
          /\ WF_vars((\E d \in Docs : ClaimNext(w, d)) \/ ClaimNothing(w))
          /\ WF_vars(ProcessDocument(w))
          /\ WF_vars(StopHeartbeat(w) \/ AbandonJob(w))
          /\ WF_vars(Complete(w) \/ Fail(w) \/ Retry(w) \/ SettleFails(w))
    /\ \A d \in Docs :
          /\ WF_vars(Unattended(d) /\ LeaseExpires(d))
          /\ WF_vars(BackoffElapses(d))

FairSpec == Spec /\ Fairness

-----------------------------------------------------------------------------
(* Correctness.                                                             *)

\* Every variable keeps its type; in particular no claim, whoever makes it
\* and after whatever crash, takes a document beyond MaxAttempts.
TypeOK ==
    /\ row \in [Docs -> Row]
    /\ claims \in [Docs -> Nat]
    /\ retries \in [Docs -> 0 .. MaxUserRetries]
    /\ worker \in [Workers -> Worker]
    /\ faulty \subseteq Docs

\* Fencing: the text and chunks of a document exist exactly when it is
\* completed, and are those of the last claim ever made of it.  A worker
\* whose lease was taken over cannot store its result, before or after the
\* new holder does (HoldsLease in Complete, database.go).
ResultOfLastClaim ==
    \A d \in Docs :
        /\ row[d].result # NoToken <=> row[d].status = "completed"
        /\ row[d].status = "completed" => row[d].result = claims[d]

\* A document that failed and may be retried has used up all its attempts:
\* neither a stale worker nor the sweep of ClaimNext gives up early
\* (README.md: temporary failures become failed after five attempts).
GivesUpOnlyWhenExhausted ==
    \A d \in Docs :
        row[d].status = "failed" /\ row[d].failureKind = "retryable"
            => row[d].attempts = MaxAttempts

\* The attempts that the row counts are exactly the claims made since the
\* last retry of its user, and each retry follows a whole budget of them: no
\* claim goes uncounted through crashes, takeovers and lost finalizations.
EveryClaimIsCounted ==
    \A d \in Docs :
        row[d].status # "deleted"
            => claims[d] = retries[d] * MaxAttempts + row[d].attempts

\* A document that is completed, permanently failed or deleted stays so,
\* with the same result, until its user deletes it: no worker that is still
\* running can reopen it, overwrite it or bring it back.
Final(r) ==
    \/ r.status \in {"completed", "deleted"}
    \/ r.status = "failed" /\ r.failureKind = "permanent"

FinalRowsStay ==
    [][\A d \in Docs : Final(row[d]) => row'[d] \in {row[d], EmptyRow("deleted")}]_vars

\* A claim that is being worked on is disturbed by its own worker only: as
\* long as its lease is live, nobody but the claim's holder, its user's
\* Delete or the clock changes the row of a processing document.
LiveLeaseExcludes ==
    [][\A d \in Docs :
          row[d].leaseLive /\ row'[d] # row[d] =>
             \/ row'[d] = EmptyRow("deleted")
             \/ row'[d] = [row[d] EXCEPT !.leaseLive = FALSE]
             \/ \E w \in Workers :
                   /\ worker[w].doc = d
                   /\ worker[w].token = claims[d]
                   /\ worker'[w] = IdleWorker]_vars

\* A document that was accepted is eventually completed, failed or deleted:
\* whatever crashes, its lease is reclaimed and its attempts end (README.md:
\* a crash cannot leave a document permanently stuck in processing).
EverySubmissionSettles ==
    \A d \in Docs :
        row[d].status \in {"queued", "processing"}
            ~> row[d].status \in {"completed", "failed", "deleted"}

\* A PDF with text is failed for good by its last claim only, and only if that
\* claim met a fault: the verdict of an earlier claim, reached late by a worker
\* whose lease was taken over, or of one that found the file deleted, never
\* settles the document, and every other failure leaves it to be tried again.
OnlyLastClaimRejects ==
    \A d \in ValidPdfs :
        row[d].status = "failed" /\ row[d].failureKind = "permanent"
            => d \in faulty

\* A PDF with text is never failed for good: only invalid PDFs fail at once,
\* whatever fails for a time is tried again (README.md, Document Processing).
\* The code does not keep this promise.
OnlyInvalidPdfsFailForGood ==
    \A d \in Docs :
        row[d].status = "failed" /\ row[d].failureKind = "permanent"
            => d \notin ValidPdfs

-----------------------------------------------------------------------------
(* The inductive invariant behind the safety properties.                    *)

\* A row, given the claims made of it and the retries its user asked for:
\* only a processing row carries a token, that of the last claim, and only a
\* queued one waits.
RowOK(r, c, n) ==
    /\ r.status = "processing" => r.token = c
    /\ r.status # "processing" => r.token = NoToken /\ ~r.leaseLive
    /\ r.backoff => r.status = "queued"
    /\ r.status \in {"processing", "completed"} => c > 0 /\ r.attempts > 0
    /\ r.result = (IF r.status = "completed" THEN c ELSE NoToken)
    /\ r.failureKind = "permanent" => r.status = "failed" /\ r.attempts > 0
    /\ r.status = "failed" /\ r.failureKind = "retryable" => r.attempts = MaxAttempts
    /\ r.status = "absent" => r.attempts = 0
    /\ r.status # "deleted" => c = n * MaxAttempts + r.attempts

\* A worker's token was issued by a claim of its document, and the attempt it
\* remembers is that of the row for as long as the row carries its token.
WorkerOK(s) ==
    s.pc # "idle" =>
        /\ s.doc \in Docs
        /\ s.token \in 1 .. claims[s.doc]
        /\ row[s.doc].token = s.token => s.attempt = row[s.doc].attempts

IInv ==
    /\ TypeOK
    /\ \A d \in Docs : RowOK(row[d], claims[d], retries[d])
    /\ \A w \in Workers : WorkerOK(worker[w])

\* A worker that is to fail a PDF with text for good, and made its last claim,
\* has met a fault, unless the document has been deleted.
VerdictInv ==
    \A w \in Workers :
        worker[w].outcome = "permanent" =>
            /\ worker[w].pc # "idle"
            /\ (/\ worker[w].doc \in ValidPdfs
                /\ worker[w].token = claims[worker[w].doc])
                  => \/ worker[w].doc \in faulty
                     \/ row[worker[w].doc].status = "deleted"

-----------------------------------------------------------------------------
(* The queue implements the lifecycle its users see.                        *)

Phase(r) ==
    CASE r.status \in {"queued", "processing"} -> "pending"
      [] r.status = "failed" /\ r.failureKind = "permanent" -> "rejected"
      [] r.status = "failed" /\ r.failureKind = "retryable" -> "exhausted"
      [] OTHER -> r.status

Lifecycle == INSTANCE JobLifecycle
    WITH phase <- [d \in Docs |-> Phase(row[d])],
         tries <- [d \in Docs |-> row[d].attempts]

\* Every step of the queue is a step of the lifecycle or leaves it alone: in
\* particular failures, crashes and takeovers are invisible to the owner
\* until the attempts are spent.
ImplementsLifecycle == Lifecycle!Spec
=============================================================================
