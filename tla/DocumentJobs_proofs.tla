------------------------ MODULE DocumentJobs_proofs ------------------------
(***************************************************************************)
(* Proofs about DocumentJobs, for any number of documents and workers and  *)
(* any bounds: the type invariant, the safety invariants and the action    *)
(* properties, all from the inductive invariant IInv.                      *)
(***************************************************************************)
EXTENDS DocumentJobs, TLAPS

-----------------------------------------------------------------------------
(* What each update of a row preserves.                                     *)

\* The passing of time only clears a flag.
LEMMA TimePasses ==
    ASSUME NEW r \in Row, NEW c \in Nat, NEW n \in Nat, RowOK(r, c, n)
    PROVE  /\ [r EXCEPT !.leaseLive = FALSE] \in Row
           /\ RowOK([r EXCEPT !.leaseLive = FALSE], c, n)
           /\ [r EXCEPT !.backoff = FALSE] \in Row
           /\ RowOK([r EXCEPT !.backoff = FALSE], c, n)
<1>1. [r EXCEPT !.leaseLive = FALSE] \in Row /\ [r EXCEPT !.backoff = FALSE] \in Row
  BY DEF Row
<1>2. RowOK([r EXCEPT !.leaseLive = FALSE], c, n)
  BY DEF Row, RowOK
<1>3. RowOK([r EXCEPT !.backoff = FALSE], c, n)
  BY DEF Row, RowOK
<1> QED  BY <1>1, <1>2, <1>3

\* A row swept by ClaimNext had spent its attempts.
LEMMA SweptRowOK ==
    ASSUME NEW r \in Row, NEW c \in Nat, NEW n \in Nat, RowOK(r, c, n), Exhausted(r)
    PROVE  /\ SweptRow(r) \in Row
           /\ RowOK(SweptRow(r), c, n)
           /\ SweptRow(r).token = NoToken
           /\ r.status \in {"queued", "processing"} /\ SweptRow(r).status = "failed"
           /\ SweptRow(r).failureKind = "retryable"
           /\ r.attempts = MaxAttempts /\ SweptRow(r).attempts = MaxAttempts
<1>1. /\ SweptRow(r) \in Row
      /\ SweptRow(r).status = "failed" /\ SweptRow(r).failureKind = r.failureKind
      /\ SweptRow(r).attempts = r.attempts /\ SweptRow(r).result = r.result
      /\ SweptRow(r).token = NoToken /\ ~SweptRow(r).leaseLive /\ ~SweptRow(r).backoff
  BY DEF Row, SweptRow, Unleased, NoToken
<1>2. r.status \in {"queued", "processing"} /\ r.attempts >= MaxAttempts
  BY DEF Exhausted, Due
<1>3. r.attempts = MaxAttempts
  BY <1>2, BoundsAssumption DEF Row
<1>4. RowOK(SweptRow(r), c, n)
  BY <1>1, <1>2, <1>3 DEF RowOK
<1>5. r.failureKind = "retryable"
  BY <1>2, <1>3 DEF RowOK, Row
<1> QED  BY <1>1, <1>2, <1>3, <1>4, <1>5

\* A claim counts itself and leaves its token in the row.
LEMMA ClaimedRowOK ==
    ASSUME NEW r \in Row, NEW c \in Nat, NEW n \in Nat, RowOK(r, c, n), Claimable(r)
    PROVE  /\ ClaimedRow(r, c + 1) \in Row
           /\ RowOK(ClaimedRow(r, c + 1), c + 1, n)
           /\ ClaimedRow(r, c + 1).token = c + 1
           /\ ClaimedRow(r, c + 1).attempts = r.attempts + 1
           /\ ClaimedRow(r, c + 1).status = "processing"
<1> DEFINE t == c + 1
<1>1. t \in Nat /\ t > 0
  OBVIOUS
<1>2. r.attempts + 1 \in 0 .. MaxAttempts /\ r.attempts + 1 > 0
  BY BoundsAssumption DEF Row, Claimable
<1>3. t = n * MaxAttempts + (r.attempts + 1)
  <2>1. c = n * MaxAttempts + r.attempts
    BY DEF RowOK, Claimable, Due
  <2>2. n * MaxAttempts \in Nat /\ r.attempts \in Nat
    BY BoundsAssumption DEF Row
  <2> QED  BY <2>1, <2>2
<1> HIDE DEF t
<1>4. /\ ClaimedRow(r, t) \in Row
      /\ ClaimedRow(r, t).status = "processing"
      /\ ClaimedRow(r, t).attempts = r.attempts + 1
      /\ ClaimedRow(r, t).token = t /\ ~ClaimedRow(r, t).backoff
      /\ ClaimedRow(r, t).result = r.result
      /\ ClaimedRow(r, t).failureKind = r.failureKind
  BY <1>1, <1>2 DEF Row, ClaimedRow
<1>5. RowOK(ClaimedRow(r, t), t, n)
  BY <1>1, <1>2, <1>3, <1>4 DEF RowOK, Claimable, Due
<1> QED  BY <1>4, <1>5 DEF t

\* Finalizing a processing row ends its lease; it is failed as retryable only
\* by its last attempt.
LEMMA SettledRowOK ==
    ASSUME NEW r \in Row, NEW c \in Nat, NEW n \in Nat, RowOK(r, c, n),
           r.status = "processing"
    PROVE  /\ CompletedRow(r, c) \in Row /\ RowOK(CompletedRow(r, c), c, n)
           /\ CompletedRow(r, c).token = NoToken
           /\ FailedRow(r, "permanent") \in Row /\ RowOK(FailedRow(r, "permanent"), c, n)
           /\ FailedRow(r, "permanent").token = NoToken
           /\ r.attempts >= MaxAttempts
                 => FailedRow(r, "retryable") \in Row /\ RowOK(FailedRow(r, "retryable"), c, n)
           /\ FailedRow(r, "retryable").token = NoToken
           /\ RequeuedRow(r) \in Row /\ RowOK(RequeuedRow(r), c, n)
           /\ RequeuedRow(r).token = NoToken
<1>1. /\ CompletedRow(r, c) \in Row /\ RowOK(CompletedRow(r, c), c, n)
      /\ CompletedRow(r, c).token = NoToken
  BY DEF Row, RowOK, CompletedRow, Unleased, NoToken
<1>2. /\ FailedRow(r, "permanent") \in Row /\ RowOK(FailedRow(r, "permanent"), c, n)
      /\ FailedRow(r, "permanent").token = NoToken
  BY DEF Row, RowOK, FailedRow, Unleased, NoToken
<1>3. /\ r.attempts >= MaxAttempts
            => FailedRow(r, "retryable") \in Row /\ RowOK(FailedRow(r, "retryable"), c, n)
      /\ FailedRow(r, "retryable").token = NoToken
  <2>1. /\ FailedRow(r, "retryable") \in Row
        /\ FailedRow(r, "retryable").status = "failed"
        /\ FailedRow(r, "retryable").failureKind = "retryable"
        /\ FailedRow(r, "retryable").attempts = r.attempts
        /\ FailedRow(r, "retryable").result = r.result
        /\ FailedRow(r, "retryable").token = NoToken
        /\ ~FailedRow(r, "retryable").leaseLive /\ ~FailedRow(r, "retryable").backoff
    BY DEF Row, FailedRow, Unleased, NoToken
  <2>2. r.attempts >= MaxAttempts => r.attempts = MaxAttempts
    BY BoundsAssumption DEF Row
  <2> QED  BY <2>1, <2>2 DEF RowOK
<1>4. /\ RequeuedRow(r) \in Row /\ RowOK(RequeuedRow(r), c, n)
      /\ RequeuedRow(r).token = NoToken
  BY DEF Row, RowOK, RequeuedRow, Unleased, NoToken
<1> QED  BY <1>1, <1>2, <1>3, <1>4

\* A renewal changes nothing that the invariant speaks of.
LEMMA RenewedRowOK ==
    ASSUME NEW r \in Row, NEW c \in Nat, NEW n \in Nat, RowOK(r, c, n),
           r.status = "processing"
    PROVE  /\ RenewedRow(r) \in Row /\ RowOK(RenewedRow(r), c, n)
           /\ RenewedRow(r).token = r.token
           /\ RenewedRow(r).attempts = r.attempts
BY DEF Row, RowOK, RenewedRow

\* A user's retry starts a new budget after a whole one.
LEMMA ReopenedRowOK ==
    ASSUME NEW r \in Row, NEW c \in Nat, NEW n \in Nat, RowOK(r, c, n),
           r.status = "failed", r.failureKind # "permanent"
    PROVE  /\ ReopenedRow(r) \in Row
           /\ RowOK(ReopenedRow(r), c, n + 1)
           /\ ReopenedRow(r).token = NoToken
<1>0. 0 \in 0 .. MaxAttempts
  BY BoundsAssumption
<1>1. /\ ReopenedRow(r) \in Row
      /\ ReopenedRow(r).status = "queued" /\ ReopenedRow(r).failureKind = "retryable"
      /\ ReopenedRow(r).attempts = 0 /\ ReopenedRow(r).result = r.result
      /\ ReopenedRow(r).token = NoToken /\ ~ReopenedRow(r).leaseLive /\ ~ReopenedRow(r).backoff
  BY <1>0 DEF Row, ReopenedRow, Unleased, NoToken
<1>2. c = n * MaxAttempts + MaxAttempts
  BY DEF Row, RowOK
<1>3. c = (n + 1) * MaxAttempts
  BY <1>2, BoundsAssumption
<1>4. c = (n + 1) * MaxAttempts + 0
  BY <1>3
<1> QED  BY <1>1, <1>4 DEF RowOK

-----------------------------------------------------------------------------
(* The invariant.                                                           *)

\* What an action other than a claim has to show.  It issues no token; each
\* row either keeps its token and attempts or gives the token up; a worker
\* goes on with the same job or becomes idle.
LEMMA InvariantKept ==
    ASSUME IInv,
           claims' = claims,
           faulty' \subseteq Docs,
           row' \in [Docs -> Row],
           retries' \in [Docs -> 0 .. MaxUserRetries],
           worker' \in [Workers -> Worker],
           \A d \in Docs : RowOK(row'[d], claims[d], retries'[d]),
           \A d \in Docs :
              \/ row'[d].token = NoToken
              \/ row'[d].token = row[d].token /\ row'[d].attempts = row[d].attempts,
           \A w \in Workers :
              \/ worker'[w].pc = "idle"
              \/ /\ worker[w].pc # "idle"
                 /\ worker'[w].doc = worker[w].doc
                 /\ worker'[w].token = worker[w].token
                 /\ worker'[w].attempt = worker[w].attempt
    PROVE  IInv'
<1>1. TypeOK'
  BY DEF IInv, TypeOK
<1>2. (\A d \in Docs : RowOK(row[d], claims[d], retries[d]))'
  OBVIOUS
<1>3. ASSUME NEW w \in Workers, worker'[w].pc # "idle"
      PROVE  /\ worker'[w].doc \in Docs
             /\ worker'[w].token \in 1 .. claims'[worker'[w].doc]
             /\ row'[worker'[w].doc].token = worker'[w].token
                   => worker'[w].attempt = row'[worker'[w].doc].attempts
  <2>1. WorkerOK(worker[w])
    BY DEF IInv
  <2>2. /\ worker[w].pc # "idle"
        /\ worker'[w].doc = worker[w].doc
        /\ worker'[w].token = worker[w].token
        /\ worker'[w].attempt = worker[w].attempt
    BY <1>3
  <2>3. /\ worker[w].doc \in Docs
        /\ worker[w].token \in 1 .. claims[worker[w].doc]
        /\ row[worker[w].doc].token = worker[w].token
              => worker[w].attempt = row[worker[w].doc].attempts
    BY <2>1, <2>2 DEF WorkerOK
  <2>4. worker[w].token # NoToken
    BY <2>3 DEF NoToken, IInv, TypeOK
  <2> QED  BY <2>2, <2>3, <2>4
<1>4. (\A w \in Workers : WorkerOK(worker[w]))'
  BY <1>3 DEF WorkerOK
<1> QED  BY <1>1, <1>2, <1>4 DEF IInv

\* The same for an action of worker w that changes no row.
LEMMA WorkerMoves ==
    ASSUME IInv, UNCHANGED <<row, claims, retries>>, faulty' \subseteq Docs,
           NEW w \in Workers, NEW s \in Worker, SetWorker(w, s),
           \/ s.pc = "idle"
           \/ /\ worker[w].pc # "idle"
              /\ s.doc = worker[w].doc
              /\ s.token = worker[w].token
              /\ s.attempt = worker[w].attempt
    PROVE  IInv'
<1>1. worker' \in [Workers -> Worker]
  BY DEF IInv, TypeOK, SetWorker
<1>2. \A v \in Workers :
         \/ worker'[v].pc = "idle"
         \/ /\ worker[v].pc # "idle"
            /\ worker'[v].doc = worker[v].doc
            /\ worker'[v].token = worker[v].token
            /\ worker'[v].attempt = worker[v].attempt
  BY DEF IInv, TypeOK, SetWorker
<1> QED  BY <1>1, <1>2, InvariantKept DEF IInv, TypeOK

\* The same for an action that sets the row of document d and leaves every
\* worker with its job or idle.
LEMMA RowMoves ==
    ASSUME IInv, UNCHANGED <<claims, faulty>>,
           NEW d \in Docs, NEW r \in Row, SetRow(d, r),
           retries' \in [Docs -> 0 .. MaxUserRetries],
           \A e \in Docs : e # d => retries'[e] = retries[e],
           RowOK(r, claims[d], retries'[d]),
           r.token = NoToken \/ (r.token = row[d].token /\ r.attempts = row[d].attempts),
           worker' \in [Workers -> Worker],
           \A w \in Workers :
              \/ worker'[w].pc = "idle"
              \/ /\ worker[w].pc # "idle"
                 /\ worker'[w].doc = worker[w].doc
                 /\ worker'[w].token = worker[w].token
                 /\ worker'[w].attempt = worker[w].attempt
    PROVE  IInv'
<1>1. row' \in [Docs -> Row] /\ row'[d] = r /\ \A e \in Docs : e # d => row'[e] = row[e]
  BY DEF IInv, TypeOK, SetRow
<1>2. \A e \in Docs : RowOK(row'[e], claims[e], retries'[e])
  <2> TAKE e \in Docs
  <2>1. CASE e = d
    BY <1>1, <2>1
  <2>2. CASE e # d
    <3>1. row'[e] = row[e] /\ retries'[e] = retries[e]
      BY <1>1, <2>2
    <3>2. RowOK(row[e], claims[e], retries[e])
      BY DEF IInv
    <3> QED  BY <3>1, <3>2
  <2> QED  BY <2>1, <2>2
<1>3. \A e \in Docs :
         \/ row'[e].token = NoToken
         \/ row'[e].token = row[e].token /\ row'[e].attempts = row[e].attempts
  BY <1>1
<1>4. faulty' \subseteq Docs
  BY DEF IInv, TypeOK
<1> QED  BY <1>1, <1>2, <1>3, <1>4, InvariantKept

\* The records that the actions install have their types.
LEMMA Records ==
    /\ \A st \in {"absent", "queued", "deleted"} : EmptyRow(st) \in Row
    /\ IdleWorker \in Worker /\ IdleWorker.pc = "idle"
<1>1. 0 \in 0 .. MaxAttempts /\ 0 \in Nat
  BY BoundsAssumption
<1> QED  BY <1>1 DEF EmptyRow, Row, IdleWorker, Worker, NoToken

LEMMA InitInvariant == Init => IInv
<1> SUFFICES ASSUME Init PROVE IInv
  OBVIOUS
<1>1. TypeOK
  <2>1. 0 \in 0 .. MaxUserRetries
    BY BoundsAssumption
  <2> QED  BY <2>1, Records DEF Init, TypeOK
<1>2. \A d \in Docs : RowOK(row[d], claims[d], retries[d])
  <2> TAKE d \in Docs
  <2>1. row[d] = EmptyRow("absent") /\ claims[d] = 0 /\ retries[d] = 0
    BY DEF Init
  <2>2. 0 = 0 * MaxAttempts + 0
    BY BoundsAssumption
  <2> QED  BY <2>1, <2>2 DEF RowOK, EmptyRow, NoToken
<1>3. \A w \in Workers : WorkerOK(worker[w])
  BY Records DEF Init, WorkerOK
<1> QED  BY <1>1, <1>2, <1>3 DEF IInv

\* The sweep of a claim keeps each row well-formed and issues no token.
LEMMA SweptRows ==
    ASSUME IInv, NEW d \in Docs
    PROVE  /\ Swept(row[d]) \in Row
           /\ RowOK(Swept(row[d]), claims[d], retries[d])
           /\ \/ Swept(row[d]).token = NoToken
              \/ Swept(row[d]) = row[d]
<1>1. /\ row[d] \in Row /\ claims[d] \in Nat /\ retries[d] \in Nat
      /\ RowOK(row[d], claims[d], retries[d])
  BY BoundsAssumption DEF IInv, TypeOK
<1> QED  BY <1>1, SweptRowOK DEF Swept

\* A claim: the row gets a new token and the worker remembers it; the sweep
\* takes the tokens of the rows it fails.
LEMMA ClaimKeepsInvariant ==
    ASSUME IInv, NEW w \in Workers, NEW d \in Docs, ClaimNext(w, d)
    PROVE  IInv'
<1> DEFINE r == ClaimedRow(row[d], claims[d] + 1)
           s == ClaimingWorker(d, claims[d] + 1, row[d].attempts + 1)
<1>1. /\ row[d] \in Row /\ claims[d] \in Nat /\ retries[d] \in Nat
      /\ RowOK(row[d], claims[d], retries[d]) /\ Claimable(row[d])
  BY BoundsAssumption DEF IInv, TypeOK, ClaimNext
<1>2. /\ r \in Row /\ RowOK(r, claims[d] + 1, retries[d])
      /\ r.token = claims[d] + 1 /\ r.attempts = row[d].attempts + 1
  BY <1>1, ClaimedRowOK
<1>3. /\ s \in Worker /\ s.doc = d /\ s.token = claims[d] + 1
      /\ s.attempt = row[d].attempts + 1
  <2>1. row[d].attempts + 1 \in 0 .. MaxAttempts /\ claims[d] + 1 \in Nat
    BY <1>1, <1>2 DEF Row
  <2> QED  BY <2>1 DEF ClaimingWorker, Worker
<1>4. /\ claims' = [claims EXCEPT ![d] = @ + 1] /\ retries' = retries
      /\ faulty' \subseteq Docs
      /\ claims'[d] = claims[d] + 1
      /\ \A e \in Docs : e # d => claims'[e] = claims[e]
      /\ worker' = [worker EXCEPT ![w] = s]
      /\ row' = [e \in Docs |-> IF e = d THEN r ELSE Swept(row[e])]
  BY DEF ClaimNext, SetWorker, IInv, TypeOK
<1>5. \A e \in Docs :
         /\ Swept(row[e]) \in Row
         /\ RowOK(Swept(row[e]), claims[e], retries[e])
         /\ \/ Swept(row[e]).token = NoToken
            \/ Swept(row[e]) = row[e]
  BY SweptRows
<1> HIDE DEF r, s
<1>6. TypeOK'
  BY <1>2, <1>3, <1>4, <1>5 DEF IInv, TypeOK
<1>7. (\A e \in Docs : RowOK(row[e], claims[e], retries[e]))'
  BY <1>2, <1>4, <1>5
<1>8. (\A v \in Workers : WorkerOK(worker[v]))'
  <2> SUFFICES ASSUME NEW v \in Workers, worker'[v].pc # "idle"
               PROVE  /\ worker'[v].doc \in Docs
                      /\ worker'[v].token \in 1 .. claims'[worker'[v].doc]
                      /\ row'[worker'[v].doc].token = worker'[v].token
                            => worker'[v].attempt = row'[worker'[v].doc].attempts
    BY DEF WorkerOK
  <2>1. CASE v = w
    <3>1. worker'[v] = s
      BY <2>1, <1>4 DEF IInv, TypeOK
    <3>2. row'[d] = r
      BY <1>4
    <3> QED  BY <3>1, <3>2, <1>1, <1>2, <1>3, <1>4
  <2>2. CASE v # w
    <3>1. worker'[v] = worker[v]
      BY <2>2, <1>4 DEF IInv, TypeOK
    <3>2. /\ worker[v].doc \in Docs
          /\ worker[v].token \in 1 .. claims[worker[v].doc]
          /\ row[worker[v].doc].token = worker[v].token
                => worker[v].attempt = row[worker[v].doc].attempts
      BY <3>1 DEF IInv, WorkerOK
    <3>3. CASE worker[v].doc = d
      <4>1. worker[v].token # r.token /\ worker[v].token \in 1 .. claims[d] + 1
        BY <3>2, <3>3, <1>1, <1>2
      <4>2. row'[d] = r
        BY <1>4
      <4> QED  BY <3>1, <3>2, <3>3, <4>1, <4>2, <1>4
    <3>4. CASE worker[v].doc # d
      <4>1. /\ row'[worker[v].doc] = Swept(row[worker[v].doc])
            /\ claims'[worker[v].doc] = claims[worker[v].doc]
        BY <3>2, <3>4, <1>4
      <4>2. worker[v].token # NoToken
        BY <3>2, <1>1 DEF NoToken, IInv, TypeOK
      <4> QED  BY <3>1, <3>2, <4>1, <4>2, <1>5
    <3> QED  BY <3>3, <3>4
  <2> QED  BY <2>1, <2>2
<1> QED  BY <1>6, <1>7, <1>8 DEF IInv

\* ClaimNothing: only the sweep happens.
LEMMA SweepKeepsInvariant ==
    ASSUME IInv, NEW w \in Workers, ClaimNothing(w)
    PROVE  IInv'
<1>1. \A d \in Docs :
         /\ Swept(row[d]) \in Row
         /\ RowOK(Swept(row[d]), claims[d], retries[d])
         /\ \/ Swept(row[d]).token = NoToken
            \/ Swept(row[d]) = row[d]
  BY SweptRows
<1>2. row' = [d \in Docs |-> Swept(row[d])] /\ UNCHANGED <<claims, retries, worker, faulty>>
  BY DEF ClaimNothing
<1> QED  BY <1>1, <1>2, InvariantKept DEF IInv, TypeOK

\* A worker that holds the lease of its document is the one the row names.
LEMMA HolderIsLastClaim ==
    ASSUME IInv, NEW w \in Workers, worker[w].pc # "idle", HoldsLease(w)
    PROVE  LET d == worker[w].doc
           IN  /\ d \in Docs
               /\ row[d].status = "processing"
               /\ worker[w].token = claims[d] /\ row[d].token = claims[d]
               /\ worker[w].attempt = row[d].attempts
BY DEF IInv, RowOK, WorkerOK, HoldsLease

\* Complete, Fail and Retry: a settled row, and the worker is idle again.
LEMMA SettleKeepsInvariant ==
    ASSUME IInv, NEW w \in Workers, NEW r \in Row, Settle(w, r),
           RowOK(r, claims[worker[w].doc], retries[worker[w].doc]),
           r.token = NoToken
    PROVE  IInv'
<1>1. worker[w].doc \in Docs
  BY HolderIsLastClaim DEF Settle
<1>2. /\ UNCHANGED <<claims, retries, faulty>>
      /\ SetRow(worker[w].doc, r)
      /\ worker' = [worker EXCEPT ![w] = IdleWorker]
  BY DEF Settle, SetWorker
<1>3. /\ worker' \in [Workers -> Worker]
      /\ \A v \in Workers : worker'[v].pc = "idle" \/ worker'[v] = worker[v]
  BY <1>2, Records DEF IInv, TypeOK
<1>4. retries' \in [Docs -> 0 .. MaxUserRetries]
  BY <1>2 DEF IInv, TypeOK
<1> QED  BY <1>1, <1>2, <1>3, <1>4, RowMoves

\* Every action of the queue preserves the invariant.
LEMMA NextKeepsInvariant == IInv /\ [Next]_vars => IInv'
<1> SUFFICES ASSUME IInv, [Next]_vars PROVE IInv'
  OBVIOUS
<1> USE DEF IInv, TypeOK
<1>1. CASE UNCHANGED vars
  BY <1>1, InvariantKept DEF vars
<1>2. ASSUME NEW w \in Workers, NEW d \in Docs, ClaimNext(w, d) PROVE IInv'
  BY <1>2, ClaimKeepsInvariant
<1>3. ASSUME NEW w \in Workers, ClaimNothing(w) PROVE IInv'
  BY <1>3, SweepKeepsInvariant
<1>4. ASSUME NEW w \in Workers, ProcessDocument(w) PROVE IInv'
  <2>1. PICK o \in {"extracted", "retryable", "permanent"} : Returns(w, o)
    BY <1>4 DEF ProcessDocument, Outcomes
  <2>2. [worker[w] EXCEPT !.pc = "returned", !.outcome = o] \in Worker
    BY DEF Worker
  <2>3. /\ faulty' \subseteq Docs /\ UNCHANGED <<row, claims, retries>>
        /\ worker[w].pc # "idle"
    BY <1>4 DEF ProcessDocument
  <2> QED  BY <2>1, <2>2, <2>3, WorkerMoves DEF Returns, Worker
<1>5. ASSUME NEW w \in Workers, HeartbeatTick(w) PROVE IInv'
  <2> DEFINE s == [worker[w] EXCEPT !.heartbeat = "renewing",
                                    !.sawLive = row[worker[w].doc].leaseLive]
  <2>1. worker[w].pc # "idle" /\ worker[w].doc \in Docs
    BY <1>5 DEF HeartbeatTick, HeartbeatRuns, WorkerOK
  <2>2. row[worker[w].doc].leaseLive \in BOOLEAN
    BY <2>1 DEF Row
  <2>3. /\ s \in Worker /\ s.doc = worker[w].doc /\ s.token = worker[w].token
        /\ s.attempt = worker[w].attempt
    BY <2>2 DEF Worker
  <2>4. SetWorker(w, s) /\ UNCHANGED <<row, claims, retries, faulty>>
    BY <1>5 DEF HeartbeatTick
  <2> QED  BY <2>1, <2>3, <2>4, WorkerMoves
<1>6. ASSUME NEW w \in Workers, RenewLease(w) PROVE IInv'
  <2> DEFINE d == worker[w].doc
             s == [worker[w] EXCEPT !.heartbeat = "ticking"]
  <2>1. worker[w].pc # "idle" /\ d \in Docs /\ row[d].status = "processing"
    BY <1>6, HolderIsLastClaim DEF RenewLease, HeartbeatRuns
  <2>2. /\ row[d] \in Row /\ claims[d] \in Nat /\ retries[d] \in Nat
        /\ RowOK(row[d], claims[d], retries[d])
    BY <2>1, BoundsAssumption
  <2>3. /\ RenewedRow(row[d]) \in Row
        /\ RowOK(RenewedRow(row[d]), claims[d], retries[d])
        /\ RenewedRow(row[d]).token = row[d].token
        /\ RenewedRow(row[d]).attempts = row[d].attempts
    BY <2>1, <2>2, RenewedRowOK
  <2>4. /\ s \in Worker /\ s.doc = worker[w].doc /\ s.token = worker[w].token
        /\ s.attempt = worker[w].attempt
    BY DEF Worker
  <2>5. /\ SetRow(d, RenewedRow(row[d])) /\ UNCHANGED <<claims, retries, faulty>>
        /\ worker' = [worker EXCEPT ![w] = s]
    BY <1>6 DEF RenewLease, SetWorker
  <2>6. /\ worker' \in [Workers -> Worker]
        /\ worker'[w] = s
        /\ \A v \in Workers : v # w => worker'[v] = worker[v]
    BY <2>4, <2>5
  <2>7. \A v \in Workers :
           \/ worker'[v].pc = "idle"
           \/ /\ worker[v].pc # "idle"
              /\ worker'[v].doc = worker[v].doc
              /\ worker'[v].token = worker[v].token
              /\ worker'[v].attempt = worker[v].attempt
    BY <2>1, <2>4, <2>6
  <2>8. RowOK(RenewedRow(row[d]), claims[d], retries'[d])
    BY <2>3, <2>5
  <2> HIDE DEF s, d
  <2> QED  BY <2>1, <2>3, <2>5, <2>6, <2>7, <2>8, RowMoves
<1>7. ASSUME NEW w \in Workers, RenewalFails(w) PROVE IInv'
  <2>1. [worker[w] EXCEPT !.heartbeat = "failed"] \in Worker
    BY DEF Worker
  <2> QED  BY <1>7, <2>1, WorkerMoves DEF RenewalFails, HeartbeatRuns, Worker
<1>8. ASSUME NEW w \in Workers, StopHeartbeat(w) PROVE IInv'
  <2> DEFINE s == [worker[w] EXCEPT !.pc = "settling", !.heartbeat = "none",
                                    !.sawLive = row[worker[w].doc].leaseLive]
  <2>1. worker[w].pc # "idle" /\ worker[w].doc \in Docs
    BY <1>8 DEF StopHeartbeat, WorkerOK
  <2>2. row[worker[w].doc].leaseLive \in BOOLEAN
    BY <2>1 DEF Row
  <2>3. /\ s \in Worker /\ s.doc = worker[w].doc /\ s.token = worker[w].token
        /\ s.attempt = worker[w].attempt
    BY <2>2 DEF Worker
  <2>4. SetWorker(w, s) /\ UNCHANGED <<row, claims, retries, faulty>>
    BY <1>8 DEF StopHeartbeat
  <2> QED  BY <2>1, <2>3, <2>4, WorkerMoves
<1>9. ASSUME NEW w \in Workers, AbandonJob(w) \/ SettleFails(w) \/ Crash(w) PROVE IInv'
  BY <1>9, Records, WorkerMoves DEF AbandonJob, SettleFails, Crash
<1>10. ASSUME NEW w \in Workers, Complete(w) \/ Fail(w) \/ Retry(w) PROVE IInv'
  <2> DEFINE d == worker[w].doc
  <2>1. worker[w].pc = "settling" /\ HoldsLease(w)
    BY <1>10 DEF Complete, Fail, Retry, Settle
  <2>2. /\ d \in Docs /\ row[d].status = "processing"
        /\ worker[w].token = claims[d] /\ worker[w].attempt = row[d].attempts
    BY <2>1, HolderIsLastClaim
  <2>3. /\ row[d] \in Row /\ claims[d] \in Nat /\ retries[d] \in Nat
        /\ RowOK(row[d], claims[d], retries[d])
    BY <2>2, BoundsAssumption
  <2>4. CASE Complete(w)
    BY <2>2, <2>3, <2>4, SettledRowOK, SettleKeepsInvariant DEF Complete
  <2>5. CASE Fail(w)
    BY <2>2, <2>3, <2>5, SettledRowOK, SettleKeepsInvariant DEF Fail
  <2>6. CASE Retry(w)
    BY <2>2, <2>3, <2>6, SettledRowOK, SettleKeepsInvariant DEF Retry
  <2> QED  BY <1>10, <2>4, <2>5, <2>6
<1>11. ASSUME NEW d \in Docs, Upload(d) PROVE IInv'
  <2>1. /\ EmptyRow("queued") \in Row /\ EmptyRow("queued").token = NoToken
        /\ RowOK(EmptyRow("queued"), claims[d], retries[d])
    BY <1>11, Records DEF Upload, EmptyRow, RowOK, NoToken
  <2> QED  BY <1>11, <2>1, RowMoves DEF Upload
<1>12. ASSUME NEW d \in Docs, RetryOwned(d) PROVE IInv'
  <2>1. /\ row[d] \in Row /\ claims[d] \in Nat /\ retries[d] \in Nat
        /\ retries[d] + 1 \in 0 .. MaxUserRetries
        /\ RowOK(row[d], claims[d], retries[d])
    BY <1>12, BoundsAssumption DEF RetryOwned
  <2>2. /\ ReopenedRow(row[d]) \in Row /\ ReopenedRow(row[d]).token = NoToken
        /\ RowOK(ReopenedRow(row[d]), claims[d], retries[d] + 1)
    BY <1>12, <2>1, ReopenedRowOK DEF RetryOwned
  <2>3. /\ retries' \in [Docs -> 0 .. MaxUserRetries] /\ retries'[d] = retries[d] + 1
        /\ \A e \in Docs : e # d => retries'[e] = retries[e]
    BY <1>12, <2>1 DEF RetryOwned
  <2> QED  BY <1>12, <2>2, <2>3, RowMoves DEF RetryOwned
<1>13. ASSUME NEW d \in Docs, Delete(d) PROVE IInv'
  <2>1. /\ EmptyRow("deleted") \in Row /\ EmptyRow("deleted").token = NoToken
        /\ RowOK(EmptyRow("deleted"), claims[d], retries[d])
    BY Records DEF EmptyRow, RowOK, NoToken
  <2> QED  BY <1>13, <2>1, RowMoves DEF Delete
<1>14. ASSUME NEW d \in Docs, LeaseExpires(d) PROVE IInv'
  <2> DEFINE r == [row[d] EXCEPT !.leaseLive = FALSE]
  <2>1. /\ row[d] \in Row /\ claims[d] \in Nat /\ retries[d] \in Nat
        /\ RowOK(row[d], claims[d], retries[d])
    BY BoundsAssumption
  <2>2. r \in Row /\ RowOK(r, claims[d], retries[d])
    BY <2>1, TimePasses
  <2>3. r.token = row[d].token /\ r.attempts = row[d].attempts
    BY <2>1 DEF Row
  <2> QED  BY <1>14, <2>2, <2>3, RowMoves DEF LeaseExpires
<1>15. ASSUME NEW d \in Docs, BackoffElapses(d) PROVE IInv'
  <2> DEFINE r == [row[d] EXCEPT !.backoff = FALSE]
  <2>1. /\ row[d] \in Row /\ claims[d] \in Nat /\ retries[d] \in Nat
        /\ RowOK(row[d], claims[d], retries[d])
    BY BoundsAssumption
  <2>2. r \in Row /\ RowOK(r, claims[d], retries[d])
    BY <2>1, TimePasses
  <2>3. r.token = row[d].token /\ r.attempts = row[d].attempts
    BY <2>1 DEF Row
  <2> QED  BY <1>15, <2>2, <2>3, RowMoves DEF BackoffElapses
<1> QED
  BY <1>1, <1>2, <1>3, <1>4, <1>5, <1>6, <1>7, <1>8, <1>9, <1>10, <1>11, <1>12,
     <1>13, <1>14, <1>15 DEF Next, WorkerNext, DocNext

-----------------------------------------------------------------------------
(* The invariants as theorems of the specification.                         *)

\* The inductive invariant holds in every reachable state.
THEOREM InvariantHolds == Spec => []IInv
<1>1. Init => IInv
  BY InitInvariant
<1>2. IInv /\ [Next]_vars => IInv'
  BY NextKeepsInvariant
<1> QED  BY <1>1, <1>2, PTL DEF Spec

\* Type correctness: no claim takes a document beyond MaxAttempts.
THEOREM TypeCorrect == Spec => []TypeOK
<1>1. IInv => TypeOK
  BY DEF IInv
<1> QED  BY <1>1, InvariantHolds, PTL

\* Fencing: the stored text and chunks are those of the last claim, whatever
\* stale workers, crashes and renewals do.
THEOREM Fencing == Spec => []ResultOfLastClaim
<1>1. ASSUME IInv, NEW d \in Docs
      PROVE  /\ row[d].result # NoToken <=> row[d].status = "completed"
             /\ row[d].status = "completed" => row[d].result = claims[d]
  <2>1. /\ row[d].result = (IF row[d].status = "completed" THEN claims[d] ELSE NoToken)
        /\ row[d].status = "completed" => claims[d] > 0
    BY <1>1 DEF IInv, RowOK
  <2>2. claims[d] \in Nat
    BY <1>1 DEF IInv, TypeOK
  <2> QED  BY <2>1, <2>2 DEF NoToken
<1>2. IInv => ResultOfLastClaim
  BY <1>1 DEF ResultOfLastClaim
<1> QED  BY <1>2, InvariantHolds, PTL

\* No document is given up as retryable before its last attempt.
THEOREM NoEarlyGiveUp == Spec => []GivesUpOnlyWhenExhausted
<1>1. IInv => GivesUpOnlyWhenExhausted
  BY DEF IInv, RowOK, GivesUpOnlyWhenExhausted
<1> QED  BY <1>1, InvariantHolds, PTL

\* The attempts of a row account for every claim ever made of it.
THEOREM AttemptsAccounted == Spec => []EveryClaimIsCounted
<1>1. IInv => EveryClaimIsCounted
  BY DEF IInv, RowOK, EveryClaimIsCounted
<1> QED  BY <1>1, InvariantHolds, PTL

-----------------------------------------------------------------------------
(* The action properties.                                                   *)

\* No action but Delete changes a row that is final.
LEMMA FinalRowStays ==
    ASSUME IInv, [Next]_vars, NEW d \in Docs, Final(row[d])
    PROVE  row'[d] \in {row[d], EmptyRow("deleted")}
<1> USE DEF IInv, TypeOK
<1>1. row[d].status \in {"completed", "deleted", "failed"}
      /\ (row[d].status = "failed" => row[d].failureKind = "permanent")
  BY DEF Final, RowOK
<1>2. CASE UNCHANGED vars
  BY <1>2 DEF vars
<1>3. ~Due(row[d])
  BY <1>1 DEF Due
<1>4. ASSUME NEW w \in Workers, NEW e \in Docs, ClaimNext(w, e) PROVE row'[d] = row[d]
  BY <1>3, <1>4 DEF ClaimNext, Swept, Claimable, Exhausted
<1>5. ASSUME NEW w \in Workers, ClaimNothing(w) PROVE row'[d] = row[d]
  BY <1>3, <1>5 DEF ClaimNothing, Swept, Exhausted
<1>6. ASSUME NEW w \in Workers, RenewLease(w) PROVE row'[d] = row[d]
  BY <1>1, <1>6 DEF RenewLease, HoldsLease, SetRow
<1>7. ASSUME NEW w \in Workers, Complete(w) \/ Fail(w) \/ Retry(w) PROVE row'[d] = row[d]
  BY <1>1, <1>7 DEF Complete, Fail, Retry, Settle, HoldsLease, SetRow
<1>8. ASSUME NEW w \in Workers,
             \/ ProcessDocument(w) \/ HeartbeatTick(w) \/ RenewalFails(w)
             \/ StopHeartbeat(w) \/ AbandonJob(w) \/ SettleFails(w) \/ Crash(w)
      PROVE  row'[d] = row[d]
  BY <1>8 DEF ProcessDocument, HeartbeatTick, RenewalFails, StopHeartbeat,
              AbandonJob, SettleFails, Crash
<1>9. ASSUME NEW e \in Docs, DocNext(e)
      PROVE  row'[d] \in {row[d], EmptyRow("deleted")}
  <2>1. CASE Upload(e) \/ RetryOwned(e)
    BY <1>1, <2>1 DEF Upload, RetryOwned, SetRow
  <2>2. CASE Delete(e)
    BY <2>2 DEF Delete, SetRow
  <2>3. CASE LeaseExpires(e) \/ BackoffElapses(e)
    BY <1>1, <2>3 DEF LeaseExpires, BackoffElapses, SetRow, RowOK
  <2> QED  BY <1>9, <2>1, <2>2, <2>3 DEF DocNext
<1> QED
  BY <1>2, <1>4, <1>5, <1>6, <1>7, <1>8, <1>9 DEF Next, WorkerNext

\* No step changes a completed, permanently failed or deleted row, except
\* that its user may delete it.
THEOREM FinalRows == Spec => FinalRowsStay
<1>1. IInv /\ [Next]_vars =>
         [\A d \in Docs : Final(row[d]) => row'[d] \in {row[d], EmptyRow("deleted")}]_vars
  BY FinalRowStays
<1> QED  BY <1>1, InvariantHolds, PTL DEF Spec, FinalRowsStay

\* While a lease is live, only the holder of the last claim, as it settles
\* the job, and the user's Delete change the row.
THEOREM LiveLeases == Spec => LiveLeaseExcludes
<1> DEFINE Excused(d) ==
       \/ row'[d] = EmptyRow("deleted")
       \/ row'[d] = [row[d] EXCEPT !.leaseLive = FALSE]
       \/ \E w \in Workers : /\ worker[w].doc = d
                             /\ worker[w].token = claims[d]
                             /\ worker'[w] = IdleWorker
<1>1. ASSUME IInv, [Next]_vars, NEW d \in Docs, row[d].leaseLive, row'[d] # row[d]
      PROVE  Excused(d)
  <2> USE <1>1 DEF IInv, TypeOK
  <2>1. row[d].status = "processing" /\ ~row[d].backoff
    BY DEF RowOK
  <2>2. ~Due(row[d])
    BY <2>1 DEF Due
  <2>3. ~UNCHANGED vars
    BY DEF vars
  <2>4. ASSUME NEW w \in Workers, NEW e \in Docs, ClaimNext(w, e) PROVE FALSE
    BY <2>2, <2>4 DEF ClaimNext, Swept, Claimable, Exhausted
  <2>5. ASSUME NEW w \in Workers, ClaimNothing(w) PROVE FALSE
    BY <2>2, <2>5 DEF ClaimNothing, Swept, Exhausted
  <2>6. ASSUME NEW w \in Workers, RenewLease(w) PROVE FALSE
    <3>1. row[d] \in Row
      OBVIOUS
    <3>2. RenewedRow(row[d]) = row[d]
      BY <3>1 DEF RenewedRow, Row
    <3> QED  BY <2>6, <3>2 DEF RenewLease, SetRow
  <2>7. ASSUME NEW w \in Workers, Complete(w) \/ Fail(w) \/ Retry(w) PROVE Excused(d)
    <3>1. worker[w].pc = "settling" /\ HoldsLease(w)
      BY <2>7 DEF Complete, Fail, Retry, Settle
    <3>2. worker[w].token = claims[worker[w].doc]
      BY <3>1, HolderIsLastClaim
    <3>3. worker'[w] = IdleWorker
      BY <2>7 DEF Complete, Fail, Retry, Settle, SetWorker
    <3>4. worker[w].doc = d
      BY <2>7 DEF Complete, Fail, Retry, Settle, SetRow
    <3> QED  BY <3>2, <3>3, <3>4
  <2>8. ASSUME NEW w \in Workers,
               \/ ProcessDocument(w) \/ HeartbeatTick(w) \/ RenewalFails(w)
               \/ StopHeartbeat(w) \/ AbandonJob(w) \/ SettleFails(w) \/ Crash(w)
        PROVE  FALSE
    BY <2>8 DEF ProcessDocument, HeartbeatTick, RenewalFails, StopHeartbeat,
                AbandonJob, SettleFails, Crash
  <2>9. ASSUME NEW e \in Docs, DocNext(e) PROVE Excused(d)
    <3>1. CASE Upload(e) \/ RetryOwned(e) \/ BackoffElapses(e)
      BY <2>1, <3>1 DEF Upload, RetryOwned, BackoffElapses, SetRow
    <3>2. CASE Delete(e)
      BY <3>2 DEF Delete, SetRow
    <3>3. CASE LeaseExpires(e)
      BY <3>3 DEF LeaseExpires, SetRow
    <3> QED  BY <2>9, <3>1, <3>2, <3>3 DEF DocNext
  <2> HIDE DEF Excused
  <2> QED
    BY <2>3, <2>4, <2>5, <2>6, <2>7, <2>8, <2>9 DEF Next, WorkerNext
<1>2. IInv /\ [Next]_vars =>
         [\A d \in Docs : row[d].leaseLive /\ row'[d] # row[d] => Excused(d)]_vars
  BY <1>1
<1> QED  BY <1>2, InvariantHolds, PTL DEF Spec, LiveLeaseExcludes

-----------------------------------------------------------------------------
(* Failing for good.                                                        *)

\* What a worker knows of its document after a step.
LEMMA VerdictStep ==
    ASSUME IInv, [Next]_vars, NEW w \in Workers, worker'[w].outcome = "permanent"
    PROVE  /\ worker'[w].doc = worker[w].doc
           /\ worker'[w].token = worker[w].token
           /\ worker[w].pc # "idle" => worker'[w].pc # "idle"
           /\ worker[w].outcome = "permanent" \/ ProcessDocument(w)
<1> USE DEF IInv, TypeOK, SetWorker
<1>1. worker'[w] # IdleWorker
  BY DEF IdleWorker
<1>2. ASSUME NEW v \in Workers, NEW d \in Docs, ClaimNext(v, d)
      PROVE  worker'[w] = worker[w]
  <2>1. ClaimingWorker(d, claims[d] + 1, row[d].attempts + 1).outcome = "none"
    BY DEF ClaimingWorker
  <2> QED  BY <1>2, <2>1 DEF ClaimNext
<1>3. ASSUME NEW v \in Workers, HeartbeatTick(v) \/ RenewLease(v) \/ RenewalFails(v) \/ StopHeartbeat(v)
      PROVE  /\ worker'[w].doc = worker[w].doc /\ worker'[w].outcome = worker[w].outcome
             /\ worker'[w].token = worker[w].token
             /\ worker[w].pc # "idle" => worker'[w].pc # "idle"
  <2>1. worker[v] \in Worker /\ worker[w] \in Worker
    OBVIOUS
  <2>2. CASE v # w
    BY <1>3, <2>2 DEF HeartbeatTick, RenewLease, RenewalFails, StopHeartbeat
  <2>3. CASE v = w /\ HeartbeatTick(v)
    BY <2>1, <2>3 DEF HeartbeatTick, Worker
  <2>4. CASE v = w /\ (RenewLease(v) \/ RenewalFails(v))
    BY <2>1, <2>4 DEF RenewLease, RenewalFails, Worker
  <2>5. CASE v = w /\ StopHeartbeat(v)
    BY <2>1, <2>5 DEF StopHeartbeat, Worker
  <2> QED  BY <1>3, <2>2, <2>3, <2>4, <2>5
<1>4. ASSUME NEW v \in Workers, v # w, ProcessDocument(v)
      PROVE  worker'[w] = worker[w]
  BY <1>4 DEF ProcessDocument, Returns
<1>5. ASSUME ProcessDocument(w)
      PROVE  /\ worker'[w].doc = worker[w].doc /\ worker'[w].token = worker[w].token
             /\ worker'[w].pc # "idle"
  BY <1>5 DEF ProcessDocument, Returns, Worker
<1>6. ASSUME NEW v \in Workers,
             \/ AbandonJob(v) \/ Complete(v) \/ Fail(v) \/ Retry(v) \/ SettleFails(v)
             \/ Crash(v) \/ ClaimNothing(v)
      PROVE  worker'[w] = worker[w]
  BY <1>1, <1>6 DEF AbandonJob, Complete, Fail, Retry, Settle, SettleFails, Crash, ClaimNothing
<1>7. ASSUME NEW d \in Docs, DocNext(d) PROVE worker'[w] = worker[w]
  BY <1>7 DEF DocNext, Upload, RetryOwned, Delete, LeaseExpires, BackoffElapses
<1>8. CASE UNCHANGED vars
  BY <1>8 DEF vars
<1> QED
  BY <1>2, <1>3, <1>4, <1>5, <1>6, <1>7, <1>8 DEF Next, WorkerNext

\* Who makes a row fail for good: the worker that holds its lease.
LEMMA OnlyFailFails ==
    ASSUME IInv, [Next]_vars, NEW d \in Docs,
           row'[d].status = "failed", row'[d].failureKind = "permanent"
    PROVE  \/ row[d].status = "failed" /\ row[d].failureKind = "permanent"
           \/ \E w \in Workers : /\ worker[w].doc = d /\ worker[w].outcome = "permanent"
                                 /\ worker[w].pc # "idle" /\ HoldsLease(w)
<1> USE DEF IInv, TypeOK, SetRow
<1>1. row[d] \in Row /\ RowOK(row[d], claims[d], retries[d])
  OBVIOUS
<1>2. Swept(row[d]).failureKind = "permanent" => Swept(row[d]) = row[d]
  BY <1>1, SweptRowOK, BoundsAssumption DEF Swept
<1>3. ASSUME NEW w \in Workers, NEW e \in Docs, ClaimNext(w, e) PROVE row'[d] = row[d]
  <2>1. ClaimedRow(row[e], claims[e] + 1).status = "processing"
    BY DEF ClaimedRow, Row
  <2> QED  BY <1>2, <1>3, <2>1 DEF ClaimNext
<1>4. ASSUME NEW w \in Workers, ClaimNothing(w) PROVE row'[d] = row[d]
  BY <1>2, <1>4 DEF ClaimNothing
<1>5. ASSUME NEW w \in Workers, RenewLease(w)
      PROVE  row'[d].status = row[d].status /\ row'[d].failureKind = row[d].failureKind
  BY <1>1, <1>5 DEF RenewLease, RenewedRow, Row
<1>6. ASSUME NEW w \in Workers, Complete(w) \/ Fail(w) \/ Retry(w),
             ~ (row[d].status = "failed" /\ row[d].failureKind = "permanent")
      PROVE  /\ worker[w].doc = d /\ worker[w].outcome = "permanent"
             /\ worker[w].pc # "idle" /\ HoldsLease(w)
  <2>1. worker[w].pc = "settling" /\ HoldsLease(w)
    BY <1>6 DEF Complete, Fail, Retry, Settle
  <2>2. worker[w].doc = d
    BY <1>6 DEF Complete, Fail, Retry, Settle
  <2>3. /\ CompletedRow(row[d], worker[w].token).status = "completed"
        /\ RequeuedRow(row[d]).status = "queued"
        /\ FailedRow(row[d], "retryable").failureKind = "retryable"
    BY <1>1 DEF CompletedRow, RequeuedRow, FailedRow, Unleased, Row
  <2>4. worker[w].outcome = "permanent"
    BY <1>6, <2>2, <2>3 DEF Complete, Fail, Retry, Settle
  <2> QED  BY <2>1, <2>2, <2>4
<1>7. ASSUME NEW w \in Workers,
             \/ ProcessDocument(w) \/ HeartbeatTick(w) \/ RenewalFails(w)
             \/ StopHeartbeat(w) \/ AbandonJob(w) \/ SettleFails(w) \/ Crash(w)
      PROVE  row'[d] = row[d]
  BY <1>7 DEF ProcessDocument, HeartbeatTick, RenewalFails, StopHeartbeat,
              AbandonJob, SettleFails, Crash
<1>8. ASSUME NEW e \in Docs, DocNext(e)
      PROVE  row'[d].status = row[d].status /\ row'[d].failureKind = row[d].failureKind
  <2>1. CASE Upload(e) \/ Delete(e)
    BY <2>1 DEF Upload, Delete, EmptyRow
  <2>2. CASE RetryOwned(e)
    <3>1. ReopenedRow(row[e]).status = "queued"
      BY DEF ReopenedRow, Unleased, Row
    <3> QED  BY <2>2, <3>1 DEF RetryOwned
  <2>3. CASE LeaseExpires(e) \/ BackoffElapses(e)
    BY <1>1, <2>3 DEF LeaseExpires, BackoffElapses, Row
  <2> QED  BY <1>8, <2>1, <2>2, <2>3 DEF DocNext
<1>9. CASE UNCHANGED vars
  BY <1>9 DEF vars
<1> QED
  BY <1>3, <1>4, <1>5, <1>6, <1>7, <1>8, <1>9 DEF Next, WorkerNext

\* Only a claim of a document takes it for free of faults again.
LEMMA FaultStep ==
    ASSUME IInv, [Next]_vars, NEW d \in Docs
    PROVE  \/ claims'[d] = claims[d] /\ (d \in faulty => d \in faulty')
           \/ claims'[d] = claims[d] + 1 /\ row'[d].status = "processing"
<1> USE DEF IInv, TypeOK
<1>1. ASSUME NEW w \in Workers, NEW e \in Docs, ClaimNext(w, e)
      PROVE  \/ claims'[d] = claims[d] /\ (d \in faulty => d \in faulty')
             \/ claims'[d] = claims[d] + 1 /\ row'[d].status = "processing"
  <2>1. CASE e = d
    <3>1. ClaimedRow(row[d], claims[d] + 1).status = "processing"
      BY DEF ClaimedRow, Row
    <3> QED  BY <1>1, <2>1, <3>1 DEF ClaimNext
  <2>2. CASE e # d
    BY <1>1, <2>2 DEF ClaimNext
  <2> QED  BY <2>1, <2>2
<1>2. ASSUME NEW w \in Workers, WorkerNext(w), \A e \in Docs : ~ClaimNext(w, e)
      PROVE  claims' = claims /\ faulty \subseteq faulty'
  BY <1>2 DEF WorkerNext, ClaimNothing, ProcessDocument, HeartbeatTick, RenewLease, RenewalFails,
              StopHeartbeat, AbandonJob, Complete, Fail, Retry, Settle, SettleFails, Crash
<1>3. ASSUME NEW e \in Docs, DocNext(e) PROVE claims' = claims /\ faulty' = faulty
  BY <1>3 DEF DocNext, Upload, RetryOwned, Delete, LeaseExpires, BackoffElapses
<1>4. CASE UNCHANGED vars
  BY <1>4 DEF vars
<1> QED  BY <1>1, <1>2, <1>3, <1>4 DEF Next

\* A worker that finds a PDF with text invalid by its last claim meets a fault,
\* or the document is gone.
LEMMA VerdictKept ==
    ASSUME IInv, VerdictInv, [Next]_vars PROVE VerdictInv'
<1> SUFFICES ASSUME NEW w \in Workers, worker'[w].outcome = "permanent"
             PROVE  /\ worker'[w].pc # "idle"
                    /\ (/\ worker'[w].doc \in ValidPdfs
                        /\ worker'[w].token = claims'[worker'[w].doc])
                          => \/ worker'[w].doc \in faulty'
                             \/ row'[worker'[w].doc].status = "deleted"
  BY DEF VerdictInv
<1>1. /\ worker'[w].doc = worker[w].doc /\ worker'[w].token = worker[w].token
      /\ worker[w].pc # "idle" => worker'[w].pc # "idle"
      /\ worker[w].outcome = "permanent" \/ ProcessDocument(w)
  BY VerdictStep
<1>2. worker[w].pc # "idle"
  BY <1>1 DEF VerdictInv, ProcessDocument
<1> SUFFICES ASSUME NEW d \in ValidPdfs, d = worker[w].doc, worker[w].token = claims'[d]
             PROVE  d \in faulty' \/ row'[d].status = "deleted"
  BY <1>1, <1>2
<1>3. d \in Docs /\ claims[d] \in Nat
  BY DocsAssumption DEF IInv, TypeOK
<1>4. worker[w].token = claims[d] /\ (d \in faulty => d \in faulty')
  <2>1. worker[w].token \in 1 .. claims[d]
    BY <1>2 DEF IInv, WorkerOK
  <2> QED  BY <1>3, <2>1, FaultStep
<1>5. CASE d \in faulty
  BY <1>4, <1>5
<1>6. CASE row[d].status = "deleted"
  BY <1>3, <1>6, FinalRowStays DEF Final, EmptyRow
<1>7. CASE ProcessDocument(w)
  <2>1. CASE \E o \in Outcomes(d) : Returns(w, o)
    <3>1. PICK o \in Outcomes(d) : Returns(w, o)
      BY <2>1
    <3>2. o = "permanent"
      BY <3>1 DEF Returns, SetWorker, IInv, TypeOK, Worker
    <3> QED  BY <3>1, <3>2, <1>6 DEF Outcomes
  <2>2. CASE d \in faulty'
    BY <2>2
  <2> QED  BY <1>3, <1>4, <1>7, <2>1, <2>2 DEF ProcessDocument
<1> QED  BY <1>1, <1>4, <1>5, <1>6, <1>7 DEF VerdictInv

\* A PDF with text is failed for good only by a fault that its last claim met:
\* no verdict of an earlier claim, however late, reaches the row.
THEOREM LastClaimRejects == Spec => []OnlyLastClaimRejects
<1>1. Init => VerdictInv /\ OnlyLastClaimRejects
  BY DocsAssumption DEF Init, VerdictInv, OnlyLastClaimRejects, IdleWorker, EmptyRow
<1>2. ASSUME IInv, VerdictInv, OnlyLastClaimRejects, [Next]_vars PROVE OnlyLastClaimRejects'
  <2> SUFFICES ASSUME NEW d \in ValidPdfs,
                      row'[d].status = "failed", row'[d].failureKind = "permanent"
               PROVE  d \in faulty'
    BY DEF OnlyLastClaimRejects
  <2>1. d \in Docs
    BY DocsAssumption
  <2>2. d \in faulty => d \in faulty'
    BY <1>2, <2>1, FaultStep
  <2>3. CASE row[d].status = "failed" /\ row[d].failureKind = "permanent"
    BY <1>2, <2>2, <2>3 DEF OnlyLastClaimRejects
  <2>4. ASSUME NEW w \in Workers, worker[w].doc = d, worker[w].outcome = "permanent",
               worker[w].pc # "idle", HoldsLease(w)
        PROVE  d \in faulty
    <3>1. row[d].status = "processing" /\ worker[w].token = claims[d]
      BY <1>2, <2>4, HolderIsLastClaim
    <3> QED  BY <1>2, <2>4, <3>1 DEF VerdictInv
  <2> QED  BY <1>2, <2>1, <2>2, <2>3, <2>4, OnlyFailFails
<1>3. IInv /\ VerdictInv /\ [Next]_vars => VerdictInv'
  BY VerdictKept
<1> QED  BY <1>1, <1>2, <1>3, InvariantHolds, PTL DEF Spec

-----------------------------------------------------------------------------
(* The refinement.                                                          *)

\* What one row may do in a step, for its owner.
RowMove(r, q) ==
    \/ Phase(q) = Phase(r) /\ q.attempts = r.attempts
    \/ Phase(r) = "absent" /\ Phase(q) = "pending" /\ q.attempts = 0
    \/ /\ Phase(r) = "pending" /\ Phase(q) = "pending"
       /\ r.attempts < MaxAttempts /\ q.attempts = r.attempts + 1
    \/ /\ Phase(r) = "pending" /\ Phase(q) \in {"completed", "rejected"}
       /\ r.attempts > 0 /\ q.attempts = r.attempts
    \/ /\ Phase(r) = "pending" /\ Phase(q) = "exhausted"
       /\ r.attempts = MaxAttempts /\ q.attempts = r.attempts
    \/ Phase(r) = "exhausted" /\ Phase(q) = "pending" /\ q.attempts = 0
    \/ /\ Phase(r) \in {"pending", "completed", "rejected", "exhausted"}
       /\ Phase(q) = "deleted" /\ q.attempts = 0

\* Every row that the queue can hold has a phase.
LEMMA PhaseType == ASSUME NEW r \in Row PROVE Phase(r) \in Lifecycle!Phases
BY DEF Row, Phase, Lifecycle!Phases

\* No row has more attempts than the limit.
LEMMA AttemptsCapped ==
    ASSUME NEW r \in Row, r.attempts >= MaxAttempts
    PROVE  r.attempts = MaxAttempts
<1>1. r.attempts \in 0 .. MaxAttempts /\ MaxAttempts \in Nat
  BY BoundsAssumption DEF Row
<1> QED  BY <1>1

\* Row by row, a step of the queue is one of these moves.
LEMMA StepMovesRows ==
    ASSUME IInv, [Next]_vars, NEW d \in Docs
    PROVE  RowMove(row[d], row'[d])
<1> USE DEF IInv, TypeOK
<1>1. /\ row[d] \in Row /\ claims[d] \in Nat /\ retries[d] \in Nat
      /\ RowOK(row[d], claims[d], retries[d])
  BY BoundsAssumption
<1>2. CASE row'[d] = row[d]
  BY <1>2 DEF RowMove
<1>3. ASSUME row'[d] = ClaimedRow(row[d], claims[d] + 1), Claimable(row[d])
      PROVE  RowMove(row[d], row'[d])
  <2>1. row[d].status \in {"queued", "processing"} /\ row[d].attempts < MaxAttempts
    BY <1>3 DEF Claimable, Due
  <2>2. row'[d].status = "processing" /\ row'[d].attempts = row[d].attempts + 1
    BY <1>1, <1>3, ClaimedRowOK
  <2> QED  BY <2>1, <2>2 DEF RowMove, Phase
<1>4. ASSUME row'[d] = SweptRow(row[d]), Exhausted(row[d])
      PROVE  RowMove(row[d], row'[d])
  <2>1. /\ row[d].status \in {"queued", "processing"} /\ row[d].attempts = MaxAttempts
        /\ row'[d].status = "failed" /\ row'[d].failureKind = "retryable"
        /\ row'[d].attempts = row[d].attempts
    BY <1>1, <1>4, SweptRowOK
  <2> QED  BY <2>1 DEF RowMove, Phase
<1>5. ASSUME NEW w \in Workers, NEW e \in Docs, ClaimNext(w, e)
      PROVE  RowMove(row[d], row'[d])
  BY <1>2, <1>3, <1>4, <1>5 DEF ClaimNext, Swept
<1>6. ASSUME NEW w \in Workers, ClaimNothing(w) PROVE RowMove(row[d], row'[d])
  BY <1>2, <1>4, <1>6 DEF ClaimNothing, Swept
<1>7. ASSUME NEW w \in Workers, RenewLease(w) PROVE RowMove(row[d], row'[d])
  <2>1. row'[d] = row[d] \/ row'[d] = RenewedRow(row[d])
    BY <1>7 DEF RenewLease, SetRow
  <2>2. /\ RenewedRow(row[d]).status = row[d].status
        /\ RenewedRow(row[d]).failureKind = row[d].failureKind
        /\ RenewedRow(row[d]).attempts = row[d].attempts
    BY <1>1 DEF RenewedRow, Row
  <2> QED  BY <2>1, <2>2 DEF RowMove, Phase
<1>8. ASSUME NEW w \in Workers, Complete(w) \/ Fail(w) \/ Retry(w), row'[d] # row[d]
      PROVE  RowMove(row[d], row'[d])
  <2>1. worker[w].pc = "settling" /\ HoldsLease(w) /\ worker[w].doc = d
    BY <1>8 DEF Complete, Fail, Retry, Settle, SetRow
  <2>2. /\ row[d].status = "processing" /\ row[d].attempts > 0
        /\ worker[w].attempt = row[d].attempts
    BY <1>1, <2>1, HolderIsLastClaim DEF RowOK
  <2>3. CASE Complete(w)
    <3>1. row'[d] = CompletedRow(row[d], worker[w].token)
      BY <2>1, <2>3 DEF Complete, Settle, SetRow
    <3>2. row'[d].status = "completed" /\ row'[d].attempts = row[d].attempts
      BY <1>1, <3>1 DEF CompletedRow, Unleased, Row
    <3> QED  BY <2>2, <3>2 DEF RowMove, Phase
  <2>4. CASE Fail(w)
    <3>1. \/ row'[d] = FailedRow(row[d], "permanent")
          \/ row'[d] = FailedRow(row[d], "retryable") /\ row[d].attempts = MaxAttempts
      <4>1. row[d].attempts >= MaxAttempts => row[d].attempts = MaxAttempts
        BY <1>1, AttemptsCapped
      <4> QED  BY <2>1, <2>2, <2>4, <4>1 DEF Fail, Settle, SetRow
    <3>2. /\ row'[d].status = "failed" /\ row'[d].attempts = row[d].attempts
          /\ \/ row'[d].failureKind = "permanent"
             \/ row'[d].failureKind = "retryable" /\ row[d].attempts = MaxAttempts
      BY <1>1, <3>1 DEF FailedRow, Unleased, Row
    <3> QED  BY <2>2, <3>2 DEF RowMove, Phase
  <2>5. CASE Retry(w)
    <3>1. row'[d] = RequeuedRow(row[d])
      BY <2>1, <2>5 DEF Retry, Settle, SetRow
    <3>2. row'[d].status = "queued" /\ row'[d].attempts = row[d].attempts
      BY <1>1, <3>1 DEF RequeuedRow, Unleased, Row
    <3> QED  BY <2>2, <3>2 DEF RowMove, Phase
  <2> QED  BY <1>8, <2>3, <2>4, <2>5
<1>9. ASSUME NEW w \in Workers,
             \/ ProcessDocument(w) \/ HeartbeatTick(w) \/ RenewalFails(w)
             \/ StopHeartbeat(w) \/ AbandonJob(w) \/ SettleFails(w) \/ Crash(w)
      PROVE  row'[d] = row[d]
  BY <1>9 DEF ProcessDocument, HeartbeatTick, RenewalFails, StopHeartbeat,
              AbandonJob, SettleFails, Crash
<1>10. ASSUME NEW e \in Docs, DocNext(e), row'[d] # row[d]
       PROVE  RowMove(row[d], row'[d])
  <2>1. CASE Upload(e)
    BY <1>1, <1>10, <2>1 DEF Upload, SetRow, EmptyRow, RowMove, Phase
  <2>2. CASE RetryOwned(e)
    <3>1. /\ row'[d] = ReopenedRow(row[d])
          /\ row[d].status = "failed" /\ row[d].failureKind = "retryable"
      BY <1>1, <1>10, <2>2 DEF RetryOwned, SetRow, Row
    <3>2. row'[d].status = "queued" /\ row'[d].attempts = 0
      BY <1>1, <3>1 DEF ReopenedRow, Unleased, Row
    <3> QED  BY <3>1, <3>2 DEF RowMove, Phase
  <2>3. CASE Delete(e)
    <3>1. row[d].status \notin {"absent", "deleted"} /\ row'[d] = EmptyRow("deleted")
      BY <1>10, <2>3 DEF Delete, SetRow
    <3>2. Phase(row[d]) \in {"pending", "completed", "rejected", "exhausted"}
      BY <1>1, <3>1 DEF Phase, Row
    <3> QED  BY <3>1, <3>2 DEF RowMove, Phase, EmptyRow
  <2>4. CASE LeaseExpires(e) \/ BackoffElapses(e)
    <3>1. /\ row'[d].status = row[d].status /\ row'[d].failureKind = row[d].failureKind
          /\ row'[d].attempts = row[d].attempts
      BY <1>1, <1>10, <2>4 DEF LeaseExpires, BackoffElapses, SetRow, Row
    <3> QED  BY <3>1 DEF RowMove, Phase
  <2> QED  BY <1>10, <2>1, <2>2, <2>3, <2>4 DEF DocNext
<1> QED
  BY <1>2, <1>5, <1>6, <1>7, <1>8, <1>9, <1>10 DEF vars, Next, WorkerNext

\* The queue implements the lifecycle: whatever workers, crashes and clocks
\* do, an owner sees each document go through the phases of JobLifecycle.
THEOREM Refinement == Spec => ImplementsLifecycle
<1>1. Init => Lifecycle!Init
  BY DEF Init, Lifecycle!Init, EmptyRow, Phase
<1>2. ASSUME IInv, IInv', [Next]_vars PROVE Lifecycle!Next
  <2> DEFINE phase == [d \in Docs |-> Phase(row[d])]
             tries == [d \in Docs |-> row[d].attempts]
  <2>1. /\ \A d \in Docs : Phase(row'[d]) \in Lifecycle!Phases
        /\ \A d \in Docs : row'[d].attempts \in 0 .. MaxAttempts
    BY <1>2, PhaseType DEF IInv, TypeOK, Row
  <2>2. ASSUME NEW d \in Docs PROVE Lifecycle!Step(d) \/ Lifecycle!Stays(d)
    <3>1. RowMove(row[d], row'[d])
      BY <1>2, StepMovesRows
    <3>2. /\ phase[d] = Phase(row[d]) /\ tries[d] = row[d].attempts
          /\ phase'[d] = Phase(row'[d]) /\ tries'[d] = row'[d].attempts
      OBVIOUS
    <3> QED
      BY <3>1, <3>2
         DEF RowMove, Lifecycle!Step, Lifecycle!Stays, Lifecycle!Move,
             Lifecycle!Submit, Lifecycle!Attempt, Lifecycle!Finish,
             Lifecycle!Reject, Lifecycle!GiveUp, Lifecycle!Reopen,
             Lifecycle!Remove, Lifecycle!Phases
  <2> QED  BY <2>1, <2>2 DEF Lifecycle!Next
<1>3. IInv /\ IInv' /\ [Next]_vars => [Lifecycle!Next]_(Lifecycle!jobs)
  BY <1>2
<1> QED
  BY <1>1, <1>3, InvariantHolds, PTL DEF Spec, ImplementsLifecycle, Lifecycle!Spec
=============================================================================
