----------------------------- MODULE UsageLocks -----------------------------
(***************************************************************************)
(* The row locks that the transactions of src/api/database.go take, one    *)
(* after another, and hold to their end: usage rows and reservations of    *)
(* owners, documents and their chunks.                                     *)
(*                                                                         *)
(* DocumentJobs, UploadQuota and AnswerQuota take each transaction for one *)
(* step.  This module looks inside: who waits for whom.                    *)
(***************************************************************************)
EXTENDS Integers, FiniteSets, SequencesExt

CONSTANTS
    Connections, \* connections of the pools of all API instances
    Owners,      \* owners, numbered in the order of their identifiers
    Docs,        \* documents
    OwnerOf      \* the owner of each document

ASSUME OwnersAssumption ==
    /\ Owners \subseteq Nat /\ IsFiniteSet(Owners)
    /\ IsFiniteSet(Docs) /\ IsFiniteSet(Connections)
    /\ OwnerOf \in [Docs -> Owners]

Usage(o) == <<"usage", o>>
Reservations(o) == <<"reservations", o>>
Document(d) == <<"document", d>>
Chunks(d) == <<"chunks", d>>

Locks ==
    UNION ({{Usage(o), Reservations(o)} : o \in Owners}
                \union {{Document(d), Chunks(d)} : d \in Docs})

VARIABLES
    tx,     \* the transaction of each connection: its kind, the locks it holds
            \* and, in order, those it has yet to take
    status, \* the committed status of each document
    chunks  \* whether it has rows in document_chunks

vars == <<tx, status, chunks>>

Idle == [kind |-> "none", held |-> {}, plan |-> <<>>]

\* A queued document is locked like one that is processed.
Init ==
    /\ tx = [c \in Connections |-> Idle]
    /\ status = [d \in Docs |-> "processing"]
    /\ chunks = [d \in Docs |-> FALSE]

-----------------------------------------------------------------------------
(* The transactions, each by the locks that its statements take in turn.    *)

Begin(c, kind, plan) ==
    /\ tx[c] = Idle
    /\ tx' = [tx EXCEPT ![c] = [kind |-> kind, held |-> {}, plan |-> plan]]
    /\ UNCHANGED <<status, chunks>>

\* ReserveUpload, CreateOwnedAndCommitUpload, ReleaseUpload, BeginAnswer and
\* EndAnswer: lockOwnerUsage first, then the reservations that are settled or have
\* expired.
QuotaTransaction(c) ==
    \E o \in Owners : Begin(c, "quota", <<Usage(o), Reservations(o)>>)

\* Mutant of RecoveryOrder: no ORDER BY owner_id.
RecoveryOrder_none == SetToSeqs(Owners)

\* ORDER BY owner_id.
RecoveryOrder ==
    {order \in [1 .. Cardinality(Owners) -> Owners] :
        \A i, j \in DOMAIN order : i < j => order[i] < order[j]}

\* RecoverExpiredReservations takes owner after owner.
RecoverExpiredReservations(c) ==
    \E order \in RecoveryOrder :
        Begin(c, "recover",
              [i \in 1 .. 2 * Cardinality(Owners) |->
                  IF i % 2 = 1 THEN Usage(order[(i + 1) \div 2])
                               ELSE Reservations(order[i \div 2])])

\* DeleteOwnedWithUsage.
Delete(c) ==
    \E d \in Docs :
        /\ status[d] # "deleted"
        /\ Begin(c, "delete", <<Usage(OwnerOf[d]), Chunks(d), Document(d)>>)

Complete(c) ==
    \E d \in Docs : Begin(c, "complete", <<Document(d), Chunks(d)>>)

\* Fail, by which the updates of a single row stand: RenewLease, Retry and
\* RetryOwned, which makes a failed document "processing" here.
Fail(c) == \E d \in Docs : Begin(c, "fail", <<Document(d)>>)
RetryOwned(c) == \E d \in Docs : Begin(c, "retry", <<Document(d)>>)

\* ClaimNext: its sweep locks the exhausted documents in the order in which it
\* finds them, which nothing determines; its claim skips locked rows, so that
\* it never waits.
ClaimNext(c) ==
    \E exhausted \in (SUBSET {d \in Docs : status[d] = "processing"}) \ {{}} :
        \E order \in SetToSeqs(exhausted) :
            Begin(c, "sweep", [i \in DOMAIN order |-> Document(order[i])])

-----------------------------------------------------------------------------
(* Statements.                                                              *)

\* The row that a statement finds: chunks to delete only if there are any, but
\* always those that a completion inserts; a document only if it still is what
\* the WHERE clause asks for.
Found(kind, l) ==
    IF l[1] = "chunks" THEN kind = "complete" \/ chunks[l[2]]
    ELSE l[1] = "document" =>
            \/ kind = "delete" /\ status[l[2]] # "deleted"
            \/ kind = "retry" /\ status[l[2]] = "failed"
            \/ kind \in {"complete", "fail", "sweep"} /\ status[l[2]] = "processing"

Wanted(c) == Head(tx[c].plan)
Holder(l) == {c \in Connections : l \in tx[c].held}

\* Whom a transaction waits for.
Blockers(c) ==
    IF tx[c].plan # <<>> /\ Found(tx[c].kind, Wanted(c)) THEN Holder(Wanted(c)) ELSE {}

Lock(c) ==
    /\ tx[c].plan # <<>>
    /\ Found(tx[c].kind, Wanted(c))
    /\ Holder(Wanted(c)) = {}
    /\ tx' = [tx EXCEPT ![c].held = @ \union {Wanted(c)}, ![c].plan = Tail(@)]
    /\ UNCHANGED <<status, chunks>>

\* Mutant of GoesOn: a completion does not check RowsAffected, and goes on to the
\* chunks of a document that it has not found.
GoesOn_unchecked == {"sweep", "delete", "complete"}

\* Who goes on after a statement that finds no row.
GoesOn == {"sweep", "delete"}

\* Nothing to lock: no reservation has expired, there are no chunks to delete, or
\* the document is no longer what the statement asks for.
FindNothing(c) ==
    /\ tx[c].plan # <<>>
    /\ \/ Wanted(c)[1] = "reservations"
       \/ ~Found(tx[c].kind, Wanted(c)) /\ tx[c].kind \in GoesOn
    /\ tx' = [tx EXCEPT ![c].plan = Tail(@)]
    /\ UNCHANGED <<status, chunks>>

HeldDocs(c) == {d \in Docs : Document(d) \in tx[c].held}

\* The documents whose chunks a completion has replaced, or a delete removes.
Written(c) ==
    CASE tx[c].kind = "complete" -> {d \in Docs : Chunks(d) \in tx[c].held}
      [] tx[c].kind = "delete"   -> HeldDocs(c)
      [] OTHER                   -> {}

StatusAfter == [complete |-> "completed", delete |-> "deleted", fail |-> "failed",
                sweep |-> "failed", retry |-> "processing"]

\* The updates take effect, and the locks are released.
Commit(c) ==
    /\ tx[c] # Idle
    /\ tx[c].plan = <<>>
    /\ tx' = [tx EXCEPT ![c] = Idle]
    /\ status' = [d \in Docs |->
                    IF d \in HeldDocs(c) THEN StatusAfter[tx[c].kind] ELSE status[d]]
    /\ chunks' = [d \in Docs |->
                    IF d \in Written(c) THEN tx[c].kind = "complete" ELSE chunks[d]]

\* An error rolls back: errLeaseLost or no such record, where nothing was found;
\* a lost connection; or PostgreSQL has found a cycle and ends it here.
Rollback(c) ==
    /\ tx[c] # Idle
    /\ tx' = [tx EXCEPT ![c] = Idle]
    /\ UNCHANGED <<status, chunks>>

-----------------------------------------------------------------------------
Next ==
    \E c \in Connections :
        \/ QuotaTransaction(c) \/ RecoverExpiredReservations(c) \/ Delete(c)
        \/ Complete(c) \/ Fail(c) \/ RetryOwned(c) \/ ClaimNext(c)
        \/ Lock(c) \/ FindNothing(c) \/ Commit(c) \/ Rollback(c)

Spec == Init /\ [][Next]_vars

-----------------------------------------------------------------------------
(* Correctness.                                                             *)

Transaction ==
    [kind : {"none", "quota", "recover"} \union DOMAIN StatusAfter,
     held : SUBSET Locks, plan : Seq(Locks)]

\* Every variable keeps its type, no lock has two holders, and only completed
\* documents have chunks.
TypeOK ==
    /\ tx \in [Connections -> Transaction]
    /\ \A c, e \in Connections : c # e => tx[c].held \intersect tx[e].held = {}
    /\ status \in [Docs -> {"processing", "completed", "failed", "deleted"}]
    /\ \A d \in Docs : chunks[d] = (status[d] = "completed")

\* Transactions that wait for each other in a circle.
IsCycle(S) == S # {} /\ UNION {Blockers(c) : c \in S} = S

\* No request of a user and no recovery is ever caught in a deadlock: only
\* sweeps, which a worker repeats at its next poll, can wait for each other.
OnlySweepsDeadlock ==
    \A S \in SUBSET Connections :
        IsCycle(S) => \A c \in S : tx[c].kind = "sweep"
=============================================================================
