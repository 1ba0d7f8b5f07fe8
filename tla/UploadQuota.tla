---------------------------- MODULE UploadQuota ----------------------------
(***************************************************************************)
(* Uploading and deleting the documents of one owner: the handlers Upload  *)
(* and Delete (src/api/documents.go), the quota transactions they call     *)
(* (src/api/database.go), the stored files (src/api/storage.go) and the    *)
(* recovery and reconciliation of a starting instance (src/api/main.go).   *)
(*                                                                         *)
(* Owners share nothing but the processes that serve them: each has its    *)
(* own usage row, and every transaction below but one locks it first and   *)
(* holds it to the end, so it is one action.  The exception is the delete, *)
(* which reads the document before it locks (DeleteRead, DeleteRow).       *)
(* Several API instances may run, start and crash at the same time.        *)
(***************************************************************************)
EXTENDS Integers, FiniteSets

CONSTANTS
    Uploads,            \* requests to upload; each has a fresh document id
    Size,               \* the size of each file
    Deleters,           \* requests to delete, each of them repeatable
    NoUpload,           \* no document
    MaxOwnerDocuments,  \* maxOwnerDocuments
    MaxOwnerStorage,    \* maxOwnerStorage
    StorageMayFail,     \* whether deleting or listing files can fail
    CommitMayBeInDoubt  \* whether a commit can succeed and report an error

ASSUME UploadsAssumption ==
    IsFiniteSet(Uploads) /\ NoUpload \notin Uploads /\ Size \in [Uploads -> Nat]
ASSUME LimitsAssumption == MaxOwnerDocuments \in Nat /\ MaxOwnerStorage \in Nat
ASSUME FaultsAssumption == StorageMayFail \in BOOLEAN /\ CommitMayBeInDoubt \in BOOLEAN

VARIABLES
    \* the database
    document,    \* the row of each upload in the documents table
    reservation, \* its row in upload_reservations
    expired,     \* whether its reservation is past expires_at
    usage,       \* the owner's row of db_owner_usages
    \* the storage
    file,        \* the file of each upload
    old,         \* whether it is older than UPLOAD_ORPHAN_MIN_AGE
    \* the processes
    handler,     \* where the Upload handler of each upload is
    deleter,     \* where each Delete handler is, and its document
    startup      \* the starting instance that reconciles the storage

db == <<document, reservation, expired, usage>>
storage == <<file, old>>
vars == <<document, reservation, expired, usage, file, old, handler, deleter, startup>>

-----------------------------------------------------------------------------
NoUsage == [committedDocuments |-> 0, committedBytes |-> 0,
            reservedDocuments |-> 0, reservedBytes |-> 0]

IdleDeleter == [pc |-> "idle", doc |-> NoUpload]

\* startup.todo are the listed objects still to be checked, startup.victim
\* the one found to be unreferenced.
Running == [pc |-> "running", todo |-> {}, victim |-> NoUpload]

Init ==
    /\ document = [u \in Uploads |-> "none"]
    /\ reservation = [u \in Uploads |-> "none"]
    /\ expired = [u \in Uploads |-> FALSE]
    /\ usage = NoUsage
    /\ file = [u \in Uploads |-> "none"]
    /\ old = [u \in Uploads |-> FALSE]
    /\ handler = [u \in Uploads |-> "new"]
    /\ deleter = [x \in Deleters |-> IdleDeleter]
    /\ startup = Running

Goto(u, pc) == handler' = [handler EXCEPT ![u] = pc]

-----------------------------------------------------------------------------
(* The quota.                                                               *)

Present == {u \in Uploads : document[u] = "present"}
Reserved == {u \in Uploads : reservation[u] = "reserved"}
Expired == {u \in Reserved : expired[u]}

\* SUM(size), SUM(bytes): every byte of a file is one, whatever its number.
Bytes(S) == Cardinality(UNION {{u} \X (1 .. Size[u]) : u \in S})

\* recoverExpiredReservations, for this owner: expired reservations are
\* released and the usage row is computed afresh from what is left.
RecoveredReservation ==
    [u \in Uploads |-> IF u \in Expired THEN "released" ELSE reservation[u]]

\* Mutant of RecoveredUsage: expired reservations are still counted.
RecoveredUsage_countsExpired ==
    [committedDocuments |-> Cardinality(Present),
     committedBytes     |-> Bytes(Present),
     reservedDocuments  |-> Cardinality(Reserved),
     reservedBytes      |-> Bytes(Reserved)]

RecoveredUsage ==
    [committedDocuments |-> Cardinality(Present),
     committedBytes     |-> Bytes(Present),
     reservedDocuments  |-> Cardinality(Reserved \ Expired),
     reservedBytes      |-> Bytes(Reserved \ Expired)]

\* Mutants of Fits: reserved bytes, or reserved documents, do not count.
Fits_committedBytes(use, u) ==
    /\ use.committedBytes + Size[u] <= MaxOwnerStorage
    /\ use.committedDocuments + use.reservedDocuments + 1 <= MaxOwnerDocuments
Fits_committedDocuments(use, u) ==
    /\ use.committedBytes + use.reservedBytes + Size[u] <= MaxOwnerStorage
    /\ use.committedDocuments + 1 <= MaxOwnerDocuments

Fits(use, u) ==
    /\ use.committedBytes + use.reservedBytes + Size[u] <= MaxOwnerStorage
    /\ use.committedDocuments + use.reservedDocuments + 1 <= MaxOwnerDocuments

Reserve(use, u) ==
    [use EXCEPT !.reservedDocuments = @ + 1, !.reservedBytes = @ + Size[u]]
Commit(use, u) ==
    [use EXCEPT !.reservedDocuments = @ - 1, !.reservedBytes = @ - Size[u],
                !.committedDocuments = @ + 1, !.committedBytes = @ + Size[u]]

\* GREATEST(n - k, 0)
Less(n, k) == IF n > k THEN n - k ELSE 0

Release(use, u) ==
    [use EXCEPT !.reservedDocuments = Less(@, 1), !.reservedBytes = Less(@, Size[u])]
\* Mutant of Uncommit: a plain subtraction.
Uncommit_plain(use, u) ==
    [use EXCEPT !.committedDocuments = @ - 1, !.committedBytes = @ - Size[u]]
Uncommit(use, u) ==
    [use EXCEPT !.committedDocuments = Less(@, 1), !.committedBytes = Less(@, Size[u])]

-----------------------------------------------------------------------------
(* The Upload handler.                                                      *)

\* ReserveUpload recovers the owner's expired reservations and admits the
\* upload if it then fits.
ReserveUpload(u) ==
    /\ handler[u] = "new"
    /\ Fits(RecoveredUsage, u)
    /\ reservation' = [RecoveredReservation EXCEPT ![u] = "reserved"]
    /\ usage' = Reserve(RecoveredUsage, u)
    /\ Goto(u, "admitted")
    /\ UNCHANGED <<document, expired, storage, deleter, startup>>

\* errQuotaExceeded rolls back the recovery with the rest of the transaction.
RefuseUpload(u) ==
    /\ handler[u] = "new"
    /\ ~Fits(RecoveredUsage, u)
    /\ Goto(u, "refused")
    /\ UNCHANGED <<db, storage, deleter, startup>>

\* storage.Put writes a temporary file and renames it.
PutTemporary(u) ==
    /\ handler[u] = "admitted"
    /\ file' = [file EXCEPT ![u] = "temporary"]
    /\ Goto(u, "writing")
    /\ UNCHANGED <<db, old, deleter, startup>>

PutRename(u) ==
    /\ handler[u] = "writing"
    /\ file' = [file EXCEPT ![u] = "object"]
    /\ Goto(u, "stored")
    /\ UNCHANGED <<db, old, deleter, startup>>

\* A failed Put removes its temporary file; only the reservation is left.
PutFails(u) ==
    /\ handler[u] = "writing"
    /\ file' = [file EXCEPT ![u] = "none"]
    /\ Goto(u, "releasing")
    /\ UNCHANGED <<db, old, deleter, startup>>

\* Mutant of CommitTransaction: the state of the reservation is not checked.
CommitTransaction_unchecked(u) ==
    /\ handler[u] = "stored"
    /\ document' = [document EXCEPT ![u] = "present"]
    /\ reservation' = [reservation EXCEPT ![u] = "committed"]
    /\ usage' = Commit(usage, u)
    /\ UNCHANGED <<expired, storage, deleter, startup>>

\* The transaction of CreateOwnedAndCommitUpload, if the reservation is still
\* there: it need not be unexpired.
CommitTransaction(u) ==
    /\ handler[u] = "stored"
    /\ reservation[u] = "reserved"
    /\ document' = [document EXCEPT ![u] = "present"]
    /\ reservation' = [reservation EXCEPT ![u] = "committed"]
    /\ usage' = Commit(usage, u)
    /\ UNCHANGED <<expired, storage, deleter, startup>>

CreateOwnedAndCommitUpload(u) == CommitTransaction(u) /\ Goto(u, "accepted")

\* The transaction commits, but the handler is told of an error: its request
\* was cancelled or its connection lost while the commit was under way.
CommitInDoubt(u) ==
    /\ CommitMayBeInDoubt
    /\ CommitTransaction(u)
    /\ Goto(u, "discarding")

\* The reservation is gone or the transaction is rolled back.
CommitFails(u) ==
    /\ handler[u] = "stored"
    /\ Goto(u, "discarding")
    /\ UNCHANGED <<db, storage, deleter, startup>>

\* The best-effort deletion of the file after an error of the commit.
DiscardFile(u) ==
    /\ handler[u] = "discarding"
    /\ \/ file' = [file EXCEPT ![u] = "none"]
       \/ StorageMayFail /\ UNCHANGED file
    /\ Goto(u, "releasing")
    /\ UNCHANGED <<db, old, deleter, startup>>

\* Mutant of ReleaseUpload: what was released or committed is released again.
ReleaseUpload_unchecked(u) ==
    /\ handler[u] = "releasing"
    /\ reservation' = [reservation EXCEPT ![u] = "released"]
    /\ usage' = Release(usage, u)
    /\ Goto(u, "failed")
    /\ UNCHANGED <<document, expired, storage, deleter, startup>>

\* The deferred ReleaseUpload: nothing to do unless the reservation is still
\* reserved.
ReleaseUpload(u) ==
    /\ handler[u] = "releasing"
    /\ \/ /\ reservation[u] = "reserved"
          /\ reservation' = [reservation EXCEPT ![u] = "released"]
          /\ usage' = Release(usage, u)
       \/ /\ reservation[u] # "reserved"
          /\ UNCHANGED <<reservation, usage>>
    /\ Goto(u, "failed")
    /\ UNCHANGED <<document, expired, storage, deleter, startup>>

\* The instance that serves the request crashes, or an error of the database
\* keeps the handler from releasing.
UploadCrash(u) ==
    /\ handler[u] \in {"admitted", "writing", "stored", "discarding", "releasing"}
    /\ Goto(u, "crashed")
    /\ UNCHANGED <<db, storage, deleter, startup>>

-----------------------------------------------------------------------------
(* The Delete handler.                                                      *)

\* DeleteOwnedWithUsage reads the document, without a lock.
DeleteRead(x, u) ==
    /\ deleter[x].pc = "idle"
    /\ document[u] = "present"
    /\ deleter' = [deleter EXCEPT ![x] = [pc |-> "read", doc |-> u]]
    /\ UNCHANGED <<db, storage, handler, startup>>

\* It then locks the usage row, deletes the document, which another request
\* may have deleted since, and takes its size off the usage.
DeleteRow(x) ==
    /\ deleter[x].pc = "read"
    /\ document' = [document EXCEPT ![deleter[x].doc] = "deleted"]
    /\ usage' = Uncommit(usage, deleter[x].doc)
    /\ deleter' = [deleter EXCEPT ![x].pc = "deleted"]
    /\ UNCHANGED <<reservation, expired, storage, handler, startup>>

\* The file goes last.  If that fails the request reports it and leaves the
\* file to the next startup.
DeleteFile(x) ==
    /\ deleter[x].pc = "deleted"
    /\ \/ file' = [file EXCEPT ![deleter[x].doc] = "none"]
       \/ StorageMayFail /\ UNCHANGED file
    /\ deleter' = [deleter EXCEPT ![x] = IdleDeleter]
    /\ UNCHANGED <<db, old, handler, startup>>

DeleteCrash(x) ==
    /\ deleter[x].pc # "idle"
    /\ deleter' = [deleter EXCEPT ![x] = IdleDeleter]
    /\ UNCHANGED <<db, storage, handler, startup>>

-----------------------------------------------------------------------------
(* Recovery, reconciliation and the clock.                                  *)

Recover ==
    /\ reservation' = RecoveredReservation
    /\ usage' = RecoveredUsage
    /\ UNCHANGED <<document, expired, storage, handler, deleter>>

\* BeginAnswer recovers the owner's reservations before it admits an answer.
BeginAnswer == Recover /\ UNCHANGED startup

\* Mutant of OpenDocumentStore: an instance starts without the recovery.
OpenDocumentStore_noRecovery ==
    /\ startup.pc = "running"
    /\ startup' = [startup EXCEPT !.pc = "listing"]
    /\ UNCHANGED <<db, storage, handler, deleter>>

\* An instance starts: opening the store recovers expired reservations.
OpenDocumentStore ==
    /\ startup.pc = "running"
    /\ Recover
    /\ startup' = [startup EXCEPT !.pc = "listing"]

\* reconcileOrphanedUploads lists the files and skips recent ones and those
\* that are not named original.pdf, such as temporary files.
ListObjects ==
    /\ startup.pc = "listing"
    /\ startup' = [pc |-> "checking", victim |-> NoUpload,
                   todo |-> {u \in Uploads : file[u] = "object" /\ old[u]}]
    /\ UNCHANGED <<db, storage, handler, deleter>>

\* Mutant of Referenced: reservations do not keep a file.
Referenced_documentsOnly(u) == document[u] = "present"
Referenced(u) == document[u] = "present" \/ reservation[u] = "reserved"

\* UploadReferenceExists, one statement for both tables.
CheckReference(u) ==
    /\ startup.pc = "checking"
    /\ startup.victim = NoUpload
    /\ u \in startup.todo
    /\ startup' = [startup EXCEPT !.todo = @ \ {u},
                                  !.victim = IF Referenced(u) THEN NoUpload ELSE u]
    /\ UNCHANGED <<db, storage, handler, deleter>>

DeleteOrphan ==
    /\ startup.pc = "checking"
    /\ startup.victim # NoUpload
    /\ file' = [file EXCEPT ![startup.victim] = "none"]
    /\ startup' = [startup EXCEPT !.victim = NoUpload]
    /\ UNCHANGED <<db, old, handler, deleter>>

\* The instance goes on to serve: everything is checked, or reconciliation
\* gave up on an error, on its timeout or with a crash.
Serve ==
    /\ startup.pc = "checking" /\ startup.todo = {} /\ startup.victim = NoUpload
    /\ startup' = Running
    /\ UNCHANGED <<db, storage, handler, deleter>>

ReconcileFails ==
    /\ StorageMayFail
    /\ startup.pc # "running"
    /\ startup' = Running
    /\ UNCHANGED <<db, storage, handler, deleter>>

ReservationExpires(u) ==
    /\ reservation[u] = "reserved"
    /\ ~expired[u]
    /\ expired' = [expired EXCEPT ![u] = TRUE]
    /\ UNCHANGED <<document, reservation, usage, storage, handler, deleter, startup>>

FileAges(u) ==
    /\ file[u] # "none"
    /\ ~old[u]
    /\ old' = [old EXCEPT ![u] = TRUE]
    /\ UNCHANGED <<db, file, handler, deleter, startup>>

-----------------------------------------------------------------------------
UploadNext(u) ==
    \/ ReserveUpload(u) \/ RefuseUpload(u)
    \/ PutTemporary(u) \/ PutRename(u) \/ PutFails(u)
    \/ CreateOwnedAndCommitUpload(u) \/ CommitInDoubt(u) \/ CommitFails(u)
    \/ DiscardFile(u) \/ ReleaseUpload(u) \/ UploadCrash(u)

DeleteNext(x) ==
    \/ \E u \in Uploads : DeleteRead(x, u)
    \/ DeleteRow(x) \/ DeleteFile(x) \/ DeleteCrash(x)

ReconcileNext ==
    \/ OpenDocumentStore \/ ListObjects
    \/ \E u \in Uploads : CheckReference(u)
    \/ DeleteOrphan \/ Serve \/ ReconcileFails

ClockNext(u) == ReservationExpires(u) \/ FileAges(u)

Next ==
    \/ \E u \in Uploads : UploadNext(u) \/ ClockNext(u)
    \/ \E x \in Deleters : DeleteNext(x)
    \/ BeginAnswer
    \/ ReconcileNext

Spec == Init /\ [][Next]_vars

\* Instances are started again and again and complete their reconciliation,
\* handlers end, and the clock goes on.
Fairness ==
    /\ WF_vars(OpenDocumentStore)
    /\ WF_vars(ListObjects \/ (\E u \in Uploads : CheckReference(u)) \/ DeleteOrphan \/ Serve)
    /\ \A u \in Uploads :
          /\ WF_vars(/\ handler[u] # "new"
                     /\ UploadNext(u))
          /\ WF_vars(ReservationExpires(u))
          /\ WF_vars(FileAges(u))
    /\ \A x \in Deleters : WF_vars(DeleteRow(x) \/ DeleteFile(x) \/ DeleteCrash(x))

FairSpec == Spec /\ Fairness

-----------------------------------------------------------------------------
(* Correctness.                                                             *)

\* Every variable keeps its type; in particular no counter of the usage row
\* becomes negative.
TypeOK ==
    /\ document \in [Uploads -> {"none", "present", "deleted"}]
    /\ reservation \in [Uploads -> {"none", "reserved", "committed", "released"}]
    /\ expired \in [Uploads -> BOOLEAN]
    /\ usage \in [committedDocuments : Nat, committedBytes : Nat,
                  reservedDocuments : Nat, reservedBytes : Nat]
    /\ file \in [Uploads -> {"none", "temporary", "object"}]
    /\ old \in [Uploads -> BOOLEAN]
    /\ handler \in [Uploads -> {"new", "refused", "admitted", "writing", "stored",
                                "discarding", "releasing", "accepted", "failed",
                                "crashed"}]
    /\ deleter \in [Deleters -> [pc : {"idle", "read", "deleted"},
                                 doc : Uploads \cup {NoUpload}]]
    /\ startup \in [pc : {"running", "listing", "checking"},
                    todo : SUBSET Uploads, victim : Uploads \cup {NoUpload}]

\* What the owner holds: committed documents and live reservations.
Held == Present \cup Reserved

\* However uploads, deletes, recoveries and crashes interleave, an owner
\* never holds more documents than the quota allows.
DocumentQuota == Cardinality(Held) <= MaxOwnerDocuments

\* Nor more bytes.
StorageQuota == Bytes(Held) <= MaxOwnerStorage

\* The usage row never counts something that is not there: reservations are
\* counted exactly and committed documents at most once each, so that no
\* leaked unit is held against the owner.
NeverOvercounts ==
    /\ usage.reservedDocuments = Cardinality(Reserved)
    /\ usage.reservedBytes = Bytes(Reserved)
    /\ usage.committedDocuments <= Cardinality(Present)
    /\ usage.committedBytes <= Bytes(Present)

\* What may stand against an upload: a document that is listed, and an upload
\* that is under way or was cut short while its reservation has not expired.
HoldsSpace(u) ==
    \/ document[u] = "present"
    \/ /\ handler[u] \in {"admitted", "writing", "stored", "discarding", "releasing",
                         "crashed"}
       /\ ~expired[u]

\* An upload is refused only if it does not fit beside these: not because of an
\* upload that failed, a document that was deleted, or, once it has expired, the
\* reservation that a crash left behind (README.md: expired reservations do not
\* block an account).
RefusedOnlyWhenFull ==
    [][\A u \in Uploads :
          handler[u] = "new" /\ handler'[u] = "refused" =>
             LET holders == {v \in Uploads : HoldsSpace(v)}
             IN  \/ Cardinality(holders) + 1 > MaxOwnerDocuments
                 \/ Bytes(holders) + Size[u] > MaxOwnerStorage]_vars

\* A document that is listed can be read: neither a reconciliation that races
\* its upload, nor the clean-up of a failed request, nor a delete that fails
\* halfway removes the file of a row that stays.
EveryDocumentHasItsFile ==
    \A u \in Uploads : document[u] = "present" => file[u] = "object"

\* The inductive invariant behind it, if no commit is in doubt: a document
\* belongs to an accepted request; an upload that can still be committed has
\* its file; what a reconciliation or a delete is about to remove is no
\* longer referenced, and cannot be again.
FileTypes ==
    /\ document \in [Uploads -> {"none", "present", "deleted"}]
    /\ reservation \in [Uploads -> {"none", "reserved", "committed", "released"}]
    /\ file \in [Uploads -> {"none", "temporary", "object"}]
    /\ DOMAIN handler = Uploads /\ DOMAIN deleter = Deleters
    /\ \A x \in Deleters : deleter[x] \in [pc : {"idle", "read", "deleted"},
                                           doc : Uploads \cup {NoUpload}]
    /\ startup \in [pc : {"running", "listing", "checking"},
                    todo : SUBSET Uploads, victim : Uploads \cup {NoUpload}]

UploadInv(u) ==
    /\ document[u] # "none" => handler[u] = "accepted"
    /\ document[u] = "present" => file[u] = "object"
    /\ handler[u] = "stored" /\ reservation[u] = "reserved" => file[u] = "object"

DeleterInv(x) ==
    /\ deleter[x].pc # "idle" => deleter[x].doc \in Uploads
    /\ deleter[x].pc = "read" => document[deleter[x].doc] # "none"
    /\ deleter[x].pc = "deleted" => document[deleter[x].doc] = "deleted"

StartupInv ==
    /\ \A u \in Uploads : handler[u] = "new" => file[u] = "none"
    /\ startup.todo \subseteq {u \in Uploads : handler[u] # "new"}
    /\ startup.victim # NoUpload =>
          /\ startup.victim \in Uploads
          /\ handler[startup.victim] # "new"
          /\ ~Referenced(startup.victim)

FileInv ==
    /\ FileTypes
    /\ \A u \in Uploads : UploadInv(u)
    /\ \A x \in Deleters : DeleterInv(x)
    /\ StartupInv

\* No document refers to the file of u, and no request still will.
Orphan(u) ==
    /\ handler[u] \in {"accepted", "failed", "crashed"}
    /\ document[u] # "present"
    /\ \A x \in Deleters : deleter[x].doc # u

\* A stored object that a crash or a failed clean-up has left behind is
\* removed in the end, even if a reservation outlives its request, as long
\* as instances keep being started.
OrphanObjectsAreRemoved ==
    \A u \in Uploads : Orphan(u) /\ file[u] = "object" ~> file[u] = "none"

\* So is every other file of an upload (README.md: startup reconciliation
\* removes old unreferenced objects).
OrphanFilesAreRemoved ==
    \A u \in Uploads : Orphan(u) /\ file[u] # "none" ~> file[u] = "none"

-----------------------------------------------------------------------------
(* The usage row, the reservations and the documents implement a quota.     *)

Claim(u) ==
    CASE document[u] = "present"                         -> "kept"
      [] document[u] = "deleted"                         -> "over"
      [] document[u] = "none" /\ reservation[u] = "reserved" ->
            IF expired[u] THEN "lapsed" ELSE "held"
      [] document[u] = "none" /\ reservation[u] \in {"committed", "released"} -> "over"
      [] OTHER -> IF handler[u] = "refused" THEN "refused" ELSE "none"

Pool == INSTANCE Quota
    WITH Requests <- Uploads,
         claim <- [u \in Uploads |-> Claim(u)],
         Allowed <- {S \in SUBSET Uploads : /\ Cardinality(S) <= MaxOwnerDocuments
                                            /\ Bytes(S) <= MaxOwnerStorage}

\* Every step is a step of the quota or leaves it alone: an upload is admitted
\* exactly when it fits beside the documents and the unexpired reservations,
\* may commit late as long as nobody was admitted since, and once its
\* reservation was taken away it neither commits nor is released again.
ImplementsQuota == Pool!Spec
=============================================================================
