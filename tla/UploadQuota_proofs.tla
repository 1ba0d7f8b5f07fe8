------------------------- MODULE UploadQuota_proofs -------------------------
(***************************************************************************)
(* The quotas of documents and of bytes hold for any number of uploads,    *)
(* deletes and starting instances, for files of any size and any limit.    *)
(* The argument never uses the counters: an admission recomputes them, so  *)
(* that it decides on what the owner really holds, and nothing else adds   *)
(* to that.  The counters are a theorem of their own, and so is that an    *)
(* upload is refused only where the quota is used up.                      *)
(***************************************************************************)
EXTENDS UploadQuota, FiniteSetTheorems, TLAPS

\* The tables that the quota counts keep their domains.
Tables ==
    /\ document \in [Uploads -> {"none", "present", "deleted"}]
    /\ reservation \in [Uploads -> {"none", "reserved", "committed", "released"}]

QInv == Tables /\ DocumentQuota /\ StorageQuota

\* Every set of uploads is finite, so that its size is a number.
LEMMA FiniteUploads ==
    ASSUME NEW S \in SUBSET Uploads
    PROVE  IsFiniteSet(S) /\ Cardinality(S) \in Nat
<1>1. IsFiniteSet(S)
  BY UploadsAssumption, FS_Subset
<1> QED  BY <1>1, FS_CardinalityType

-----------------------------------------------------------------------------
(* Bytes.                                                                   *)

Block(u) == {u} \X (1 .. Size[u])
Blocks(S) == UNION {Block(u) : u \in S}

LEMMA OneBlock ==
    ASSUME NEW u \in Uploads
    PROVE  /\ IsFiniteSet(Block(u)) /\ Cardinality(Block(u)) = Size[u]
           /\ Blocks({u}) = Block(u)
<1>1. Size[u] \in Nat
  BY UploadsAssumption
<1>2. IsFiniteSet(1 .. Size[u]) /\ Cardinality(1 .. Size[u]) = Size[u]
  <2>1. /\ IsFiniteSet(1 .. Size[u])
        /\ Cardinality(1 .. Size[u]) = IF 1 > Size[u] THEN 0 ELSE Size[u] - 1 + 1
    BY <1>1, FS_Interval
  <2> QED  BY <1>1, <2>1
<1>3. IsFiniteSet({u}) /\ Cardinality({u}) = 1
  BY FS_Singleton
<1>4. IsFiniteSet(Block(u)) /\ Cardinality(Block(u)) = 1 * Size[u]
  <2>1. PICK S : S = 1 .. Size[u]
    OBVIOUS
  <2>2. IsFiniteSet(S) /\ Cardinality(S) = Size[u]
    BY <1>2, <2>1
  <2>3. IsFiniteSet({u} \X S) /\ Cardinality({u} \X S) = Cardinality({u}) * Cardinality(S)
    BY <1>3, <2>2, FS_Product
  <2> QED  BY <1>3, <2>1, <2>2, <2>3 DEF Block
<1>5. Blocks({u}) = Block(u)
  BY DEF Blocks
<1> QED  BY <1>1, <1>4, <1>5

LEMMA FiniteBlocks ==
    ASSUME NEW S \in SUBSET Uploads
    PROVE  IsFiniteSet(Blocks(S)) /\ Bytes(S) = Cardinality(Blocks(S)) /\ Bytes(S) \in Nat
<1>1. PICK T : T = {Block(u) : u \in S}
  OBVIOUS
<1>2. PICK f : f = [u \in S |-> Block(u)]
  OBVIOUS
<1>3. f \in Surjection(S, T)
  BY <1>1, <1>2 DEF Surjection
<1>4. IsFiniteSet(T)
  BY <1>3, FiniteUploads, FS_Surjection
<1>5. \A B \in T : IsFiniteSet(B)
  BY <1>1, OneBlock
<1>6. IsFiniteSet(Blocks(S))
  BY <1>1, <1>4, <1>5, FS_UNION DEF Blocks
<1>7. Bytes(S) = Cardinality(Blocks(S))
  BY DEF Bytes, Blocks, Block
<1> QED  BY <1>6, <1>7, FS_CardinalityType

LEMMA NoBytes == Bytes({}) = 0
<1>1. Blocks({}) = {}
  BY DEF Blocks
<1> QED  BY <1>1, FiniteBlocks, FS_EmptySet

\* Bytes of disjoint sets add up.
LEMMA BytesAddUp ==
    ASSUME NEW S \in SUBSET Uploads, NEW T \in SUBSET Uploads, S \cap T = {}
    PROVE  Bytes(S \cup T) = Bytes(S) + Bytes(T)
<1>1. Blocks(S \cup T) = Blocks(S) \cup Blocks(T)
  BY DEF Blocks
<1>2. Blocks(S) \cap Blocks(T) = {}
  BY DEF Blocks, Block
<1>3. S \cup T \in SUBSET Uploads
  OBVIOUS
<1>4. Cardinality(Blocks(S) \cup Blocks(T)) =
         Cardinality(Blocks(S)) + Cardinality(Blocks(T)) - Cardinality(Blocks(S) \cap Blocks(T))
  BY FiniteBlocks, FS_Union
<1>5. Cardinality(Blocks(S) \cap Blocks(T)) = 0
  BY <1>2, FS_EmptySet
<1>6. /\ Bytes(S \cup T) = Cardinality(Blocks(S \cup T))
      /\ Bytes(S) = Cardinality(Blocks(S)) /\ Bytes(S) \in Nat
      /\ Bytes(T) = Cardinality(Blocks(T)) /\ Bytes(T) \in Nat
  BY <1>3, FiniteBlocks
<1>7. Bytes(S \cup T) = Bytes(S) + Bytes(T) - 0
  BY <1>1, <1>4, <1>5, <1>6
<1> QED  BY <1>6, <1>7

LEMMA BytesOfOne ==
    ASSUME NEW S \in SUBSET Uploads, NEW u \in Uploads
    PROVE  /\ u \notin S => Bytes(S \cup {u}) = Bytes(S) + Size[u]
           /\ u \in S => Bytes(S \ {u}) = Bytes(S) - Size[u] /\ Size[u] <= Bytes(S)
<1>1. {u} \in SUBSET Uploads /\ S \ {u} \in SUBSET Uploads /\ Size[u] \in Nat
  BY UploadsAssumption
<1>2. Bytes({u}) = Size[u]
  BY <1>1, OneBlock, FiniteBlocks
<1>3. u \notin S => Bytes(S \cup {u}) = Bytes(S) + Size[u]
  BY <1>1, <1>2, BytesAddUp
<1>4. ASSUME u \in S
      PROVE  Bytes(S \ {u}) = Bytes(S) - Size[u] /\ Size[u] <= Bytes(S)
  <2>1. S = (S \ {u}) \cup {u} /\ (S \ {u}) \cap {u} = {}
    BY <1>4
  <2>2. Bytes(S) = Bytes(S \ {u}) + Size[u]
    BY <1>1, <1>2, <2>1, BytesAddUp
  <2>3. Bytes(S) \in Nat /\ Bytes(S \ {u}) \in Nat
    BY <1>1, FiniteBlocks
  <2> QED  BY <1>1, <2>2, <2>3
<1> QED  BY <1>3, <1>4

LEMMA FewerBytes ==
    ASSUME NEW T \in SUBSET Uploads, NEW S \in SUBSET T
    PROVE  Bytes(S) <= Bytes(T)
<1>1. Blocks(S) \in SUBSET Blocks(T) /\ S \in SUBSET Uploads
  BY DEF Blocks
<1> QED  BY <1>1, FiniteBlocks, FS_Subset

-----------------------------------------------------------------------------
(* The quotas.                                                              *)

\* An owner who holds no more than before stays within the quota.
LEMMA HoldsNoMore ==
    ASSUME DocumentQuota, StorageQuota, Held' \subseteq Held
    PROVE  DocumentQuota' /\ StorageQuota'
<1>1. Held \in SUBSET Uploads /\ Held' \in SUBSET Uploads
  BY DEF Held, Present, Reserved
<1>2. /\ IsFiniteSet(Held) /\ Cardinality(Held) \in Nat /\ Cardinality(Held') \in Nat
      /\ Bytes(Held) \in Nat /\ Bytes(Held') \in Nat
  BY <1>1, FiniteUploads, FiniteBlocks
<1>3. Cardinality(Held') <= Cardinality(Held)
  BY <1>2, FS_Subset
<1>4. Bytes(Held') <= Bytes(Held)
  BY <1>1, FewerBytes
<1>5. StorageQuota' <=> Bytes(Held') <= MaxOwnerStorage
  BY DEF StorageQuota, Bytes
<1>6. DocumentQuota'
  BY <1>2, <1>3, LimitsAssumption DEF DocumentQuota
<1>7. StorageQuota'
  BY <1>2, <1>4, <1>5, LimitsAssumption DEF StorageQuota
<1> QED  BY <1>6, <1>7

\* Recovery keeps what is committed and what is reserved and unexpired.
LEMMA RecoveryOnlyReleases ==
    ASSUME Tables
    PROVE  /\ RecoveredReservation \in
                 [Uploads -> {"none", "reserved", "committed", "released"}]
           /\ {u \in Uploads : RecoveredReservation[u] = "reserved"} = Reserved \ Expired
BY DEF Tables, RecoveredReservation, Expired, Reserved

\* The sizes of what an admission leaves: the documents, what is reserved and
\* live, and the upload itself.
LEMMA SizesOfUnion ==
    ASSUME NEW S \in SUBSET Uploads, NEW T \in SUBSET Uploads, NEW u \in Uploads,
           NEW H, H \subseteq (S \cup T) \cup {u}
    PROVE  /\ Cardinality(H) <= Cardinality(S) + Cardinality(T) + 1
           /\ Bytes(H) <= Bytes(S) + Bytes(T) + Size[u]
<1>1. PICK R : R = T \ S
  OBVIOUS
<1>2. PICK V : V = (S \cup T) \cup {u}
  OBVIOUS
<1>3. /\ R \in SUBSET T /\ R \in SUBSET Uploads /\ S \cap R = {} /\ S \cup R = S \cup T
      /\ S \cup T \in SUBSET Uploads /\ V \in SUBSET Uploads /\ H \in SUBSET V
      /\ H \in SUBSET Uploads /\ S \cap T \in SUBSET Uploads
  BY <1>1, <1>2
<1>4. /\ IsFiniteSet(S) /\ IsFiniteSet(T) /\ IsFiniteSet(S \cup T) /\ IsFiniteSet(V)
      /\ Cardinality(S) \in Nat /\ Cardinality(T) \in Nat /\ Cardinality(S \cup T) \in Nat
      /\ Cardinality(S \cap T) \in Nat /\ Cardinality(V) \in Nat /\ Cardinality(H) \in Nat
  BY <1>3, FiniteUploads
<1>5. Cardinality(H) <= Cardinality(S) + Cardinality(T) + 1
  <2>1. Cardinality(S \cup T) = Cardinality(S) + Cardinality(T) - Cardinality(S \cap T)
    BY <1>4, FS_Union
  <2>2. Cardinality(V) <= Cardinality(S \cup T) + 1
    <3>1. \/ Cardinality((S \cup T) \cup {u}) = Cardinality(S \cup T)
          \/ Cardinality((S \cup T) \cup {u}) = Cardinality(S \cup T) + 1
      BY <1>4, FS_AddElement
    <3> QED  BY <1>2, <1>4, <3>1
  <2>3. Cardinality(H) <= Cardinality(V)
    BY <1>3, <1>4, FS_Subset
  <2> QED  BY <1>4, <2>1, <2>2, <2>3
<1>6. /\ Bytes(S) \in Nat /\ Bytes(T) \in Nat /\ Bytes(R) \in Nat /\ Bytes(V) \in Nat
      /\ Bytes(H) \in Nat /\ Bytes(S \cup T) \in Nat /\ Size[u] \in Nat
  BY <1>3, FiniteBlocks, UploadsAssumption
<1>7. Bytes(H) <= Bytes(S) + Bytes(T) + Size[u]
  <2>1. Bytes(S \cup T) = Bytes(S) + Bytes(R)
    BY <1>3, BytesAddUp
  <2>2. Bytes(R) <= Bytes(T)
    BY <1>3, FewerBytes
  <2>3. Bytes(V) <= Bytes(S \cup T) + Size[u]
    <3>1. CASE u \in S \cup T
      <4>1. V = S \cup T
        BY <1>2, <3>1
      <4> QED  BY <1>6, <4>1
    <3>2. CASE u \notin S \cup T
      <4>1. Bytes(V) = Bytes(S \cup T) + Size[u]
        BY <1>2, <1>3, <3>2, BytesOfOne
      <4> QED  BY <1>6, <4>1
    <3> QED  BY <3>1, <3>2
  <2>4. Bytes(H) <= Bytes(V)
    BY <1>3, FewerBytes
  <2> QED  BY <1>6, <2>1, <2>2, <2>3, <2>4
<1> QED  BY <1>5, <1>7

\* An admitted upload fits beside everything that the recovery has left.
LEMMA AdmissionFits ==
    ASSUME Tables, NEW u \in Uploads, ReserveUpload(u)
    PROVE  Tables' /\ DocumentQuota' /\ StorageQuota'
<1>1. PICK live : live = Reserved \ Expired
  OBVIOUS
<1>2. /\ Tables'
      /\ Held' \subseteq (Present \cup live) \cup {u}
  BY <1>1, RecoveryOnlyReleases DEF ReserveUpload, Tables, Held, Present, Reserved
<1>3. Present \in SUBSET Uploads /\ live \in SUBSET Uploads /\ Held' \in SUBSET Uploads
  BY <1>1 DEF Present, Reserved, Held
<1>4. /\ Cardinality(Present) + Cardinality(live) + 1 <= MaxOwnerDocuments
      /\ Bytes(Present) + Bytes(live) + Size[u] <= MaxOwnerStorage
  BY <1>1 DEF ReserveUpload, Fits, RecoveredUsage
<1>5. /\ Cardinality(Held') <= Cardinality(Present) + Cardinality(live) + 1
      /\ Bytes(Held') <= Bytes(Present) + Bytes(live) + Size[u]
  BY <1>2, <1>3, SizesOfUnion
<1>6. /\ Cardinality(Present) \in Nat /\ Cardinality(live) \in Nat /\ Cardinality(Held') \in Nat
      /\ Bytes(Present) \in Nat /\ Bytes(live) \in Nat /\ Bytes(Held') \in Nat
      /\ Size[u] \in Nat
  BY <1>3, FiniteUploads, FiniteBlocks, UploadsAssumption
<1>7. DocumentQuota'
  BY <1>4, <1>5, <1>6, LimitsAssumption DEF DocumentQuota
<1>8. Bytes(Held') <= MaxOwnerStorage
  BY <1>4, <1>5, <1>6, LimitsAssumption
<1>9. StorageQuota'
  BY <1>8 DEF StorageQuota, Bytes
<1> QED  BY <1>2, <1>7, <1>9

\* A commit turns what was reserved into a document.
LEMMA CommitHoldsTheSame ==
    ASSUME Tables, NEW u \in Uploads, CommitTransaction(u)
    PROVE  Tables' /\ Held' \subseteq Held
BY DEF CommitTransaction, Tables, Held, Present, Reserved

\* Every step of the module keeps the quota.
LEMMA NextKeepsQuota == QInv /\ [Next]_vars => QInv'
<1> SUFFICES ASSUME QInv, [Next]_vars PROVE QInv'
  OBVIOUS
<1> USE DEF QInv
<1>1. ASSUME UNCHANGED <<document, reservation>> PROVE QInv'
  <2>1. Tables' /\ Held' \subseteq Held
    BY <1>1 DEF Tables, Held, Present, Reserved
  <2> QED  BY <2>1, HoldsNoMore
<1>2. ASSUME NEW u \in Uploads, ReserveUpload(u) PROVE QInv'
  BY <1>2, AdmissionFits
<1>3. ASSUME NEW u \in Uploads, CreateOwnedAndCommitUpload(u) \/ CommitInDoubt(u)
      PROVE  QInv'
  BY <1>3, CommitHoldsTheSame, HoldsNoMore DEF CreateOwnedAndCommitUpload, CommitInDoubt
<1>4. ASSUME NEW u \in Uploads, ReleaseUpload(u) PROVE QInv'
  <2>1. Tables' /\ Held' \subseteq Held
    BY <1>4 DEF ReleaseUpload, Tables, Held, Present, Reserved
  <2> QED  BY <2>1, HoldsNoMore
<1>5. ASSUME NEW u \in Uploads,
             \/ RefuseUpload(u) \/ PutTemporary(u) \/ PutRename(u) \/ PutFails(u)
             \/ CommitFails(u) \/ DiscardFile(u) \/ UploadCrash(u) \/ ClockNext(u)
      PROVE  QInv'
  BY <1>1, <1>5
     DEF RefuseUpload, PutTemporary, PutRename, PutFails, CommitFails, DiscardFile,
         UploadCrash, ClockNext, ReservationExpires, FileAges, db
<1>6. ASSUME NEW x \in Deleters, DeleteRow(x) PROVE QInv'
  <2>1. Tables' /\ Held' \subseteq Held
    BY <1>6 DEF DeleteRow, Tables, Held, Present, Reserved
  <2> QED  BY <2>1, HoldsNoMore
<1>7. ASSUME NEW x \in Deleters,
             (\E u \in Uploads : DeleteRead(x, u)) \/ DeleteFile(x) \/ DeleteCrash(x)
      PROVE  QInv'
  BY <1>1, <1>7 DEF DeleteRead, DeleteFile, DeleteCrash, db
<1>8. ASSUME Recover PROVE QInv'
  <2>1. Tables' /\ Held' \subseteq Held
    BY <1>8, RecoveryOnlyReleases DEF Recover, Tables, Held, Present, Reserved
  <2> QED  BY <2>1, HoldsNoMore
<1>9. CASE BeginAnswer \/ OpenDocumentStore
  BY <1>8, <1>9 DEF BeginAnswer, OpenDocumentStore
<1>10. CASE \/ ListObjects \/ (\E u \in Uploads : CheckReference(u))
            \/ DeleteOrphan \/ Serve \/ ReconcileFails
  BY <1>1, <1>10 DEF ListObjects, CheckReference, DeleteOrphan, Serve, ReconcileFails, db
<1>11. CASE UNCHANGED vars
  BY <1>1, <1>11 DEF vars
<1> QED
  BY <1>2, <1>3, <1>4, <1>5, <1>6, <1>7, <1>9, <1>10, <1>11
     DEF Next, UploadNext, DeleteNext, ReconcileNext

\* Where the owner holds nothing, the quota is respected.
LEMMA InitQuota == Init => QInv
<1> SUFFICES ASSUME Init PROVE QInv
  OBVIOUS
<1>1. Tables /\ Held = {}
  BY DEF Init, Tables, Held, Present, Reserved
<1> QED  BY <1>1, FS_EmptySet, NoBytes, LimitsAssumption DEF QInv, DocumentQuota, StorageQuota

\* However uploads, deletes, recoveries, reconciliations and crashes of any
\* number of instances interleave, the quota of documents is respected.
THEOREM QuotaRespected == Spec => []DocumentQuota
<1>1. QInv => DocumentQuota
  BY DEF QInv
<1> QED  BY <1>1, InitQuota, NextKeepsQuota, PTL DEF Spec

\* So is the quota of bytes, for files of any sizes.
THEOREM StorageRespected == Spec => []StorageQuota
<1>1. QInv => StorageQuota
  BY DEF QInv
<1> QED  BY <1>1, InitQuota, NextKeepsQuota, PTL DEF Spec

-----------------------------------------------------------------------------
(* Files.                                                                   *)

\* The handler of an upload, up to its commit.
LEMMA UploadKeepsFiles ==
    ASSUME FileInv, CommitMayBeInDoubt = FALSE, NEW u \in Uploads,
           UploadNext(u) \/ ClockNext(u)
    PROVE  FileInv'
<1> USE DEF FileInv, FileTypes, UploadInv, DeleterInv, StartupInv, Referenced,
            Goto, db, storage
<1>1. CASE ReserveUpload(u)
  <2>1. /\ reservation' \in [Uploads -> {"none", "reserved", "committed", "released"}]
        /\ \A v \in Uploads : v # u => reservation'[v] \in {reservation[v], "released"}
        /\ handler' = [handler EXCEPT ![u] = "admitted"] /\ handler[u] = "new"
        /\ UNCHANGED <<document, file, deleter, startup>>
    BY <1>1, RecoveryOnlyReleases DEF ReserveUpload, RecoveredReservation
  <2> QED  BY <2>1
<1>2. CASE RefuseUpload(u)
  BY <1>2 DEF RefuseUpload
<1>3. CASE PutTemporary(u)
  BY <1>3 DEF PutTemporary
<1>4. CASE PutRename(u)
  BY <1>4 DEF PutRename
<1>5. CASE PutFails(u)
  BY <1>5 DEF PutFails
<1>6. CASE CreateOwnedAndCommitUpload(u)
  BY <1>6 DEF CreateOwnedAndCommitUpload, CommitTransaction
<1>7. CASE CommitInDoubt(u)
  BY <1>7 DEF CommitInDoubt
<1>8. CASE CommitFails(u)
  BY <1>8 DEF CommitFails
<1>9. CASE DiscardFile(u)
  BY <1>9 DEF DiscardFile
<1>10. CASE ReleaseUpload(u)
  BY <1>10 DEF ReleaseUpload
<1>11. CASE UploadCrash(u)
  BY <1>11 DEF UploadCrash
<1>12. CASE ClockNext(u)
  BY <1>12 DEF ClockNext, ReservationExpires, FileAges
<1> QED
  BY <1>1, <1>2, <1>3, <1>4, <1>5, <1>6, <1>7, <1>8, <1>9, <1>10, <1>11, <1>12
     DEF UploadNext

\* A delete: the row goes before the file, and never comes back.
LEMMA DeleteKeepsFiles ==
    ASSUME FileInv, NEW x \in Deleters, DeleteNext(x)
    PROVE  FileInv'
<1> USE DEF FileInv, FileTypes, UploadInv, DeleterInv, StartupInv, Referenced,
            IdleDeleter, db, storage
<1>1. ASSUME NEW u \in Uploads, DeleteRead(x, u) PROVE FileInv'
  BY <1>1 DEF DeleteRead
<1>2. CASE DeleteRow(x)
  BY <1>2 DEF DeleteRow
<1>3. CASE DeleteFile(x)
  BY <1>3 DEF DeleteFile
<1>4. CASE DeleteCrash(x)
  BY <1>4 DEF DeleteCrash
<1> QED  BY <1>1, <1>2, <1>3, <1>4 DEF DeleteNext

\* Recovery releases reservations: what is unreferenced stays so.
LEMMA RecoveryKeepsFiles ==
    ASSUME FileInv, BeginAnswer \/ OpenDocumentStore
    PROVE  FileInv'
<1>1. /\ reservation' \in [Uploads -> {"none", "reserved", "committed", "released"}]
      /\ \A v \in Uploads : reservation'[v] \in {reservation[v], "released"}
      /\ UNCHANGED <<document, file, handler, deleter>>
  BY RecoveryOnlyReleases
     DEF BeginAnswer, OpenDocumentStore, Recover, RecoveredReservation, FileInv,
         FileTypes, Tables, storage
<1>2. /\ startup'.todo = startup.todo
      /\ startup'.victim = startup.victim
      /\ startup' \in [pc : {"running", "listing", "checking"},
                      todo : SUBSET Uploads, victim : Uploads \cup {NoUpload}]
  BY DEF BeginAnswer, OpenDocumentStore, FileInv, FileTypes
<1> QED
  BY <1>1, <1>2 DEF FileInv, FileTypes, UploadInv, DeleterInv, StartupInv, Referenced

\* The rest of the reconciliation: an object is removed only after it was
\* found to be unreferenced.
LEMMA ReconciliationKeepsFiles ==
    ASSUME FileInv, ReconcileNext
    PROVE  FileInv'
<1> USE DEF FileInv, FileTypes, UploadInv, DeleterInv, StartupInv, Referenced,
            Running, db, storage
<1>1. CASE OpenDocumentStore
  BY <1>1, RecoveryKeepsFiles
<1>2. CASE ListObjects
  BY <1>2 DEF ListObjects
<1>3. ASSUME NEW u \in Uploads, CheckReference(u) PROVE FileInv'
  BY <1>3 DEF CheckReference
<1>4. CASE DeleteOrphan
  BY <1>4 DEF DeleteOrphan
<1>5. CASE Serve
  BY <1>5 DEF Serve
<1>6. CASE ReconcileFails
  BY <1>6 DEF ReconcileFails
<1> QED  BY <1>1, <1>2, <1>3, <1>4, <1>5, <1>6 DEF ReconcileNext

\* If no commit is in doubt, no listed document ever loses its file, however
\* uploads, deletes, crashes and reconciling instances interleave.  The run
\* that lets a commit be in doubt shows that the assumption is needed.
THEOREM FilesKept ==
    ASSUME CommitMayBeInDoubt = FALSE
    PROVE  Spec => []EveryDocumentHasItsFile
<1>1. Init => FileInv
  BY UploadsAssumption
     DEF Init, FileInv, FileTypes, UploadInv, DeleterInv, StartupInv, Running, IdleDeleter
<1>2. FileInv /\ [Next]_vars => FileInv'
  <2>1. ASSUME FileInv, UNCHANGED vars PROVE FileInv'
    BY <2>1 DEF FileInv, FileTypes, UploadInv, DeleterInv, StartupInv, Referenced, vars
  <2> QED
    BY <2>1, UploadKeepsFiles, DeleteKeepsFiles, RecoveryKeepsFiles,
       ReconciliationKeepsFiles DEF Next
<1>3. FileInv => EveryDocumentHasItsFile
  BY DEF FileInv, UploadInv, EveryDocumentHasItsFile
<1> QED  BY <1>1, <1>2, <1>3, PTL DEF Spec

-----------------------------------------------------------------------------
(* The counters.                                                            *)

\* What the tables and the handler of an upload have to do with each other.
RowInv(u) ==
    /\ handler[u] \in {"new", "refused"} => reservation[u] = "none"
    /\ document[u] # "none" =>
          /\ reservation[u] = "committed"
          /\ handler[u] \in {"accepted", "discarding", "releasing", "failed", "crashed"}
    /\ reservation[u] = "reserved" =>
          handler[u] \in {"admitted", "writing", "stored", "discarding", "releasing",
                          "crashed"}

\* A document that a delete has read was committed, and no row is forgotten.
ReadInv(x) ==
    deleter[x].pc # "idle" =>
       /\ deleter[x].doc \in Uploads
       /\ document[deleter[x].doc] # "none"

UsageRow == [committedDocuments : Nat, committedBytes : Nat,
             reservedDocuments : Nat, reservedBytes : Nat]

\* The usage row use is right for the documents P and the reservations R.
Counts(use, P, R) ==
    /\ use \in UsageRow
    /\ use.reservedDocuments = Cardinality(R)
    /\ use.reservedBytes = Bytes(R)
    /\ use.committedDocuments <= Cardinality(P)
    /\ use.committedBytes <= Bytes(P)

CInv ==
    /\ TypeOK
    /\ Counts(usage, Present, Reserved)
    /\ \A u \in Uploads : RowInv(u)
    /\ \A x \in Deleters : ReadInv(x)

\* GREATEST(n - k, 0).
LEMMA LessBounds ==
    ASSUME NEW n \in Nat, NEW k \in Nat, NEW m \in Nat, n <= m
    PROVE  /\ Less(n, k) \in Nat /\ Less(n, k) <= m
           /\ k <= m => Less(n, k) <= m - k
           /\ k <= n => Less(n, k) = n - k
BY DEF Less

\* Sizes are numbers, of sets with one upload more or less as well.
LEMMA Sizes ==
    ASSUME NEW S \in SUBSET Uploads, NEW u \in Uploads
    PROVE  /\ Cardinality(S) \in Nat /\ Bytes(S) \in Nat /\ Size[u] \in Nat
           /\ u \notin S => /\ Cardinality(S \cup {u}) = Cardinality(S) + 1
                           /\ Bytes(S \cup {u}) = Bytes(S) + Size[u]
           /\ u \in S => /\ Cardinality(S \ {u}) = Cardinality(S) - 1
                         /\ Bytes(S \ {u}) = Bytes(S) - Size[u]
                         /\ 1 <= Cardinality(S) /\ Size[u] <= Bytes(S)
<1>1. IsFiniteSet(S) /\ Cardinality(S) \in Nat /\ Bytes(S) \in Nat /\ Size[u] \in Nat
  BY FiniteUploads, FiniteBlocks, UploadsAssumption
<1>2. u \notin S => Cardinality(S \cup {u}) = Cardinality(S) + 1
  BY <1>1, FS_AddElement
<1>3. ASSUME u \in S
      PROVE  Cardinality(S \ {u}) = Cardinality(S) - 1 /\ 1 <= Cardinality(S)
  <2>1. Cardinality(S \ {u}) = Cardinality(S) - 1
    BY <1>1, <1>3, FS_RemoveElement
  <2>2. S \ {u} \in SUBSET Uploads
    OBVIOUS
  <2>3. Cardinality(S \ {u}) \in Nat
    BY <2>2, FiniteUploads
  <2> QED  BY <1>1, <2>1, <2>3
<1> QED  BY <1>1, <1>2, <1>3, BytesOfOne

\* What recovery computes is right.
LEMMA RecoveryCounts ==
    ASSUME Tables
    PROVE  Counts(RecoveredUsage, Present, Reserved \ Expired)
<1>1. Present \in SUBSET Uploads /\ Reserved \ Expired \in SUBSET Uploads
  BY DEF Present, Reserved
<1>2. /\ Cardinality(Present) \in Nat /\ Cardinality(Reserved \ Expired) \in Nat
      /\ Bytes(Present) \in Nat /\ Bytes(Reserved \ Expired) \in Nat
  BY <1>1, FiniteUploads, FiniteBlocks
<1> QED  BY <1>2 DEF Counts, UsageRow, RecoveredUsage

\* A reservation more.
LEMMA ReserveCounts ==
    ASSUME NEW P \in SUBSET Uploads, NEW R \in SUBSET Uploads, NEW use,
           Counts(use, P, R), NEW u \in Uploads, u \notin R
    PROVE  Counts(Reserve(use, u), P, R \cup {u})
<1>1. /\ Cardinality(R \cup {u}) = Cardinality(R) + 1
      /\ Bytes(R \cup {u}) = Bytes(R) + Size[u]
      /\ Cardinality(R) \in Nat /\ Bytes(R) \in Nat /\ Size[u] \in Nat
  BY Sizes
<1>2. PICK new : new = Reserve(use, u)
  OBVIOUS
<1>3. /\ use \in UsageRow
      /\ use.reservedDocuments = Cardinality(R) /\ use.reservedBytes = Bytes(R)
      /\ use.committedDocuments <= Cardinality(P) /\ use.committedBytes <= Bytes(P)
  BY DEF Counts
<1>4. use.reservedDocuments + 1 \in Nat /\ use.reservedBytes + Size[u] \in Nat
  BY <1>1, <1>3
<1>5. /\ new \in UsageRow
      /\ new.reservedDocuments = use.reservedDocuments + 1
      /\ new.reservedBytes = use.reservedBytes + Size[u]
      /\ new.committedDocuments = use.committedDocuments
      /\ new.committedBytes = use.committedBytes
  BY <1>2, <1>3, <1>4 DEF UsageRow, Reserve
<1>6. Counts(new, P, R \cup {u})
  BY <1>1, <1>3, <1>5 DEF Counts
<1> QED  BY <1>2, <1>6

\* A reservation less, and a document more.
LEMMA CommitCounts ==
    ASSUME NEW P \in SUBSET Uploads, NEW R \in SUBSET Uploads, NEW use,
           Counts(use, P, R), NEW u \in Uploads, u \in R, u \notin P
    PROVE  Counts(Commit(use, u), P \cup {u}, R \ {u})
<1>1. /\ Cardinality(R \ {u}) = Cardinality(R) - 1 /\ Bytes(R \ {u}) = Bytes(R) - Size[u]
      /\ 1 <= Cardinality(R) /\ Size[u] <= Bytes(R)
      /\ Cardinality(R) \in Nat /\ Bytes(R) \in Nat /\ Size[u] \in Nat
  BY Sizes
<1>2. /\ Cardinality(P \cup {u}) = Cardinality(P) + 1
      /\ Bytes(P \cup {u}) = Bytes(P) + Size[u]
      /\ Cardinality(P) \in Nat /\ Bytes(P) \in Nat
  BY Sizes
<1>3. PICK new : new = Commit(use, u)
  OBVIOUS
<1>4. /\ use \in UsageRow
      /\ use.reservedDocuments = Cardinality(R) /\ use.reservedBytes = Bytes(R)
      /\ use.committedDocuments <= Cardinality(P) /\ use.committedBytes <= Bytes(P)
      /\ use.committedDocuments \in Nat /\ use.committedBytes \in Nat
  BY DEF Counts, UsageRow
<1>5. /\ use.reservedDocuments - 1 \in Nat /\ use.reservedBytes - Size[u] \in Nat
      /\ use.committedDocuments + 1 \in Nat /\ use.committedBytes + Size[u] \in Nat
  BY <1>1, <1>4
<1>6. /\ new \in UsageRow
      /\ new.reservedDocuments = use.reservedDocuments - 1
      /\ new.reservedBytes = use.reservedBytes - Size[u]
      /\ new.committedDocuments = use.committedDocuments + 1
      /\ new.committedBytes = use.committedBytes + Size[u]
  BY <1>3, <1>4, <1>5 DEF UsageRow, Commit
<1>7. /\ new.committedDocuments <= Cardinality(P \cup {u})
      /\ new.committedBytes <= Bytes(P \cup {u})
  BY <1>1, <1>2, <1>4, <1>6
<1>8. Counts(new, P \cup {u}, R \ {u})
  BY <1>1, <1>4, <1>6, <1>7 DEF Counts
<1> QED  BY <1>3, <1>8

\* A reservation less: GREATEST has nothing to do.
LEMMA ReleaseCounts ==
    ASSUME NEW P \in SUBSET Uploads, NEW R \in SUBSET Uploads, NEW use,
           Counts(use, P, R), NEW u \in Uploads, u \in R
    PROVE  Counts(Release(use, u), P, R \ {u})
<1>1. /\ Cardinality(R \ {u}) = Cardinality(R) - 1 /\ Bytes(R \ {u}) = Bytes(R) - Size[u]
      /\ 1 <= Cardinality(R) /\ Size[u] <= Bytes(R)
      /\ Cardinality(R) \in Nat /\ Bytes(R) \in Nat /\ Size[u] \in Nat
  BY Sizes
<1>2. PICK new : new = Release(use, u)
  OBVIOUS
<1>3. /\ use \in UsageRow
      /\ use.reservedDocuments = Cardinality(R) /\ use.reservedBytes = Bytes(R)
      /\ use.committedDocuments <= Cardinality(P) /\ use.committedBytes <= Bytes(P)
  BY DEF Counts
<1>4. /\ Less(use.reservedDocuments, 1) = Cardinality(R \ {u})
      /\ Less(use.reservedDocuments, 1) \in Nat
  BY <1>1, <1>3, LessBounds
<1>5. /\ Less(use.reservedBytes, Size[u]) = Bytes(R \ {u})
      /\ Less(use.reservedBytes, Size[u]) \in Nat
  <2>1. /\ use.reservedBytes \in Nat /\ use.reservedBytes <= use.reservedBytes
        /\ Size[u] \in Nat /\ Size[u] <= use.reservedBytes
    BY <1>1, <1>3
  <2> QED  BY <1>1, <1>3, <2>1, LessBounds
<1>6. /\ new \in UsageRow
      /\ new.reservedDocuments = Less(use.reservedDocuments, 1)
      /\ new.reservedBytes = Less(use.reservedBytes, Size[u])
      /\ new.committedDocuments = use.committedDocuments
      /\ new.committedBytes = use.committedBytes
  BY <1>2, <1>3, <1>4, <1>5 DEF UsageRow, Release
<1>7. Counts(new, P, R \ {u})
  BY <1>3, <1>4, <1>5, <1>6 DEF Counts
<1> QED  BY <1>2, <1>7

\* A document less, which another request may have deleted and uncounted
\* before: the counters then go below what there is, but never above.
LEMMA UncommitCounts ==
    ASSUME NEW P \in SUBSET Uploads, NEW R \in SUBSET Uploads, NEW use,
           Counts(use, P, R), NEW u \in Uploads
    PROVE  Counts(Uncommit(use, u), P \ {u}, R)
<1>1. Cardinality(P) \in Nat /\ Bytes(P) \in Nat /\ Size[u] \in Nat
  BY Sizes
<1>2. /\ u \in P => /\ Cardinality(P \ {u}) = Cardinality(P) - 1
                    /\ Bytes(P \ {u}) = Bytes(P) - Size[u]
                    /\ 1 <= Cardinality(P) /\ Size[u] <= Bytes(P)
      /\ u \notin P => P \ {u} = P
  BY Sizes
<1>3. /\ use.committedDocuments \in Nat /\ use.committedDocuments <= Cardinality(P)
      /\ use.committedBytes \in Nat /\ use.committedBytes <= Bytes(P)
  BY DEF Counts, UsageRow
<1>4. /\ Less(use.committedDocuments, 1) \in Nat
      /\ Less(use.committedDocuments, 1) <= Cardinality(P \ {u})
  BY <1>1, <1>2, <1>3, LessBounds
<1>5. /\ Less(use.committedBytes, Size[u]) \in Nat
      /\ Less(use.committedBytes, Size[u]) <= Bytes(P \ {u})
  BY <1>1, <1>2, <1>3, LessBounds
<1> QED  BY <1>4, <1>5 DEF Counts, UsageRow, Uncommit

\* The usage row after a step, in terms of the tables after it.
LEMMA CountsAfter ==
    ASSUME NEW P, NEW R, Present' = P, Reserved' = R, Counts(usage', P, R)
    PROVE  Counts(usage, Present, Reserved)'
BY DEF Counts, Bytes, UsageRow

\* Every set is one of uploads, and no upload is both reserved and present.
LEMMA TablesOfUploads ==
    ASSUME CInv
    PROVE  /\ Tables /\ Present \in SUBSET Uploads /\ Reserved \in SUBSET Uploads
           /\ Present \cap Reserved = {}
BY DEF CInv, TypeOK, Tables, RowInv, Present, Reserved

\* A step that leaves the tables and the usage row alone.
LEMMA CountersUntouched ==
    ASSUME CInv, UNCHANGED <<document, reservation, usage>>
    PROVE  Counts(usage, Present, Reserved)'
<1>1. Present' = Present /\ Reserved' = Reserved /\ Counts(usage', Present, Reserved)
  BY DEF CInv, Present, Reserved
<1> QED  BY <1>1, CountsAfter

\* An upload is reserved once, beside an exact recovery.
LEMMA ReserveKeepsCounters ==
    ASSUME CInv, NEW u \in Uploads, ReserveUpload(u)
    PROVE  CInv'
<1>1. PICK live : live = Reserved \ Expired
  OBVIOUS
<1>2. /\ Tables /\ live \in SUBSET Uploads /\ Present \in SUBSET Uploads /\ u \notin live
  BY <1>1, TablesOfUploads DEF CInv, RowInv, ReserveUpload, Reserved
<1>3. Counts(RecoveredUsage, Present, live)
  BY <1>1, <1>2, RecoveryCounts
<1>4. Counts(usage', Present, live \cup {u})
  BY <1>2, <1>3, ReserveCounts DEF ReserveUpload
<1>5. /\ RecoveredReservation \in [Uploads -> {"none", "reserved", "committed", "released"}]
      /\ \A v \in Uploads : RecoveredReservation[v] = "reserved" <=> v \in live
  BY <1>1, <1>2, RecoveryOnlyReleases
<1>6. Present' = Present /\ Reserved' = live \cup {u}
  BY <1>2, <1>5 DEF ReserveUpload, Present, Reserved
<1>7. Counts(usage, Present, Reserved)'
  BY <1>4, <1>6, CountsAfter
<1>8. TypeOK'
  BY <1>4, <1>5 DEF CInv, ReserveUpload, TypeOK, Counts, UsageRow, Goto, storage
<1>9. \A v \in Uploads : RowInv(v)'
  <2> TAKE v \in Uploads
  <2>1. /\ v # u => reservation'[v] = RecoveredReservation[v] /\ handler'[v] = handler[v]
        /\ v = u => reservation'[v] = "reserved" /\ handler'[v] = "admitted"
        /\ document' = document /\ handler[u] = "new"
    BY <1>5 DEF CInv, TypeOK, ReserveUpload, Goto
  <2>2. \/ RecoveredReservation[v] = reservation[v]
        \/ reservation[v] = "reserved" /\ RecoveredReservation[v] = "released"
    BY DEF RecoveredReservation, Expired, Reserved
  <2> QED  BY <2>1, <2>2 DEF CInv, RowInv
<1>10. \A x \in Deleters : ReadInv(x)'
  BY DEF CInv, ReserveUpload, ReadInv
<1> QED  BY <1>7, <1>8, <1>9, <1>10 DEF CInv

\* A commit needs the reservation, so that it takes from the counters only
\* what they hold.
LEMMA CommitKeepsCounters ==
    ASSUME CInv, NEW u \in Uploads, CreateOwnedAndCommitUpload(u) \/ CommitInDoubt(u)
    PROVE  CInv'
<1>1. PICK pc : pc \in {"accepted", "discarding"} /\ handler' = [handler EXCEPT ![u] = pc]
  BY DEF CreateOwnedAndCommitUpload, CommitInDoubt, Goto
<1>2. CommitTransaction(u)
  BY DEF CreateOwnedAndCommitUpload, CommitInDoubt
<1>3. /\ Present \in SUBSET Uploads /\ Reserved \in SUBSET Uploads
      /\ u \in Reserved /\ u \notin Present
  BY <1>2, TablesOfUploads DEF CommitTransaction, Reserved
<1>4. Counts(usage', Present \cup {u}, Reserved \ {u})
  BY <1>2, <1>3, CommitCounts DEF CInv, CommitTransaction
<1>5. Present' = Present \cup {u} /\ Reserved' = Reserved \ {u}
  BY <1>2 DEF CInv, TypeOK, CommitTransaction, Present, Reserved
<1>6. Counts(usage, Present, Reserved)'
  BY <1>4, <1>5, CountsAfter
<1>7. TypeOK'
  BY <1>1, <1>2, <1>4 DEF CInv, CommitTransaction, TypeOK, Counts, UsageRow, storage
<1>8. (\A v \in Uploads : RowInv(v)') /\ (\A x \in Deleters : ReadInv(x)')
  BY <1>1, <1>2 DEF CInv, CommitTransaction, RowInv, ReadInv, TypeOK
<1> QED  BY <1>6, <1>7, <1>8 DEF CInv

\* What is released is released once.
LEMMA ReleaseKeepsCounters ==
    ASSUME CInv, NEW u \in Uploads, ReleaseUpload(u)
    PROVE  CInv'
<1>1. Counts(usage, Present, Reserved)' /\ usage' \in UsageRow
  <2>1. CASE reservation[u] = "reserved"
    <3>1. Present \in SUBSET Uploads /\ Reserved \in SUBSET Uploads /\ u \in Reserved
      BY <2>1, TablesOfUploads DEF Reserved
    <3>2. Counts(usage', Present, Reserved \ {u})
      BY <2>1, <3>1, ReleaseCounts DEF CInv, ReleaseUpload
    <3>3. Present' = Present /\ Reserved' = Reserved \ {u}
      BY <2>1 DEF CInv, TypeOK, ReleaseUpload, Present, Reserved
    <3> QED  BY <3>2, <3>3, CountsAfter DEF Counts
  <2>2. CASE reservation[u] # "reserved"
    BY <2>2, CountersUntouched DEF ReleaseUpload, CInv, Counts
  <2> QED  BY <2>1, <2>2
<1>2. TypeOK'
  BY <1>1 DEF CInv, ReleaseUpload, TypeOK, UsageRow, Goto, storage
<1>3. (\A v \in Uploads : RowInv(v)') /\ (\A x \in Deleters : ReadInv(x)')
  BY DEF CInv, ReleaseUpload, RowInv, ReadInv, TypeOK, Goto
<1> QED  BY <1>1, <1>2, <1>3 DEF CInv

\* A delete may find that another has deleted and uncounted the document.
LEMMA DeleteKeepsCounters ==
    ASSUME CInv, NEW x \in Deleters, DeleteRow(x)
    PROVE  CInv'
<1>1. PICK u : u = deleter[x].doc
  OBVIOUS
<1>2. u \in Uploads /\ document[u] # "none"
  BY <1>1 DEF CInv, ReadInv, DeleteRow
<1>3. Counts(usage', Present \ {u}, Reserved)
  BY <1>1, <1>2, TablesOfUploads, UncommitCounts DEF CInv, DeleteRow
<1>4. Present' = Present \ {u} /\ Reserved' = Reserved
  BY <1>1, <1>2 DEF CInv, TypeOK, DeleteRow, Present, Reserved
<1>5. Counts(usage, Present, Reserved)'
  BY <1>3, <1>4, CountsAfter
<1>6. deleter'[x] = [deleter[x] EXCEPT !.pc = "deleted"]
      /\ deleter' \in [Deleters -> [pc : {"idle", "read", "deleted"},
                                    doc : Uploads \cup {NoUpload}]]
  BY DEF CInv, TypeOK, DeleteRow
<1>7. TypeOK'
  BY <1>1, <1>2, <1>3, <1>6 DEF CInv, DeleteRow, TypeOK, Counts, UsageRow, storage
<1>8. \A v \in Uploads : RowInv(v)'
  BY <1>1, <1>2 DEF CInv, DeleteRow, RowInv, TypeOK
<1>9. \A y \in Deleters : ReadInv(y)'
  BY <1>1, <1>2, <1>6 DEF CInv, DeleteRow, ReadInv, TypeOK
<1> QED  BY <1>5, <1>7, <1>8, <1>9 DEF CInv

\* Recovery counts everything afresh.
LEMMA RecoveryKeepsCounters ==
    ASSUME CInv, BeginAnswer \/ OpenDocumentStore
    PROVE  CInv'
<1>1. PICK live : live = Reserved \ Expired
  OBVIOUS
<1>2. Recover /\ startup' \in [pc : {"running", "listing", "checking"},
                               todo : SUBSET Uploads, victim : Uploads \cup {NoUpload}]
  BY DEF BeginAnswer, OpenDocumentStore, CInv, TypeOK
<1>3. Counts(usage', Present, live)
  BY <1>1, <1>2, TablesOfUploads, RecoveryCounts DEF Recover
<1>4. Present' = Present /\ Reserved' = live
  BY <1>1, <1>2, TablesOfUploads, RecoveryOnlyReleases DEF Recover, Present, Reserved
<1>5. Counts(usage, Present, Reserved)'
  BY <1>3, <1>4, CountsAfter
<1>6. /\ reservation' \in [Uploads -> {"none", "reserved", "committed", "released"}]
      /\ \A v \in Uploads : \/ reservation'[v] = reservation[v]
                            \/ reservation[v] = "reserved" /\ reservation'[v] = "released"
      /\ UNCHANGED <<document, expired, file, old, handler, deleter>>
  BY <1>2, TablesOfUploads, RecoveryOnlyReleases
     DEF Recover, RecoveredReservation, Expired, Reserved, storage
<1>7. TypeOK'
  BY <1>2, <1>3, <1>6 DEF CInv, TypeOK, Counts, UsageRow
<1>8. (\A v \in Uploads : RowInv(v)') /\ (\A x \in Deleters : ReadInv(x)')
  BY <1>6 DEF CInv, RowInv, ReadInv
<1> QED  BY <1>5, <1>7, <1>8 DEF CInv

\* Nothing else touches what is counted.
LEMMA OthersKeepCounters ==
    ASSUME CInv, UNCHANGED <<document, reservation, usage>>, TypeOK',
           \A u \in Uploads :
              \/ handler'[u] = handler[u]
              \/ handler[u] = "new" /\ handler'[u] = "refused"
              \/ /\ handler[u] \in {"admitted", "writing", "stored", "discarding", "releasing"}
                 /\ handler'[u] \in {"writing", "stored", "discarding", "releasing", "crashed"}
                 /\ document[u] # "none" => handler'[u] \in {"discarding", "releasing", "crashed"},
           \A x \in Deleters : ReadInv(x)'
    PROVE  CInv'
<1>1. \A u \in Uploads : RowInv(u)'
  BY DEF CInv, RowInv
<1> QED  BY <1>1, CountersUntouched DEF CInv

\* Every step keeps the counters right.
LEMMA NextKeepsCounters == CInv /\ [Next]_vars => CInv'
<1> SUFFICES ASSUME CInv, [Next]_vars PROVE CInv'
  OBVIOUS
<1> USE DEF db, storage
<1>1. ASSUME NEW u \in Uploads,
             \/ RefuseUpload(u) \/ PutTemporary(u) \/ PutRename(u) \/ PutFails(u)
             \/ CommitFails(u) \/ DiscardFile(u) \/ UploadCrash(u)
      PROVE  CInv'
  <2>1. /\ UNCHANGED <<document, reservation, expired, usage, old, deleter, startup>>
        /\ file' \in [Uploads -> {"none", "temporary", "object"}]
    BY <1>1
       DEF RefuseUpload, PutTemporary, PutRename, PutFails, CommitFails, DiscardFile,
           UploadCrash, CInv, TypeOK
  <2>2. PICK pc \in {"refused", "writing", "stored", "releasing", "discarding", "crashed"} :
           /\ handler' = [handler EXCEPT ![u] = pc]
           /\ pc = "refused" <=> handler[u] = "new"
           /\ handler[u] \in {"new", "admitted", "writing", "stored", "discarding", "releasing"}
           /\ handler[u] \in {"discarding", "releasing"} => pc \in {"releasing", "crashed"}
    BY <1>1
       DEF RefuseUpload, PutTemporary, PutRename, PutFails, CommitFails, DiscardFile,
           UploadCrash, Goto
  <2>3. TypeOK'
    BY <2>1, <2>2 DEF CInv, TypeOK
  <2>4. \A x \in Deleters : ReadInv(x)'
    BY <2>1 DEF CInv, ReadInv
  <2>5. \A v \in Uploads :
           \/ handler'[v] = handler[v]
           \/ handler[v] = "new" /\ handler'[v] = "refused"
           \/ /\ handler[v] \in {"admitted", "writing", "stored", "discarding", "releasing"}
              /\ handler'[v] \in {"writing", "stored", "discarding", "releasing", "crashed"}
              /\ document[v] # "none" => handler'[v] \in {"discarding", "releasing", "crashed"}
    BY <2>2 DEF CInv, TypeOK, RowInv
  <2> QED  BY <2>1, <2>3, <2>4, <2>5, OthersKeepCounters
<1>2. ASSUME UNCHANGED <<document, reservation, usage, handler>>, TypeOK',
             \A x \in Deleters : ReadInv(x)'
      PROVE  CInv'
  BY <1>2, OthersKeepCounters
<1>3. ASSUME NEW u \in Uploads, ClockNext(u) PROVE CInv'
  <2>1. /\ UNCHANGED <<document, reservation, usage, handler>> /\ TypeOK'
        /\ \A x \in Deleters : ReadInv(x)'
    BY <1>3 DEF ClockNext, ReservationExpires, FileAges, CInv, TypeOK, ReadInv
  <2> QED  BY <1>2, <2>1
<1>4. ASSUME NEW x \in Deleters,
             (\E u \in Uploads : DeleteRead(x, u)) \/ DeleteFile(x) \/ DeleteCrash(x)
      PROVE  CInv'
  <2>1. /\ UNCHANGED <<document, reservation, expired, usage, old, handler, startup>>
        /\ file' \in [Uploads -> {"none", "temporary", "object"}]
    BY <1>4 DEF DeleteRead, DeleteFile, DeleteCrash, CInv, TypeOK
  <2>2. PICK new : /\ new \in [pc : {"idle", "read", "deleted"}, doc : Uploads \cup {NoUpload}]
                   /\ deleter' = [deleter EXCEPT ![x] = new]
                   /\ new.pc # "idle" => new.doc \in Uploads /\ document[new.doc] # "none"
    <3>1. ASSUME NEW u \in Uploads, DeleteRead(x, u)
          PROVE  /\ [pc |-> "read", doc |-> u] \in [pc : {"idle", "read", "deleted"},
                                                  doc : Uploads \cup {NoUpload}]
                 /\ deleter' = [deleter EXCEPT ![x] = [pc |-> "read", doc |-> u]]
                 /\ document[u] # "none"
      BY <3>1 DEF DeleteRead
    <3>2. ASSUME DeleteFile(x) \/ DeleteCrash(x)
          PROVE  /\ IdleDeleter \in [pc : {"idle", "read", "deleted"},
                                     doc : Uploads \cup {NoUpload}]
                 /\ deleter' = [deleter EXCEPT ![x] = IdleDeleter]
                 /\ IdleDeleter.pc = "idle"
      BY <3>2 DEF DeleteFile, DeleteCrash, IdleDeleter
    <3>3. CASE \E u \in Uploads : DeleteRead(x, u)
      <4>1. PICK u \in Uploads : DeleteRead(x, u)
        BY <3>3
      <4>2. PICK new : new = [pc |-> "read", doc |-> u]
        OBVIOUS
      <4>3. new.doc = u
        BY <4>2
      <4> QED  BY <3>1, <4>1, <4>2, <4>3
    <3>4. CASE DeleteFile(x) \/ DeleteCrash(x)
      BY <3>2, <3>4
    <3> QED  BY <1>4, <3>3, <3>4
  <2>3. TypeOK'
    BY <2>1, <2>2 DEF CInv, TypeOK
  <2>4. \A y \in Deleters : ReadInv(y)'
    BY <2>1, <2>2 DEF CInv, TypeOK, ReadInv
  <2> QED  BY <1>2, <2>1, <2>3, <2>4
<1>5. CASE \/ ListObjects \/ (\E u \in Uploads : CheckReference(u))
           \/ DeleteOrphan \/ Serve \/ ReconcileFails
  <2>1. /\ UNCHANGED <<document, reservation, expired, usage, old, handler, deleter>>
        /\ file' \in [Uploads -> {"none", "temporary", "object"}]
    BY <1>5 DEF ListObjects, CheckReference, DeleteOrphan, Serve, ReconcileFails, CInv, TypeOK
  <2>2. startup' \in [pc : {"running", "listing", "checking"},
                     todo : SUBSET Uploads, victim : Uploads \cup {NoUpload}]
    <3>1. ASSUME NEW u \in Uploads, CheckReference(u)
          PROVE  startup' \in [pc : {"running", "listing", "checking"},
                              todo : SUBSET Uploads, victim : Uploads \cup {NoUpload}]
      BY <3>1 DEF CheckReference, CInv, TypeOK
    <3>2. CASE ListObjects
      BY <3>2 DEF ListObjects
    <3>3. CASE DeleteOrphan
      BY <3>3 DEF DeleteOrphan, CInv, TypeOK
    <3>4. CASE Serve \/ ReconcileFails
      BY <3>4 DEF Serve, ReconcileFails, Running
    <3> QED  BY <1>5, <3>1, <3>2, <3>3, <3>4
  <2>3. TypeOK' /\ (\A x \in Deleters : ReadInv(x)')
    BY <2>1, <2>2 DEF CInv, TypeOK, ReadInv
  <2> QED  BY <1>2, <2>1, <2>3
<1>6. CASE UNCHANGED vars
  <2>1. /\ UNCHANGED <<document, reservation, usage, handler>> /\ TypeOK'
        /\ \A x \in Deleters : ReadInv(x)'
    BY <1>6 DEF vars, CInv, TypeOK, ReadInv
  <2> QED  BY <1>2, <2>1
<1> QED
  BY <1>1, <1>3, <1>4, <1>5, <1>6, ReserveKeepsCounters, CommitKeepsCounters,
     ReleaseKeepsCounters, DeleteKeepsCounters, RecoveryKeepsCounters
     DEF Next, UploadNext, DeleteNext, ReconcileNext

LEMMA InitCounters == Init => CInv
<1> SUFFICES ASSUME Init PROVE CInv
  OBVIOUS
<1>1. Present = {} /\ Reserved = {}
  BY DEF Init, Present, Reserved
<1>2. Counts(NoUsage, {}, {})
  BY NoBytes, FS_EmptySet DEF Counts, UsageRow, NoUsage
<1>3. Counts(usage, Present, Reserved)
  BY <1>1, <1>2 DEF Init
<1>4. TypeOK
  BY DEF Init, TypeOK, NoUsage, IdleDeleter, Running
<1> QED  BY <1>3, <1>4 DEF Init, CInv, RowInv, ReadInv, IdleDeleter

\* Every variable keeps its type: however releases, recoveries and deletes of
\* several requests interleave, no counter of the usage row goes below zero.
THEOREM TypesKept == Spec => []TypeOK
<1>1. CInv => TypeOK
  BY DEF CInv
<1> QED  BY <1>1, InitCounters, NextKeepsCounters, PTL DEF Spec

\* Reservations are counted exactly, and no committed document is counted that
\* is not there, even when two requests delete the same document.
THEOREM NothingLeaks == Spec => []NeverOvercounts
<1>1. CInv => NeverOvercounts
  BY DEF CInv, Counts, NeverOvercounts
<1> QED  BY <1>1, InitCounters, NextKeepsCounters, PTL DEF Spec

\* A refusal: what the recovery leaves is among what may hold space.
LEMMA RefusalIsRight ==
    ASSUME CInv, NEW u \in Uploads, RefuseUpload(u)
    PROVE  LET holders == {v \in Uploads : HoldsSpace(v)}
           IN  \/ Cardinality(holders) + 1 > MaxOwnerDocuments
               \/ Bytes(holders) + Size[u] > MaxOwnerStorage
<1>1. PICK holders : holders = {v \in Uploads : HoldsSpace(v)}
  OBVIOUS
<1>2. PICK live : live = Reserved \ Expired
  OBVIOUS
<1>3. PICK both : both = Present \cup live
  OBVIOUS
<1>4. both \subseteq holders
  BY <1>1, <1>2, <1>3 DEF CInv, RowInv, HoldsSpace, Present, Reserved, Expired
<1>5. /\ Present \in SUBSET Uploads /\ live \in SUBSET Uploads /\ holders \in SUBSET Uploads
      /\ both \in SUBSET Uploads /\ Present \cap live = {}
  BY <1>1, <1>2, <1>3, TablesOfUploads
<1>6. /\ Cardinality(Present) \in Nat /\ Cardinality(live) \in Nat /\ Cardinality(both) \in Nat
      /\ IsFiniteSet(Present) /\ IsFiniteSet(live) /\ IsFiniteSet(holders)
      /\ Cardinality(holders) \in Nat /\ Bytes(Present) \in Nat /\ Bytes(live) \in Nat
      /\ Bytes(both) \in Nat /\ Bytes(holders) \in Nat /\ Size[u] \in Nat
  BY <1>5, FiniteUploads, FiniteBlocks, UploadsAssumption
<1>7. Cardinality(both) = Cardinality(Present) + Cardinality(live)
  <2>1. Cardinality(Present \cup live) =
           Cardinality(Present) + Cardinality(live) - Cardinality(Present \cap live)
    BY <1>6, FS_Union
  <2>2. Cardinality(Present \cap live) = 0
    BY <1>5, FS_EmptySet
  <2> QED  BY <1>3, <1>6, <2>1, <2>2
<1>8. Bytes(both) = Bytes(Present) + Bytes(live)
  BY <1>3, <1>5, BytesAddUp
<1>9. Cardinality(both) <= Cardinality(holders)
  BY <1>4, <1>6, FS_Subset
<1>10. Bytes(both) <= Bytes(holders)
  BY <1>4, <1>5, FewerBytes
<1>11. ~ /\ Bytes(Present) + Bytes(live) + Size[u] <= MaxOwnerStorage
         /\ Cardinality(Present) + Cardinality(live) + 1 <= MaxOwnerDocuments
  BY <1>2 DEF RefuseUpload, Fits, RecoveredUsage
<1>12. \/ Cardinality(holders) + 1 > MaxOwnerDocuments
       \/ Bytes(holders) + Size[u] > MaxOwnerStorage
  BY <1>6, <1>7, <1>8, <1>9, <1>10, <1>11, LimitsAssumption
<1> QED  BY <1>1, <1>12

\* Only RefuseUpload refuses.
LEMMA OnlyRefusalsRefuse ==
    ASSUME CInv, [Next]_vars, NEW u \in Uploads, handler[u] = "new", handler'[u] = "refused"
    PROVE  RefuseUpload(u)
<1>1. ASSUME NEW v \in Uploads, UploadNext(v) \/ ClockNext(v)
      PROVE  RefuseUpload(u)
  BY <1>1
     DEF CInv, TypeOK, UploadNext, ReserveUpload, RefuseUpload, PutTemporary, PutRename,
         PutFails, CreateOwnedAndCommitUpload, CommitInDoubt, CommitFails, DiscardFile,
         ReleaseUpload, UploadCrash, ClockNext, ReservationExpires, FileAges, Goto
<1>2. CASE UNCHANGED handler
  BY <1>2
<1>3. ASSUME \/ \E x \in Deleters : DeleteNext(x)
             \/ BeginAnswer \/ ReconcileNext \/ UNCHANGED vars
      PROVE  UNCHANGED handler
  BY <1>3
     DEF DeleteNext, DeleteRead, DeleteRow, DeleteFile, DeleteCrash, BeginAnswer, Recover,
         ReconcileNext, OpenDocumentStore, ListObjects, CheckReference, DeleteOrphan, Serve,
         ReconcileFails, vars
<1> QED  BY <1>1, <1>2, <1>3 DEF Next

\* An upload is refused only if it does not fit beside the documents that are
\* listed and the uploads that are under way or were cut short while their
\* reservation has not expired.
THEOREM RefusalsAreRight == Spec => RefusedOnlyWhenFull
<1>1. CInv /\ [Next]_vars =>
         [\A u \in Uploads :
             handler[u] = "new" /\ handler'[u] = "refused" =>
                LET holders == {v \in Uploads : HoldsSpace(v)}
                IN  \/ Cardinality(holders) + 1 > MaxOwnerDocuments
                    \/ Bytes(holders) + Size[u] > MaxOwnerStorage]_vars
  BY OnlyRefusalsRefuse, RefusalIsRight
<1> QED  BY <1>1, InitCounters, NextKeepsCounters, PTL DEF Spec, RefusedOnlyWhenFull

-----------------------------------------------------------------------------
(* Refinement: usage row, reservations and documents implement a quota whose *)
(* lapsed claims may be kept late, unless they were taken away.             *)

Pooled == [u \in Uploads |-> Claim(u)]

Quotas == {S \in SUBSET Uploads : /\ Cardinality(S) <= MaxOwnerDocuments
                                  /\ Bytes(S) <= MaxOwnerStorage}

\* The clock has nothing to say of an upload that was never reserved.
Unreserved == \A u \in Uploads : reservation[u] = "none" => ~expired[u]

LEMMA UnreservedKept == CInv /\ Unreserved /\ [Next]_vars => Unreserved'
<1> SUFFICES ASSUME CInv, Unreserved, [Next]_vars PROVE Unreserved'
  OBVIOUS
<1> USE DEF db, storage
<1>1. ASSUME NEW u \in Uploads, ReserveUpload(u) PROVE Unreserved'
  <2>1. /\ reservation' = [RecoveredReservation EXCEPT ![u] = "reserved"]
        /\ expired' = expired
    BY <1>1 DEF ReserveUpload
  <2> QED  BY <2>1 DEF Unreserved, RecoveredReservation
<1>2. ASSUME NEW u \in Uploads, CreateOwnedAndCommitUpload(u) \/ CommitInDoubt(u) \/ ReleaseUpload(u)
      PROVE  Unreserved'
  BY <1>2 DEF CreateOwnedAndCommitUpload, CommitInDoubt, CommitTransaction, ReleaseUpload,
              Unreserved, CInv, TypeOK
<1>3. ASSUME NEW u \in Uploads, ReservationExpires(u) PROVE Unreserved'
  BY <1>3 DEF ReservationExpires, Unreserved, CInv, TypeOK
<1>4. CASE Recover
  BY <1>4 DEF Recover, RecoveredReservation, Unreserved
<1>5. CASE UNCHANGED <<reservation, expired>>
  BY <1>5 DEF Unreserved
<1>6. ASSUME NEW u \in Uploads,
             \/ RefuseUpload(u) \/ PutTemporary(u) \/ PutRename(u) \/ PutFails(u)
             \/ CommitFails(u) \/ DiscardFile(u) \/ UploadCrash(u) \/ FileAges(u)
      PROVE  Unreserved'
  BY <1>5, <1>6 DEF RefuseUpload, PutTemporary, PutRename, PutFails, CommitFails,
                    DiscardFile, UploadCrash, FileAges
<1>7. ASSUME NEW x \in Deleters, DeleteNext(x) PROVE Unreserved'
  BY <1>5, <1>7 DEF DeleteNext, DeleteRead, DeleteRow, DeleteFile, DeleteCrash
<1>8. CASE BeginAnswer \/ OpenDocumentStore
  BY <1>4, <1>8 DEF BeginAnswer, OpenDocumentStore
<1>9. CASE \/ ListObjects \/ (\E u \in Uploads : CheckReference(u))
           \/ DeleteOrphan \/ Serve \/ ReconcileFails
  BY <1>5, <1>9 DEF ListObjects, CheckReference, DeleteOrphan, Serve, ReconcileFails
<1> QED
  BY <1>1, <1>2, <1>3, <1>5, <1>6, <1>7, <1>8, <1>9
     DEF Next, UploadNext, ClockNext, ReconcileNext, vars

\* Where a claim stands against others, and where nothing has been claimed.
LEMMA ClaimsOfTables ==
    ASSUME CInv
    PROVE  /\ Pool!Granted = Present \cup (Reserved \ Expired)
           /\ \A u \in Uploads :
                 /\ handler[u] = "new" => Pooled[u] = "none"
                 /\ reservation[u] = "reserved" =>
                       Pooled[u] = IF expired[u] THEN "lapsed" ELSE "held"
                 /\ document[u] = "present" => Pooled[u] = "kept"
                 /\ document[u] = "deleted" => Pooled[u] = "over"
BY DEF CInv, TypeOK, RowInv, Pool!Granted, Pooled, Claim, Present, Reserved, Expired

\* The admission asks whether the quota has room for one more.
LEMMA AdmissionAsksQuota ==
    ASSUME CInv, NEW u \in Uploads, handler[u] = "new"
    PROVE  Fits(RecoveredUsage, u) <=> Pool!Granted \cup {u} \in Quotas
<1>1. PICK live : live = Reserved \ Expired
  OBVIOUS
<1>2. PICK both : both = Present \cup live
  OBVIOUS
<1>3. /\ Present \in SUBSET Uploads /\ live \in SUBSET Uploads /\ Present \cap live = {}
      /\ both \in SUBSET Uploads /\ u \notin both /\ both \cup {u} \in SUBSET Uploads
  BY <1>1, <1>2, TablesOfUploads DEF CInv, RowInv, Present, Reserved
<1>4. /\ IsFiniteSet(Present) /\ IsFiniteSet(live)
      /\ Cardinality(Present) \in Nat /\ Cardinality(live) \in Nat
      /\ Bytes(Present) \in Nat /\ Bytes(live) \in Nat /\ Size[u] \in Nat
  BY <1>3, FiniteUploads, FiniteBlocks, UploadsAssumption
<1>5. Cardinality(both) = Cardinality(Present) + Cardinality(live)
  <2>1. Cardinality(Present \cup live) =
           Cardinality(Present) + Cardinality(live) - Cardinality(Present \cap live)
    BY <1>4, FS_Union
  <2>2. Cardinality(Present \cap live) = 0
    BY <1>3, FS_EmptySet
  <2> QED  BY <1>2, <1>4, <2>1, <2>2
<1>6. Bytes(both) = Bytes(Present) + Bytes(live)
  BY <1>2, <1>3, BytesAddUp
<1>7. /\ Cardinality(both \cup {u}) = Cardinality(both) + 1
      /\ Bytes(both \cup {u}) = Bytes(both) + Size[u]
  BY <1>3, Sizes
<1>8. Fits(RecoveredUsage, u) <=>
         /\ Bytes(Present) + Bytes(live) + Size[u] <= MaxOwnerStorage
         /\ Cardinality(Present) + Cardinality(live) + 1 <= MaxOwnerDocuments
  BY <1>1 DEF Fits, RecoveredUsage
<1>9. Pool!Granted \cup {u} \in Quotas <=>
         /\ Cardinality(both \cup {u}) <= MaxOwnerDocuments
         /\ Bytes(both \cup {u}) <= MaxOwnerStorage
  BY <1>1, <1>2, <1>3, ClaimsOfTables DEF Quotas
<1> QED  BY <1>4, <1>5, <1>6, <1>7, <1>8, <1>9

\* A recovery takes the lapsed claims away, and leaves the others alone.
LEMMA RecoveryRevokes ==
    ASSUME CInv, NEW u \in Uploads
    PROVE  /\ Pool!Revoked[u] = IF u \in Expired THEN "over" ELSE Pooled[u]
           /\ u \in Expired =>
                 RecoveredReservation[u] = "released" /\ document[u] = "none"
           /\ u \notin Expired => RecoveredReservation[u] = reservation[u]
BY DEF CInv, TypeOK, RowInv, Pool!Revoked, Pooled, Claim, RecoveredReservation,
       Expired, Reserved

LEMMA ReserveIsGrant ==
    ASSUME CInv, Unreserved, NEW u \in Uploads, ReserveUpload(u)
    PROVE  Pool!Grant(u)
<1>1. /\ handler[u] = "new" /\ Fits(RecoveredUsage, u)
      /\ reservation' = [RecoveredReservation EXCEPT ![u] = "reserved"]
      /\ handler' = [handler EXCEPT ![u] = "admitted"]
      /\ UNCHANGED <<document, expired>>
  BY DEF ReserveUpload, Goto
<1>2. /\ reservation[u] = "none" /\ document[u] = "none" /\ ~expired[u]
      /\ Pooled[u] = "none"
  BY <1>1, ClaimsOfTables DEF CInv, TypeOK, RowInv, Unreserved
<1>3. /\ reservation'[u] = "reserved"
      /\ \A v \in Uploads : v # u => /\ reservation'[v] = RecoveredReservation[v]
                                     /\ handler'[v] = handler[v]
  BY <1>1 DEF CInv, TypeOK, RecoveredReservation
<1>4. Pooled'[u] = "held"
  BY <1>1, <1>2, <1>3 DEF Pooled, Claim
<1>5. ASSUME NEW v \in Uploads, v # u PROVE Pooled'[v] = Pool!Revoked[v]
  <2>1. CASE v \in Expired
    BY <1>1, <1>3, <1>5, <2>1, RecoveryRevokes DEF Pooled, Claim
  <2>2. CASE v \notin Expired
    BY <1>1, <1>3, <1>5, <2>2, RecoveryRevokes DEF Pooled, Claim
  <2> QED  BY <2>1, <2>2
<1>6. Pooled' = [Pool!Revoked EXCEPT ![u] = "held"]
  BY <1>4, <1>5 DEF Pooled, Pool!Revoked
<1>7. Pool!Granted \cup {u} \in Quotas
  BY <1>1, AdmissionAsksQuota
<1> QED  BY <1>2, <1>6, <1>7 DEF Pool!Grant, Pooled, Quotas

LEMMA RefusalIsRefusal ==
    ASSUME CInv, NEW u \in Uploads, RefuseUpload(u)
    PROVE  Pool!Refuse(u)
<1>1. /\ handler[u] = "new" /\ ~Fits(RecoveredUsage, u)
      /\ handler' = [handler EXCEPT ![u] = "refused"]
      /\ UNCHANGED <<document, reservation, expired>>
  BY DEF RefuseUpload, Goto, db
<1>2. reservation[u] = "none" /\ document[u] = "none" /\ Pooled[u] = "none"
  BY <1>1, ClaimsOfTables DEF CInv, TypeOK, RowInv
<1>3. Pooled' = [Pooled EXCEPT ![u] = "refused"]
  <2>1. handler'[u] = "refused" /\ \A v \in Uploads : v # u => handler'[v] = handler[v]
    BY <1>1 DEF CInv, TypeOK
  <2> QED  BY <1>1, <1>2, <2>1 DEF Pooled, Claim
<1>4. Pool!Granted \cup {u} \notin Quotas
  BY <1>1, AdmissionAsksQuota
<1> QED  BY <1>2, <1>3, <1>4 DEF Pool!Refuse, Pooled, Quotas

LEMMA ExpiryIsLapse ==
    ASSUME CInv, NEW u \in Uploads, ReservationExpires(u)
    PROVE  Pool!Lapse(u)
<1>1. /\ reservation[u] = "reserved" /\ ~expired[u] /\ document[u] = "none"
      /\ expired' = [expired EXCEPT ![u] = TRUE]
      /\ UNCHANGED <<document, reservation, handler>>
  BY DEF ReservationExpires, CInv, TypeOK, RowInv
<1>2. Pooled[u] = "held" /\ Pooled' = [Pooled EXCEPT ![u] = "lapsed"]
  BY <1>1 DEF CInv, TypeOK, Pooled, Claim
<1> QED  BY <1>2 DEF Pool!Lapse, Pooled

\* A commit keeps what its reservation claimed, be it expired or not.
LEMMA CommitIsKeep ==
    ASSUME CInv, NEW u \in Uploads, CreateOwnedAndCommitUpload(u) \/ CommitInDoubt(u)
    PROVE  Pool!Keep(u)
<1>1. /\ reservation[u] = "reserved"
      /\ document' = [document EXCEPT ![u] = "present"]
      /\ reservation' = [reservation EXCEPT ![u] = "committed"]
      /\ expired' = expired
      /\ \A v \in Uploads : v # u => handler'[v] = handler[v]
  BY DEF CreateOwnedAndCommitUpload, CommitInDoubt, CommitTransaction, Goto, CInv, TypeOK
<1>2. Pooled[u] \in {"held", "lapsed"}
  BY <1>1, ClaimsOfTables
<1>3. Pooled' = [Pooled EXCEPT ![u] = "kept"]
  BY <1>1 DEF CInv, TypeOK, Pooled, Claim
<1> QED  BY <1>2, <1>3 DEF Pool!Keep, Pooled

\* A release returns a claim, unless it was taken away or kept before.
LEMMA ReleaseIsReturn ==
    ASSUME CInv, NEW u \in Uploads, ReleaseUpload(u)
    PROVE  Pool!Return(u) \/ Pooled' = Pooled
<1>1. /\ UNCHANGED <<document, expired>>
      /\ \A v \in Uploads : handler'[v] = "refused" <=> handler[v] = "refused"
  BY DEF ReleaseUpload, Goto, CInv, TypeOK
<1>2. CASE reservation[u] = "reserved"
  <2>1. reservation' = [reservation EXCEPT ![u] = "released"] /\ document[u] = "none"
    BY <1>2 DEF ReleaseUpload, CInv, TypeOK, RowInv
  <2>2. Pooled[u] \in {"held", "lapsed"}
    BY <1>2, ClaimsOfTables
  <2>3. /\ reservation'[u] = "released"
        /\ \A v \in Uploads : v # u => reservation'[v] = reservation[v]
    BY <2>1 DEF CInv, TypeOK
  <2>4. Pooled'[u] = "over" /\ \A v \in Uploads : v # u => Pooled'[v] = Pooled[v]
    BY <1>1, <2>1, <2>3 DEF Pooled, Claim
  <2>5. Pooled' = [Pooled EXCEPT ![u] = "over"]
    BY <2>4 DEF Pooled
  <2> QED  BY <2>2, <2>5 DEF Pool!Return, Pooled
<1>3. CASE reservation[u] # "reserved"
  <2>1. reservation' = reservation
    BY <1>3 DEF ReleaseUpload
  <2> QED  BY <1>1, <2>1 DEF Pooled, Claim
<1> QED  BY <1>2, <1>3

\* A delete returns what was kept, once.
LEMMA DeleteIsReturn ==
    ASSUME CInv, NEW x \in Deleters, DeleteRow(x)
    PROVE  \/ \E u \in Uploads : Pool!Return(u)
           \/ Pooled' = Pooled
<1>1. PICK u \in Uploads : u = deleter[x].doc /\ document[u] \in {"present", "deleted"}
  BY DEF DeleteRow, CInv, TypeOK, ReadInv
<1>2. /\ document' = [document EXCEPT ![u] = "deleted"]
      /\ UNCHANGED <<reservation, expired, handler>>
  BY <1>1 DEF DeleteRow
<1>3. Pooled' = [Pooled EXCEPT ![u] = "over"]
  BY <1>1, <1>2 DEF CInv, TypeOK, Pooled, Claim
<1>4. CASE document[u] = "present"
  <2>1. Pooled[u] = "kept"
    BY <1>4, ClaimsOfTables
  <2> QED  BY <1>3, <2>1 DEF Pool!Return, Pooled
<1>5. CASE document[u] = "deleted"
  <2>1. Pooled[u] = "over"
    BY <1>5, ClaimsOfTables
  <2> QED  BY <1>3, <2>1 DEF Pooled
<1> QED  BY <1>1, <1>4, <1>5

LEMMA RecoverIsRevoke ==
    ASSUME CInv, Recover
    PROVE  Pool!Revoke
<1>1. /\ reservation' = RecoveredReservation
      /\ UNCHANGED <<document, expired, handler>>
  BY DEF Recover
<1>2. ASSUME NEW v \in Uploads PROVE Pooled'[v] = Pool!Revoked[v]
  <2>1. CASE v \in Expired
    BY <1>1, <2>1, RecoveryRevokes DEF Pooled, Claim
  <2>2. CASE v \notin Expired
    BY <1>1, <2>2, RecoveryRevokes DEF Pooled, Claim
  <2> QED  BY <2>1, <2>2
<1>3. Pooled' = Pool!Revoked
  BY <1>2 DEF Pooled, Pool!Revoked
<1> QED  BY <1>3 DEF Pool!Revoke, Pooled

\* Steps that leave the claims alone.
LEMMA OthersKeepClaims ==
    ASSUME UNCHANGED <<document, reservation, expired>>,
           \A u \in Uploads : handler'[u] = "refused" <=> handler[u] = "refused"
    PROVE  Pooled' = Pooled
BY DEF Pooled, Claim

\* The usage row, the reservations and the documents implement the quota, for
\* any uploads of any sizes: a commit that is late, a release or a delete that
\* comes twice and a recovery at any moment are steps of it or invisible.
THEOREM UploadsImplementQuota == Spec => ImplementsQuota
<1>1. Init => Pool!Init
  BY DEF Init, Pool!Init, Claim
<1>2. Init => Unreserved
  BY DEF Init, Unreserved
<1>3. ASSUME CInv, Unreserved, [Next]_vars PROVE Pool!Next \/ Pooled' = Pooled
  <2> USE <1>3 DEF db, storage
  <2>1. ASSUME NEW u \in Uploads, UploadNext(u) \/ ClockNext(u)
        PROVE  Pool!Next \/ Pooled' = Pooled
    <3>1. ASSUME \/ PutTemporary(u) \/ PutRename(u) \/ PutFails(u)
                 \/ CommitFails(u) \/ DiscardFile(u) \/ UploadCrash(u) \/ FileAges(u)
          PROVE  Pooled' = Pooled
      <4>1. /\ UNCHANGED <<document, reservation, expired>>
            /\ \A v \in Uploads : handler'[v] = "refused" <=> handler[v] = "refused"
        BY <3>1 DEF PutTemporary, PutRename, PutFails, CommitFails, DiscardFile,
                    UploadCrash, FileAges, Goto, CInv, TypeOK
      <4> QED  BY <4>1, OthersKeepClaims
    <3> QED
      BY <2>1, <3>1, ReserveIsGrant, RefusalIsRefusal, ExpiryIsLapse, CommitIsKeep,
         ReleaseIsReturn DEF UploadNext, ClockNext, Pool!Next
  <2>2. ASSUME NEW x \in Deleters, DeleteNext(x) PROVE Pool!Next \/ Pooled' = Pooled
    <3>1. ASSUME (\E u \in Uploads : DeleteRead(x, u)) \/ DeleteFile(x) \/ DeleteCrash(x)
          PROVE  Pooled' = Pooled
      BY <3>1, OthersKeepClaims DEF DeleteRead, DeleteFile, DeleteCrash
    <3> QED  BY <2>2, <3>1, DeleteIsReturn DEF DeleteNext, Pool!Next
  <2>3. CASE BeginAnswer \/ OpenDocumentStore
    BY <2>3, RecoverIsRevoke DEF BeginAnswer, OpenDocumentStore, Pool!Next
  <2>4. CASE \/ ListObjects \/ (\E u \in Uploads : CheckReference(u))
             \/ DeleteOrphan \/ Serve \/ ReconcileFails \/ UNCHANGED vars
    BY <2>4, OthersKeepClaims
       DEF ListObjects, CheckReference, DeleteOrphan, Serve, ReconcileFails, vars
  <2> QED  BY <2>1, <2>2, <2>3, <2>4 DEF Next, ReconcileNext
<1>4. CInv /\ Unreserved /\ [Next]_vars => [Pool!Next]_Pooled
  BY <1>3
<1> QED
  BY <1>1, <1>2, <1>4, InitCounters, NextKeepsCounters, UnreservedKept, PTL
     DEF Spec, ImplementsQuota, Pool!Spec, Pooled
=============================================================================
