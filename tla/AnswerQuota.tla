---------------------------- MODULE AnswerQuota ----------------------------
(***************************************************************************)
(* The answers that are generated for one owner at a time: the admission   *)
(* and the end of the handler Ask (src/api/documents.go) and the           *)
(* transactions on the owner's usage row and on the reservations of his    *)
(* answers (src/api/database.go).                                          *)
(*                                                                         *)
(* Every transaction locks the usage row of its owner first and holds it   *)
(* to the end, so it is one action.  Requests are served, and recoveries   *)
(* run, in several API instances at the same time.                         *)
(***************************************************************************)
EXTENDS Integers, FiniteSets

CONSTANTS
    Requests,        \* questions asked
    MaxActiveAnswers \* maxActiveAnswers

ASSUME RequestsAssumption == IsFiniteSet(Requests)
ASSUME LimitAssumption == MaxActiveAnswers \in Nat \ {0}

VARIABLES
    reservation,   \* the row of each request in answer_reservations
    expired,       \* whether it is past expires_at
    activeAnswers, \* active_answers in the owner's row of db_owner_usages
    handler,       \* where the Ask handler of each request is
    late           \* whether its generation context has timed out

vars == <<reservation, expired, activeAnswers, handler, late>>

Init ==
    /\ reservation = [r \in Requests |-> "none"]
    /\ expired = [r \in Requests |-> FALSE]
    /\ activeAnswers = 0
    /\ handler = [r \in Requests |-> "new"]
    /\ late = [r \in Requests |-> FALSE]

Goto(r, pc) == handler' = [handler EXCEPT ![r] = pc]

-----------------------------------------------------------------------------
(* Recovery.                                                                *)

Active == {r \in Requests : reservation[r] = "active"}
Unexpired == {r \in Active : ~expired[r]}

\* recoverExpiredReservations, for the answers of this owner.
RecoveredReservation ==
    [r \in Requests |-> IF r \in Active \ Unexpired THEN "expired" ELSE reservation[r]]

\* Mutant of RecoveredCount: the answers are counted before any expires.
RecoveredCount_stale == Cardinality(Active)

RecoveredCount == Cardinality(Unexpired)

\* Upload admissions and starting instances recover answers as well.
Recover ==
    /\ reservation' = RecoveredReservation
    /\ activeAnswers' = RecoveredCount
    /\ UNCHANGED <<expired, handler, late>>

-----------------------------------------------------------------------------
(* The Ask handler.                                                         *)

Admits(n) == n < MaxActiveAnswers

\* The transaction of BeginAnswer if it admits the request.
Reserve(r) ==
    /\ handler[r] = "new"
    /\ Admits(RecoveredCount)
    /\ reservation' = [RecoveredReservation EXCEPT ![r] = "active"]
    /\ activeAnswers' = RecoveredCount + 1
    /\ UNCHANGED <<expired, late>>

BeginAnswer(r) == Reserve(r) /\ Goto(r, "generating")

\* It commits but reports an error: the request is turned away, and nobody is
\* left to release its reservation.
BeginInDoubt(r) == Reserve(r) /\ Goto(r, "failed")

\* errQuotaExceeded rolls the recovery back.  (An error of the database before
\* the commit is answered alike and leaves things as if nobody had asked.)
RefuseAnswer(r) ==
    /\ handler[r] = "new"
    /\ ~Admits(RecoveredCount)
    /\ Goto(r, "refused")
    /\ UNCHANGED <<reservation, expired, activeAnswers, late>>

\* The answer is completed, or fails, or its context is done: the client has
\* left or the generation has timed out.
GenerationEnds(r) ==
    /\ handler[r] = "generating"
    /\ Goto(r, "ending")
    /\ UNCHANGED <<reservation, expired, activeAnswers, late>>

\* GREATEST(n - 1, 0)
OneLess(n) == IF n > 0 THEN n - 1 ELSE 0

\* Mutant of EndAnswer: the slot is given back in the counter only.
EndAnswer_counterOnly(r) ==
    /\ handler[r] = "ending"
    /\ activeAnswers' = OneLess(activeAnswers)
    /\ Goto(r, "ended")
    /\ UNCHANGED <<reservation, expired, late>>

\* Mutant of EndAnswer: the state of the reservation is not checked.
EndAnswer_unchecked(r) ==
    /\ handler[r] = "ending"
    /\ reservation' = [reservation EXCEPT ![r] = "released"]
    /\ activeAnswers' = OneLess(activeAnswers)
    /\ Goto(r, "ended")
    /\ UNCHANGED <<expired, late>>

\* The deferred EndAnswer: nothing to do if a recovery was first.
EndAnswer(r) ==
    /\ handler[r] = "ending"
    /\ \/ /\ reservation[r] = "active"
          /\ reservation' = [reservation EXCEPT ![r] = "released"]
          /\ activeAnswers' = OneLess(activeAnswers)
       \/ /\ reservation[r] # "active"
          /\ UNCHANGED <<reservation, activeAnswers>>
    /\ Goto(r, "ended")
    /\ UNCHANGED <<expired, late>>

\* The instance crashes, or EndAnswer fails, whose error is ignored: the
\* reservation stays.
AskCrash(r) ==
    /\ handler[r] \in {"generating", "ending"}
    /\ Goto(r, "failed")
    /\ UNCHANGED <<reservation, expired, activeAnswers, late>>

-----------------------------------------------------------------------------
(* The clock.                                                               *)

\* The context of the generation was created with the same timeout, before
\* the reservation, so that it times out before the reservation expires.
GenerationTimesOut(r) ==
    /\ handler[r] # "new"
    /\ ~late[r]
    /\ late' = [late EXCEPT ![r] = TRUE]
    /\ UNCHANGED <<reservation, expired, activeAnswers, handler>>

\* Mutant of ReservationExpires: the reservation lasts less than a generation.
ReservationExpires_early(r) ==
    /\ reservation[r] = "active"
    /\ ~expired[r]
    /\ expired' = [expired EXCEPT ![r] = TRUE]
    /\ UNCHANGED <<reservation, activeAnswers, handler, late>>

ReservationExpires(r) ==
    /\ reservation[r] = "active"
    /\ late[r]
    /\ ~expired[r]
    /\ expired' = [expired EXCEPT ![r] = TRUE]
    /\ UNCHANGED <<reservation, activeAnswers, handler, late>>

-----------------------------------------------------------------------------
AskNext(r) ==
    \/ BeginAnswer(r) \/ BeginInDoubt(r) \/ RefuseAnswer(r)
    \/ GenerationEnds(r) \/ EndAnswer(r) \/ AskCrash(r)
    \/ GenerationTimesOut(r) \/ ReservationExpires(r)

Next == Recover \/ \E r \in Requests : AskNext(r)

Spec == Init /\ [][Next]_vars

-----------------------------------------------------------------------------
(* Correctness.                                                             *)

\* Every variable keeps its type; in particular the counter never exceeds the
\* limit that it is compared with.
TypeOK ==
    /\ reservation \in [Requests -> {"none", "active", "released", "expired"}]
    /\ expired \in [Requests -> BOOLEAN]
    /\ activeAnswers \in 0 .. MaxActiveAnswers
    /\ handler \in [Requests -> {"new", "refused", "generating", "ending",
                                 "ended", "failed"}]
    /\ late \in [Requests -> BOOLEAN]

\* Answers that are being generated and have not timed out.
Generating == {r \in Requests : handler[r] = "generating" /\ ~late[r]}

\* However requests, timeouts, recoveries and crashes of several instances
\* interleave, an owner never has more answers generated at once than the
\* limit allows: no slot is given away while its answer still runs.
AnswerQuota == Cardinality(Generating) <= MaxActiveAnswers

\* The counter is exact: the late end of an answer whose reservation was
\* recovered takes no slot from an answer that was admitted since, and no
\* crash leaks one beyond its reservation.
CountIsExact == activeAnswers = Cardinality(Active)

\* Who may take a slot: the answer is under way, or was cut short, and its
\* reservation has not expired.
HoldsSlot(r) == handler[r] \in {"generating", "ending", "failed"} /\ ~expired[r]

\* A question is refused only if that many other requests hold the slots: an
\* answer that has ended blocks nobody, nor does, once it has expired, the
\* reservation that a crash or a lost reply left behind.
RefusedOnlyWhenBusy ==
    [][\A r \in Requests :
          handler[r] = "new" /\ handler'[r] = "refused"
              => Cardinality({q \in Requests : HoldsSlot(q)}) >= MaxActiveAnswers]_vars

\* The inductive invariant: every answer that is generated has an active
\* reservation, which cannot expire before the answer times out.
IInv ==
    /\ TypeOK
    /\ CountIsExact
    /\ Cardinality(Active) <= MaxActiveAnswers
    /\ \A r \in Requests :
          /\ handler[r] = "new" => reservation[r] = "none"
          /\ reservation[r] = "active" =>
                handler[r] \in {"generating", "ending", "failed"}
          /\ r \in Generating => reservation[r] = "active"
          /\ expired[r] => late[r]
          /\ reservation[r] = "none" => ~expired[r]

-----------------------------------------------------------------------------
(* The counter and its reservations implement a quota.                      *)

Claim(r) ==
    CASE reservation[r] = "active" /\ ~expired[r]      -> "held"
      [] reservation[r] = "active" /\ expired[r]       -> "lapsed"
      [] reservation[r] \in {"released", "expired"}    -> "over"
      [] reservation[r] = "none" /\ handler[r] = "refused" -> "refused"
      [] OTHER                                         -> "none"

Pool == INSTANCE Quota
    WITH claim <- [r \in Requests |-> Claim(r)],
         Allowed <- {S \in SUBSET Requests : Cardinality(S) <= MaxActiveAnswers}

\* Every step is a step of the quota or leaves it alone: although expired
\* reservations are only recovered when somebody asks, a question is admitted
\* exactly when it fits beside the unexpired ones, and the slot of an answer
\* that was recovered is never used or returned a second time.
ImplementsQuota == Pool!Spec
=============================================================================
