------------------------- MODULE AnswerQuota_proofs -------------------------
(***************************************************************************)
(* The limit on active answers, for any number of requests and any limit.  *)
(* The invariant ties the counter to the reservations and these to the     *)
(* answers that run: each has a reservation that outlasts it.              *)
(***************************************************************************)
EXTENDS AnswerQuota, FiniteSetTheorems, TLAPS

\* Every set of requests is finite, so that its size is a number.
LEMMA FiniteRequests ==
    ASSUME NEW S \in SUBSET Requests
    PROVE  IsFiniteSet(S) /\ Cardinality(S) \in Nat
<1>1. IsFiniteSet(S)
  BY RequestsAssumption, FS_Subset
<1> QED  BY <1>1, FS_CardinalityType

\* The part of the invariant that does not count.
Slots ==
    /\ reservation \in [Requests -> {"none", "active", "released", "expired"}]
    /\ expired \in [Requests -> BOOLEAN]
    /\ handler \in [Requests -> {"new", "refused", "generating", "ending",
                                 "ended", "failed"}]
    /\ late \in [Requests -> BOOLEAN]
    /\ \A r \in Requests :
          /\ handler[r] = "new" => reservation[r] = "none"
          /\ reservation[r] = "active" =>
                handler[r] \in {"generating", "ending", "failed"}
          /\ r \in Generating => reservation[r] = "active"
          /\ expired[r] => late[r]
          /\ reservation[r] = "none" => ~expired[r]

\* The counter agrees with the reservations, and both respect the limit.
Counted == CountIsExact /\ Cardinality(Active) <= MaxActiveAnswers

LEMMA Parts == IInv <=> Slots /\ Counted
<1>1. Active \in SUBSET Requests
  BY DEF Active
<1>2. Cardinality(Active) \in Nat
  BY <1>1, FiniteRequests
<1> QED
  BY <1>2, LimitAssumption DEF IInv, TypeOK, Slots, Counted, CountIsExact

\* A recovery leaves the unexpired reservations active, which are no more.
LEMMA RecoveryLeavesUnexpired ==
    ASSUME Slots, Counted
    PROVE  /\ RecoveredReservation \in
                 [Requests -> {"none", "active", "released", "expired"}]
           /\ {r \in Requests : RecoveredReservation[r] = "active"} = Unexpired
           /\ \A r \in Requests :
                 RecoveredReservation[r] # reservation[r] =>
                    /\ reservation[r] = "active" /\ expired[r]
                    /\ RecoveredReservation[r] = "expired"
           /\ RecoveredCount = Cardinality(Unexpired)
           /\ IsFiniteSet(Unexpired) /\ RecoveredCount \in 0 .. MaxActiveAnswers
<1>1. /\ RecoveredReservation \in [Requests -> {"none", "active", "released", "expired"}]
      /\ {r \in Requests : RecoveredReservation[r] = "active"} = Unexpired
      /\ \A r \in Requests :
            RecoveredReservation[r] # reservation[r] =>
               /\ reservation[r] = "active" /\ expired[r]
               /\ RecoveredReservation[r] = "expired"
  BY DEF Slots, RecoveredReservation, Active, Unexpired
<1>2. Unexpired \subseteq Active /\ Unexpired \in SUBSET Requests /\ Active \in SUBSET Requests
  BY DEF Active, Unexpired
<1>3. /\ IsFiniteSet(Unexpired) /\ IsFiniteSet(Active)
      /\ Cardinality(Unexpired) \in Nat /\ Cardinality(Active) \in Nat
  BY <1>2, FiniteRequests
<1>4. Cardinality(Unexpired) <= Cardinality(Active)
  BY <1>2, <1>3, FS_Subset
<1> QED  BY <1>1, <1>3, <1>4, LimitAssumption DEF RecoveredCount, Counted

\* A recovery by anybody.
LEMMA RecoverKeeps == Slots /\ Counted /\ Recover => Slots' /\ Counted'
<1> SUFFICES ASSUME Slots, Counted, Recover PROVE Slots' /\ Counted'
  OBVIOUS
<1>1. Active' = Unexpired
  BY RecoveryLeavesUnexpired DEF Recover, Active
<1>2. Counted'
  BY <1>1, RecoveryLeavesUnexpired, LimitAssumption DEF Recover, Counted, CountIsExact
<1>3. Slots'
  BY RecoveryLeavesUnexpired DEF Recover, Slots, Generating
<1> QED  BY <1>2, <1>3

\* An admission, whatever its request is told.
LEMMA ReserveKeeps ==
    ASSUME Slots, Counted, NEW r \in Requests, Reserve(r),
           Goto(r, "generating") \/ Goto(r, "failed")
    PROVE  Slots' /\ Counted'
<1>1. Active' = Unexpired \cup {r} /\ r \notin Unexpired
  BY RecoveryLeavesUnexpired DEF Reserve, Active, Unexpired, Slots
<1>2. Cardinality(Active') = RecoveredCount + 1
  BY <1>1, RecoveryLeavesUnexpired, FS_AddElement
<1>3. Counted'
  BY <1>2, RecoveryLeavesUnexpired, LimitAssumption DEF Reserve, Admits, Counted, CountIsExact
<1>4. Slots'
  BY RecoveryLeavesUnexpired DEF Reserve, Goto, Slots, Generating
<1> QED  BY <1>3, <1>4

\* The end of an answer gives its own slot back, or none.
LEMMA EndKeeps ==
    ASSUME Slots, Counted, NEW r \in Requests, EndAnswer(r)
    PROVE  Slots' /\ Counted'
<1>1. Slots'
  BY DEF EndAnswer, Goto, Slots, Generating
<1>2. CASE reservation[r] # "active"
  BY <1>1, <1>2 DEF EndAnswer, Counted, CountIsExact, Active
<1>3. CASE reservation[r] = "active"
  <2>1. Active' = Active \ {r} /\ r \in Active /\ Active \in SUBSET Requests
    BY <1>3 DEF EndAnswer, Slots, Active
  <2>2. IsFiniteSet(Active) /\ Cardinality(Active) \in Nat
    BY <2>1, FiniteRequests
  <2>3. Cardinality(Active') = Cardinality(Active) - 1 /\ Cardinality(Active) # 0
    BY <2>1, <2>2, FS_RemoveElement, FS_EmptySet
  <2>4. activeAnswers' = OneLess(activeAnswers)
    BY <1>3 DEF EndAnswer
  <2> QED
    BY <1>1, <2>2, <2>3, <2>4, LimitAssumption DEF OneLess, Counted, CountIsExact
<1> QED  BY <1>1, <1>2, <1>3

\* Steps that do not touch the reservations.
LEMMA OthersKeep ==
    ASSUME Slots, Counted, NEW r \in Requests,
           \/ RefuseAnswer(r) \/ GenerationEnds(r) \/ AskCrash(r)
           \/ GenerationTimesOut(r) \/ ReservationExpires(r)
    PROVE  Slots' /\ Counted'
<1>1. Counted'
  BY DEF RefuseAnswer, GenerationEnds, AskCrash, GenerationTimesOut, ReservationExpires,
         Counted, CountIsExact, Active
<1>2. Slots'
  BY DEF RefuseAnswer, GenerationEnds, AskCrash, GenerationTimesOut, ReservationExpires,
         Goto, Slots, Generating
<1> QED  BY <1>1, <1>2

\* IInv is an invariant of the handlers of any number of requests.
THEOREM SlotsAreCounted == Spec => []IInv
<1>1. Init => Slots /\ Counted
  <2> SUFFICES ASSUME Init PROVE Slots /\ Counted
    OBVIOUS
  <2>1. Active = {}
    BY DEF Init, Active
  <2>2. Counted
    BY <2>1, FS_EmptySet, LimitAssumption DEF Init, Counted, CountIsExact
  <2> QED  BY <2>2 DEF Init, Slots, Generating
<1>2. Slots /\ Counted /\ [Next]_vars => Slots' /\ Counted'
  <2> SUFFICES ASSUME Slots, Counted, [Next]_vars PROVE Slots' /\ Counted'
    OBVIOUS
  <2>1. CASE UNCHANGED vars
    BY <2>1 DEF vars, Slots, Counted, CountIsExact, Active, Generating
  <2>2. CASE Recover
    BY <2>2, RecoverKeeps
  <2>3. ASSUME NEW r \in Requests, AskNext(r) PROVE Slots' /\ Counted'
    BY <2>3, ReserveKeeps, EndKeeps, OthersKeep DEF AskNext, BeginAnswer, BeginInDoubt
  <2> QED  BY <2>1, <2>2, <2>3 DEF Next
<1> QED  BY <1>1, <1>2, Parts, PTL DEF Spec

\* An owner never has more answers generated at once than the limit allows.
THEOREM QuotaOfAnswers == Spec => []AnswerQuota
<1>1. IInv => AnswerQuota
  <2> SUFFICES ASSUME IInv PROVE AnswerQuota
    OBVIOUS
  <2>1. /\ Generating \subseteq Active
        /\ Generating \in SUBSET Requests /\ Active \in SUBSET Requests
    BY DEF IInv, Generating, Active
  <2>2. /\ IsFiniteSet(Active) /\ Cardinality(Active) \in Nat
        /\ Cardinality(Generating) \in Nat
    BY <2>1, FiniteRequests
  <2>3. Cardinality(Generating) <= Cardinality(Active)
    BY <2>1, <2>2, FS_Subset
  <2> QED  BY <2>2, <2>3, LimitAssumption DEF IInv, AnswerQuota
<1> QED  BY <1>1, SlotsAreCounted, PTL

\* The counter is the number of active reservations: no end of an answer, be
\* it late or after a recovery, and no crash makes it drift.
THEOREM CounterExact == Spec => []CountIsExact
<1>1. IInv => CountIsExact
  BY DEF IInv
<1> QED  BY <1>1, SlotsAreCounted, PTL

\* Types, and that the counter stays within the limit.
THEOREM AnswerTypes == Spec => []TypeOK
<1>1. IInv => TypeOK
  BY DEF IInv
<1> QED  BY <1>1, SlotsAreCounted, PTL

\* A question is only refused when that many other requests hold the slots.
THEOREM JustifiedRefusals == Spec => RefusedOnlyWhenBusy
<1>1. IInv /\ [Next]_vars =>
         [\A r \in Requests :
             handler[r] = "new" /\ handler'[r] = "refused"
                 => Cardinality({q \in Requests : HoldsSlot(q)}) >= MaxActiveAnswers]_vars
  <2> DEFINE Holders == {q \in Requests : HoldsSlot(q)}
  <2> SUFFICES ASSUME IInv, Next, NEW r \in Requests,
                      handler[r] = "new", handler'[r] = "refused"
               PROVE  Cardinality(Holders) >= MaxActiveAnswers
    OBVIOUS
  <2>1. ~Recover
    BY DEF Recover
  <2>2. PICK p \in Requests : AskNext(p)
    BY <2>1 DEF Next
  <2>3. RefuseAnswer(p)
    BY <2>2 DEF IInv, TypeOK, AskNext, BeginAnswer, BeginInDoubt, GenerationEnds,
                EndAnswer, AskCrash, GenerationTimesOut, ReservationExpires, Goto
  <2>4. Cardinality(Unexpired) >= MaxActiveAnswers
    <3>1. RecoveredCount \in Nat
      BY Parts, RecoveryLeavesUnexpired
    <3> QED
      BY <2>3, <3>1, LimitAssumption DEF RefuseAnswer, Admits, RecoveredCount
  <2>5. Unexpired \subseteq Holders /\ Holders \in SUBSET Requests
    BY DEF IInv, Unexpired, Active, HoldsSlot
  <2>6. /\ IsFiniteSet(Holders) /\ Cardinality(Holders) \in Nat
        /\ Cardinality(Unexpired) \in Nat
    BY <2>5, FiniteRequests
  <2>7. Cardinality(Unexpired) <= Cardinality(Holders)
    BY <2>5, <2>6, FS_Subset
  <2> QED  BY <2>4, <2>6, <2>7, LimitAssumption
<1> QED  BY <1>1, SlotsAreCounted, PTL DEF Spec, RefusedOnlyWhenBusy

-----------------------------------------------------------------------------
(* Refinement: the reservations implement a quota whose lapsed claims can   *)
(* be taken away.                                                           *)

Pooled == [r \in Requests |-> Claim(r)]

\* Where a claim stands against others, and where nothing has been claimed.
LEMMA ClaimsOfRows ==
    ASSUME Slots
    PROVE  /\ Pool!Granted = Unexpired
           /\ \A r \in Requests :
                 /\ handler[r] = "new" => Pooled[r] = "none"
                 /\ reservation[r] = "active" =>
                       Pooled[r] = IF expired[r] THEN "lapsed" ELSE "held"
                 /\ reservation[r] \in {"released", "expired"} => Pooled[r] = "over"
BY DEF Slots, Pool!Granted, Pooled, Claim, Unexpired, Active

\* The admission asks whether the claims allow for one more.
LEMMA AdmissionAsksQuota ==
    ASSUME Slots, Counted, NEW r \in Requests, handler[r] = "new"
    PROVE  Admits(RecoveredCount) <=>
              Pool!Granted \cup {r} \in
                 {S \in SUBSET Requests : Cardinality(S) <= MaxActiveAnswers}
<1>1. Unexpired \in SUBSET Requests /\ r \notin Unexpired
  BY DEF Slots, Unexpired, Active
<1>2. /\ IsFiniteSet(Unexpired) /\ RecoveredCount \in 0 .. MaxActiveAnswers
      /\ RecoveredCount = Cardinality(Unexpired)
  BY RecoveryLeavesUnexpired
<1>3. Cardinality(Unexpired \cup {r}) = Cardinality(Unexpired) + 1
  BY <1>1, <1>2, FS_AddElement
<1> QED
  BY <1>1, <1>2, <1>3, ClaimsOfRows, LimitAssumption DEF Admits

\* A recovery takes the lapsed claims away.
LEMMA RecoveryRevokes ==
    ASSUME Slots
    PROVE  /\ Pool!Revoked = [r \in Requests |-> IF Pooled[r] = "lapsed" THEN "over" ELSE Pooled[r]]
           /\ \A r \in Requests :
                 Pool!Revoked[r] =
                    CASE RecoveredReservation[r] = "active" /\ ~expired[r] -> "held"
                      [] RecoveredReservation[r] = "active" /\ expired[r] -> "lapsed"
                      [] RecoveredReservation[r] \in {"released", "expired"} -> "over"
                      [] RecoveredReservation[r] = "none" /\ handler[r] = "refused" -> "refused"
                      [] OTHER -> "none"
BY DEF Slots, Pool!Revoked, Pooled, Claim, RecoveredReservation, Unexpired, Active

LEMMA ReserveIsGrant ==
    ASSUME Slots, Counted, NEW r \in Requests, BeginAnswer(r) \/ BeginInDoubt(r)
    PROVE  Pool!Grant(r)
<1>1. /\ Reserve(r) /\ handler[r] = "new" /\ Admits(RecoveredCount)
      /\ reservation' = [RecoveredReservation EXCEPT ![r] = "active"]
      /\ expired' = expired
      /\ \E pc \in {"generating", "failed"} : handler' = [handler EXCEPT ![r] = pc]
  BY DEF BeginAnswer, BeginInDoubt, Reserve, Goto
<1>2. reservation[r] = "none" /\ ~expired[r] /\ Pooled[r] = "none"
  BY <1>1, ClaimsOfRows DEF Slots
<1>3. Pooled' = [Pool!Revoked EXCEPT ![r] = "held"]
  <2>1. /\ RecoveredReservation \in [Requests -> {"none", "active", "released", "expired"}]
        /\ RecoveredReservation = [q \in Requests |-> RecoveredReservation[q]]
    BY RecoveryLeavesUnexpired DEF RecoveredReservation
  <2>2. Pooled'[r] = "held"
    BY <1>1, <1>2, <2>1 DEF Pooled, Claim
  <2>3. ASSUME NEW q \in Requests, q # r PROVE Pooled'[q] = Pool!Revoked[q]
    BY <1>1, <2>1, <2>3, RecoveryRevokes DEF Pooled, Claim, Slots
  <2> QED  BY <2>2, <2>3, RecoveryRevokes DEF Pooled
<1>4. Pool!Granted \cup {r} \in
         {S \in SUBSET Requests : Cardinality(S) <= MaxActiveAnswers}
  BY <1>1, AdmissionAsksQuota
<1> QED  BY <1>2, <1>3, <1>4 DEF Pool!Grant, Pooled

LEMMA RefusalIsRefusal ==
    ASSUME Slots, Counted, NEW r \in Requests, RefuseAnswer(r)
    PROVE  Pool!Refuse(r)
<1>1. /\ handler[r] = "new" /\ ~Admits(RecoveredCount)
      /\ handler' = [handler EXCEPT ![r] = "refused"]
      /\ UNCHANGED <<reservation, expired>>
  BY DEF RefuseAnswer, Goto
<1>2. Pooled[r] = "none" /\ reservation[r] = "none"
  BY <1>1, ClaimsOfRows DEF Slots
<1>3. Pooled' = [Pooled EXCEPT ![r] = "refused"]
  BY <1>1, <1>2 DEF Slots, Pooled, Claim
<1>4. ~(Pool!Granted \cup {r} \in
         {S \in SUBSET Requests : Cardinality(S) <= MaxActiveAnswers})
  BY <1>1, AdmissionAsksQuota
<1> QED  BY <1>2, <1>3, <1>4 DEF Pool!Refuse, Pooled

LEMMA ExpiryIsLapse ==
    ASSUME Slots, NEW r \in Requests, ReservationExpires(r)
    PROVE  Pool!Lapse(r)
<1>1. /\ reservation[r] = "active" /\ ~expired[r]
      /\ expired' = [expired EXCEPT ![r] = TRUE]
      /\ UNCHANGED <<reservation, handler>>
  BY DEF ReservationExpires
<1>2. Pooled[r] = "held" /\ Pooled' = [Pooled EXCEPT ![r] = "lapsed"]
  BY <1>1 DEF Slots, Pooled, Claim
<1> QED  BY <1>2 DEF Pool!Lapse, Pooled

\* The end of an answer returns its claim, unless a recovery took it away.
LEMMA EndIsReturn ==
    ASSUME Slots, NEW r \in Requests, EndAnswer(r)
    PROVE  Pool!Return(r) \/ Pooled' = Pooled
<1>1. /\ handler[r] = "ending" /\ handler' = [handler EXCEPT ![r] = "ended"]
      /\ expired' = expired
  BY DEF EndAnswer, Goto
<1>2. CASE reservation[r] = "active"
  <2>1. reservation' = [reservation EXCEPT ![r] = "released"]
    BY <1>2 DEF EndAnswer
  <2>2. Pooled[r] \in {"held", "lapsed"} /\ Pooled' = [Pooled EXCEPT ![r] = "over"]
    BY <1>1, <1>2, <2>1 DEF Slots, Pooled, Claim
  <2> QED  BY <2>2 DEF Pool!Return, Pooled
<1>3. CASE reservation[r] # "active"
  <2>1. reservation' = reservation
    BY <1>3 DEF EndAnswer
  <2> QED  BY <1>1, <1>3, <2>1 DEF Slots, Pooled, Claim
<1> QED  BY <1>2, <1>3

\* The counter with its lazily recovered reservations implements the quota,
\* for any number of requests and any limit.
THEOREM AnswersImplementQuota == Spec => ImplementsQuota
<1>1. Init => Pool!Init
  BY DEF Init, Pool!Init, Claim
<1>2. ASSUME Slots, Counted, [Next]_vars PROVE Pool!Next \/ Pooled' = Pooled
  <2>1. ASSUME NEW r \in Requests, AskNext(r) PROVE Pool!Next \/ Pooled' = Pooled
    <3>1. ASSUME GenerationEnds(r) \/ AskCrash(r) \/ GenerationTimesOut(r)
          PROVE  Pooled' = Pooled
      <4>1. /\ UNCHANGED <<reservation, expired>>
            /\ \A q \in Requests : handler'[q] = "refused" <=> handler[q] = "refused"
        BY <1>2, <3>1 DEF GenerationEnds, AskCrash, GenerationTimesOut, Goto, Slots
      <4> QED  BY <4>1 DEF Pooled, Claim
    <3> QED
      BY <1>2, <2>1, <3>1, ReserveIsGrant, RefusalIsRefusal, ExpiryIsLapse, EndIsReturn
         DEF AskNext, Pool!Next
  <2>2. CASE Recover
    <3>1. Pooled' = Pool!Revoked
      BY <1>2, <2>2, RecoveryRevokes DEF Recover, Pooled, Claim
    <3> QED  BY <3>1 DEF Pool!Next, Pool!Revoke, Pooled
  <2>3. CASE UNCHANGED vars
    BY <2>3 DEF vars, Pooled, Claim
  <2> QED  BY <1>2, <2>1, <2>2, <2>3 DEF Next
<1>3. IInv /\ [Next]_vars => [Pool!Next]_Pooled
  BY <1>2, Parts
<1> QED
  BY <1>1, <1>3, SlotsAreCounted, PTL DEF Spec, ImplementsQuota, Pool!Spec, Pooled
=============================================================================
