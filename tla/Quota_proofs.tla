---------------------------- MODULE Quota_proofs ----------------------------
(***************************************************************************)
(* What any implementation of Quota inherits, for any requests and any     *)
(* quota under which fewer claims are allowed wherever more are.           *)
(***************************************************************************)
EXTENDS Quota, TLAPS

\* A step after which no more claims are held than before.
LEMMA FewerHolders ==
    ASSUME \A S \in Allowed : SUBSET S \subseteq Allowed, Holders \in Allowed,
           claim' \in [Requests -> Claims], Holders' \subseteq Holders
    PROVE  WithinQuota'
BY DEF WithinQuota

\* The quota is respected, lapsed claims that may still be kept included: a
\* grant does not count them, but takes all of them away.
THEOREM QuotaKept ==
    ASSUME \A S \in Allowed : SUBSET S \subseteq Allowed, {} \in Allowed
    PROVE  Spec => []WithinQuota
<1>1. Init => WithinQuota
  <2> SUFFICES ASSUME Init PROVE WithinQuota
    OBVIOUS
  <2>1. Holders = {}
    BY DEF Init, Holders
  <2> QED  BY <2>1 DEF Init, WithinQuota, Claims
<1>2. WithinQuota /\ [Next]_claim => WithinQuota'
  <2> SUFFICES ASSUME WithinQuota, [Next]_claim PROVE WithinQuota'
    OBVIOUS
  <2> USE DEF WithinQuota, Claims
  <2>1. ASSUME NEW r \in Requests, Grant(r) PROVE WithinQuota'
    <3>1. claim' \in [Requests -> Claims]
      BY <2>1 DEF Grant, Revoked
    <3>2. Holders' = Granted \cup {r}
      BY <2>1 DEF Grant, Revoked, Holders, Granted
    <3> QED  BY <2>1, <3>1, <3>2 DEF Grant
  <2>2. ASSUME NEW r \in Requests, Refuse(r) \/ Lapse(r) \/ Keep(r) \/ Return(r)
        PROVE  WithinQuota'
    <3>1. claim' \in [Requests -> Claims] /\ Holders' \subseteq Holders
      BY <2>2 DEF Refuse, Lapse, Keep, Return, Holders
    <3> QED  BY <3>1, FewerHolders
  <2>3. CASE Revoke
    <3>1. claim' \in [Requests -> Claims] /\ Holders' \subseteq Holders
      BY <2>3 DEF Revoke, Revoked, Holders
    <3> QED  BY <3>1, FewerHolders
  <2>4. CASE UNCHANGED claim
    BY <2>4 DEF Holders
  <2> QED  BY <2>1, <2>2, <2>3, <2>4 DEF Next
<1> QED  BY <1>1, <1>2, PTL DEF Spec
=============================================================================
