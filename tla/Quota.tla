------------------------------- MODULE Quota -------------------------------
(***************************************************************************)
(* What a quota promises its owner, with no counters, reservations,        *)
(* handlers or crashes in it: a request is granted exactly when it fits    *)
(* beside the claims that are held or kept, a claim that has lapsed stands *)
(* against nobody and is still good for its own request until a later      *)
(* grant or a recovery takes it away, and what was taken away or returned  *)
(* never comes back.  UploadQuota and AnswerQuota implement it             *)
(* (UploadQuota!Pool, AnswerQuota!Pool).                                   *)
(***************************************************************************)

CONSTANTS
    Requests, \* what may be asked for
    Allowed   \* the sets of requests whose claims the quota has room for

VARIABLE claim \* what became of each request

Claims == {"none", "refused", "held", "lapsed", "kept", "over"}

Init == claim = [r \in Requests |-> "none"]

\* The claims that stand against a new request.
Granted == {r \in Requests : claim[r] \in {"held", "kept"}}

\* Lapsed claims are taken away, all of them together.
Revoked == [r \in Requests |-> IF claim[r] = "lapsed" THEN "over" ELSE claim[r]]

Grant(r) ==
    /\ claim[r] = "none"
    /\ Granted \cup {r} \in Allowed
    /\ claim' = [Revoked EXCEPT ![r] = "held"]

Refuse(r) ==
    /\ claim[r] = "none"
    /\ Granted \cup {r} \notin Allowed
    /\ claim' = [claim EXCEPT ![r] = "refused"]

Lapse(r) ==
    /\ claim[r] = "held"
    /\ claim' = [claim EXCEPT ![r] = "lapsed"]

\* What was claimed becomes permanent, even if the claim has lapsed.
Keep(r) ==
    /\ claim[r] \in {"held", "lapsed"}
    /\ claim' = [claim EXCEPT ![r] = "kept"]

Return(r) ==
    /\ claim[r] \in {"held", "lapsed", "kept"}
    /\ claim' = [claim EXCEPT ![r] = "over"]

Revoke == claim' = Revoked

Next ==
    \/ Revoke
    \/ \E r \in Requests :
          Grant(r) \/ Refuse(r) \/ Lapse(r) \/ Keep(r) \/ Return(r)

Spec == Init /\ [][Next]_claim

-----------------------------------------------------------------------------
(* Correctness.                                                             *)

\* The requests that have something of the pool: a lapsed claim too, which may
\* still be kept.
Holders == {r \in Requests : claim[r] \in {"held", "lapsed", "kept"}}

\* The quota is respected although lapsed claims do not stand against others
\* and may still be kept: no upload commits and no answer runs on a claim
\* whose room was given away (ReserveUpload, BeginAnswer).
WithinQuota == claim \in [Requests -> Claims] /\ Holders \in Allowed
=============================================================================
