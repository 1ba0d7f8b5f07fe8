---------------------------- MODULE JobLifecycle ----------------------------
(***************************************************************************)
(* What the processing queue promises the owner of a document, with no     *)
(* workers, leases, crashes or clocks in it: an accepted document is tried *)
(* at most MaxAttempts times, it leaves the queue completed, rejected or   *)
(* exhausted, and only an exhausted one can be submitted again.            *)
(* DocumentJobs implements it (DocumentJobs!Lifecycle).                    *)
(***************************************************************************)
EXTENDS Integers

CONSTANTS Docs, MaxAttempts

VARIABLES
    phase,  \* where each document is for its owner
    tries   \* the attempts made since it was last submitted

jobs == <<phase, tries>>

Phases == {"absent", "pending", "completed", "rejected", "exhausted", "deleted"}

Init ==
    /\ phase = [d \in Docs |-> "absent"]
    /\ tries = [d \in Docs |-> 0]

\* One document goes from phase p with n tries to phase q with m.
Move(d, p, q, m) == phase[d] = p /\ phase'[d] = q /\ tries'[d] = m

Submit(d)  == Move(d, "absent", "pending", 0)
Attempt(d) == tries[d] < MaxAttempts /\ Move(d, "pending", "pending", tries[d] + 1)
Finish(d)  == tries[d] > 0 /\ Move(d, "pending", "completed", tries[d])
Reject(d)  == tries[d] > 0 /\ Move(d, "pending", "rejected", tries[d])
GiveUp(d)  == tries[d] = MaxAttempts /\ Move(d, "pending", "exhausted", tries[d])
Reopen(d)  == Move(d, "exhausted", "pending", 0)
Remove(d)  == \E p \in Phases \ {"absent", "deleted"} : Move(d, p, "deleted", 0)

Step(d) ==
    \/ Submit(d) \/ Attempt(d)
    \/ Finish(d) \/ Reject(d) \/ GiveUp(d)
    \/ Reopen(d) \/ Remove(d)

Stays(d) == phase'[d] = phase[d] /\ tries'[d] = tries[d]

\* Documents move independently, and several may move at once: the sweep of
\* a claim gives up on every exhausted document in the same transaction.
Next ==
    /\ phase' \in [Docs -> Phases]
    /\ tries' \in [Docs -> 0 .. MaxAttempts]
    /\ \A d \in Docs : Step(d) \/ Stays(d)

Spec == Init /\ [][Next]_jobs
=============================================================================
