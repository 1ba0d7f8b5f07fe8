--------------------------- MODULE MCAnswerQuota ---------------------------
(* AnswerQuota on small instances; requests are interchangeable.           *)
EXTENDS AnswerQuota, TLC

CONSTANTS r1, r2, r3, r4

RequestSymmetry == Permutations(Requests)
=============================================================================
