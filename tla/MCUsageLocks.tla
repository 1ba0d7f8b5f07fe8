---------------------------- MODULE MCUsageLocks ----------------------------
(* UsageLocks on a small instance; connections are interchangeable.         *)
EXTENDS UsageLocks, TLC

CONSTANTS c1, c2, c3

OneDocumentEach == <<1, 2>>

ConnectionSymmetry == Permutations(Connections)
=============================================================================
