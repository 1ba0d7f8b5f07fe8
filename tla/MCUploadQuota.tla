--------------------------- MODULE MCUploadQuota ---------------------------
(* UploadQuota on small instances.  The second upload is larger, so that  *)
(* the quota of bytes and that of documents bind separately.              *)
EXTENDS UploadQuota, TLC

CONSTANTS u1, u2, x1, x2

MCSize == [u \in Uploads |-> IF u = u2 THEN 2 ELSE 1]
DeleterSymmetry == Permutations(Deleters)
=============================================================================
