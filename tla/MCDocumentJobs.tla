--------------------------- MODULE MCDocumentJobs ---------------------------
(* DocumentJobs on small instances: the model values are those of the .cfg *)
(* files; workers run the same code and are interchangeable.               *)
EXTENDS DocumentJobs, TLC

CONSTANTS d1, d2, w1, w2, w3

WorkerSymmetry == Permutations(Workers)
=============================================================================
