--------------------------- MODULE MCAnswerStream ---------------------------
(* AnswerStream on a small instance.                                        *)
EXTENDS AnswerStream, TLC

CONSTANTS r1, r2

WatchedOne == {r1}
Tokens == r1 :> 2 @@ r2 :> 0
=============================================================================
