-------------------------- MODULE MCSampleWeights --------------------------
(* Constants for TLC: bars that move by one level, and the two rates of the *)
(* truncation regime at which a quarter and three quarters are zeroed.      *)
EXTENDS SampleWeights

MCMoves == {-1, 1}
MCTruncating == {-3, -1}

=============================================================================
