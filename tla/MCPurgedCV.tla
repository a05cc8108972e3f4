----------------------------- MODULE MCPurgedCV -----------------------------
(* Instances of PurgedCV for TLC: every set of up to MaxEvents events on a *)
(* small grid of bars.                                                     *)
EXTENDS PurgedCV

\* PurgedKFold with two and three splits, and two of three and of four groups.
MCRecipes == {<<2, 1>>, <<3, 1>>, <<3, 2>>, <<4, 2>>}

=============================================================================
