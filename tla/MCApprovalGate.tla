--------------------------- MODULE MCApprovalGate ---------------------------
(***************************************************************************)
(* Values for the runs of ApprovalGate: a signal that is sent and, after   *)
(* its first message has ended, sent again under a new message.            *)
(***************************************************************************)
EXTENDS ApprovalGate

CONSTANTS r1, r2, s1

MCSignalOf == [r \in Requests |-> s1]
\* Two taps, or one when the calls overlap.
MCMaxTaps == [m \in Modes |-> IF m = "at once" THEN 1 ELSE 2]

=============================================================================
