---------------------------- MODULE HitlPromise ----------------------------
(***************************************************************************)
(* What the human-in-the-loop gate promises its caller, with no clock, no  *)
(* network and no Telegram: a request gets one outcome, and the outcome is *)
(* a reviewer's decision only if the reviewer made that decision about     *)
(* that very request (notifications/telegram.py, module docstring: "No     *)
(* trade proceeds to execution without an explicit approve response").     *)
(***************************************************************************)

CONSTANTS Requests, Choices

VARIABLES tapped,    \* the <<request, choice>> pairs the reviewer has tapped
          outcome    \* what each request came to, "none" while undecided

vars == <<tapped, outcome>>

GivenUp == {"timeout", "raised"}

Init ==
  /\ tapped = {}
  /\ outcome = [r \in Requests |-> "none"]

\* The reviewer taps a button; a button may be tapped more than once.
Tap(r, c) ==
  /\ tapped' = tapped \union {<<r, c>>}
  /\ UNCHANGED outcome

\* The gate reports a decision the reviewer has made.
Decide(r, c) ==
  /\ outcome[r] = "none"
  /\ <<r, c>> \in tapped
  /\ outcome' = [outcome EXCEPT ![r] = c]
  /\ UNCHANGED tapped

\* The gate ends a request without a decision: not approved.
GiveUp(r) ==
  /\ outcome[r] = "none"
  /\ \E why \in GivenUp : outcome' = [outcome EXCEPT ![r] = why]
  /\ UNCHANGED tapped

Next ==
  \E r \in Requests :
    \/ \E c \in Choices : Tap(r, c) \/ Decide(r, c)
    \/ GiveUp(r)

Spec == Init /\ [][Next]_vars

=============================================================================
