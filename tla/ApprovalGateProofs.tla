------------------------- MODULE ApprovalGateProofs -------------------------
(***************************************************************************)
(* Proofs about ApprovalGate for every set of requests, every timeout,     *)
(* latency and polling chunk, and any number of taps.                      *)
(***************************************************************************)
EXTENDS ApprovalGate, DataFacts

-----------------------------------------------------------------------------
(* What the helpers of the model return.                                   *)

\* Before the deadline the long poll's timeout fits in the time that remains.
LEMMA PollForFits ==
  ASSUME NEW r \in Requests, elapsed[r] \in Nat, ~Expired(r)
  PROVE  PollFor(r) \in 0 .. Timeout - elapsed[r]
<1> DEFINE remaining == Timeout - elapsed[r]
<1>1. remaining \in Nat
  BY ConstantsAssumption DEF Expired
<1>2. remaining % TicksPerSecond \in 0 .. remaining
  BY <1>1, ModBound, ConstantsAssumption
<1> QED
  BY <1>1, <1>2, ConstantsAssumption DEF PollFor, Lesser

\* The tap acted on is the first of the request's own in the reply.
LEMMA ActsOnFirst ==
  ASSUME TypeOK, NEW r \in Requests, Mine(r) # {}
  PROVE  /\ ActsOn(r) \in batch[r]
         /\ ActsOn(r) \in 1 .. Len(log)
         /\ log[ActsOn(r)].msg = r
         /\ \A j \in batch[r] : log[j].msg = r => ActsOn(r) <= j
<1>1. Mine(r) \in SUBSET (1 .. Len(log)) /\ Len(log) \in Nat
  BY DEF TypeOK, Mine
<1>2. \E i \in Mine(r) : \A j \in Mine(r) : i <= j
  BY <1>1, LeastExists
<1>3. ActsOn(r) \in Mine(r) /\ \A j \in Mine(r) : ActsOn(r) <= j
  BY <1>2 DEF ActsOn, Smallest
<1> QED
  BY <1>1, <1>3 DEF Mine

\* The offset is moved behind the last update of the reply.
LEMMA LargestIsLast ==
  ASSUME TypeOK, NEW r \in Requests, batch[r] # {}
  PROVE  /\ Largest(batch[r]) \in batch[r]
         /\ Largest(batch[r]) \in 1 .. Len(log)
         /\ \A j \in batch[r] : j <= Largest(batch[r])
<1>1. batch[r] \in SUBSET (1 .. Len(log)) /\ Len(log) \in Nat
  BY DEF TypeOK
<1>2. \E i \in batch[r] : \A j \in batch[r] : i >= j
  BY <1>1, GreatestExists
<1>3. Largest(batch[r]) \in batch[r] /\ \A j \in batch[r] : Largest(batch[r]) >= j
  BY <1>2 DEF Largest
<1> QED
  BY <1>1, <1>3

\* What a tap is made of.
LEMMA LogEntry ==
  ASSUME TypeOK, NEW i \in DOMAIN log
  PROVE  /\ i \in 1 .. Len(log)
         /\ log[i].msg \in Requests /\ log[i].choice \in Choices /\ log[i].at \in Nat
<1>1. i \in 1 .. Len(log) /\ log[i] \in Taps
  BY DEF TypeOK
<1> QED
  BY <1>1 DEF Taps

\* The head of the loop keeps the types of what it assigns.
LEMMA LoopHeadType ==
  ASSUME TypeOK, NEW r \in Requests, LoopHead(r)
  PROVE  /\ pc' \in [Requests -> PCs]
         /\ outcome' \in [Requests -> Outcomes]
         /\ due' \in [Requests -> Nat]
         /\ hold' \in [Requests -> Nat]
<1>1. CASE Expired(r)
  <2>1. /\ pc' = [pc EXCEPT ![r] = "editing"]
        /\ outcome' = [outcome EXCEPT ![r] = "timeout"]
        /\ due' = [due EXCEPT ![r] = 0]
        /\ hold' = [hold EXCEPT ![r] = 0]
    BY <1>1 DEF LoopHead
  <2> QED
    BY <2>1 DEF TypeOK, PCs, Outcomes
<1>2. CASE ~Expired(r)
  <2>1. PollFor(r) \in Nat
    BY <1>2, PollForFits DEF TypeOK
  <2>2. /\ pc' = [pc EXCEPT ![r] = "polling"]
        /\ due' = [due EXCEPT ![r] = PollFor(r) + Latency]
        /\ hold' = [hold EXCEPT ![r] = PollFor(r)]
        /\ outcome' = outcome
    BY <1>2 DEF LoopHead
  <2> QED
    BY <1>2, <2>1, <2>2, ConstantsAssumption DEF TypeOK, PCs, Awaits
<1> QED
  BY <1>1, <1>2

\* The head of the loop touches its own request only, and goes one of two ways.
LEMMA LoopHeadFrame ==
  ASSUME TypeOK, NEW r \in Requests, LoopHead(r)
  PROVE  /\ \A q \in Requests \ {r} : /\ pc'[q] = pc[q] /\ outcome'[q] = outcome[q]
                                     /\ due'[q] = due[q] /\ hold'[q] = hold[q]
         /\ \/ /\ Expired(r)
               /\ pc'[r] = "editing" /\ outcome'[r] = "timeout" /\ due'[r] = 0
            \/ /\ ~Expired(r)
               /\ pc'[r] = "polling" /\ outcome'[r] = outcome[r]
               /\ due'[r] = PollFor(r) + Latency
BY DEF TypeOK, LoopHead

-----------------------------------------------------------------------------
(* The inductive invariant, in parts.                                      *)

\* A request acts on nothing before it has polled and then on its own tap,
\* which is where its decision comes from.
OwnTap(r) ==
  /\ pc[r] \in {"idle", "sending", "polling", "replied"} =>
       pick[r] = 0 /\ outcome[r] = "none"
  /\ pc[r] = "answering" => pick[r] # 0 /\ outcome[r] = "none"
  /\ pick[r] # 0 => log[pick[r]].msg = r
  /\ outcome[r] \in Choices => pick[r] # 0 /\ log[pick[r]].choice = outcome[r]

OwnTapInv == \A r \in Requests : OwnTap(r)

\* How old a request can be at each await, given what is left of the call it
\* waits for; a tap is no older than the request, and one that is acted on
\* came in while the request was still polling.
Timely(r) ==
  /\ pc[r] = "idle" => elapsed[r] = 0
  /\ pc[r] = "sending" => elapsed[r] + due[r] <= Latency
  /\ pc[r] \in {"polling", "replied"} => elapsed[r] + due[r] <= Timeout + Latency
  /\ pc[r] = "answering" => elapsed[r] + due[r] <= Timeout + 2 * Latency
  /\ elapsed[r] <= Timeout + 2 * Latency
  /\ \A i \in DOMAIN log : log[i].msg = r => log[i].at <= elapsed[r]
  /\ pick[r] # 0 => log[pick[r]].at <= Timeout + Latency

TimelyInv == \A r \in Requests : Timely(r)

\* While a request has not acted, no tap on its message is forgotten by the
\* server, passed over by its offset, or missing from a reply that holds a
\* later one; and before it is sent there is none.
Unread(r) ==
  /\ pc[r] = "idle" => ~shown[r] /\ \A i \in DOMAIN log : log[i].msg # r
  /\ pc[r] \in {"sending", "polling", "replied"} =>
       /\ \A i \in 1 .. confirmed : log[i].msg # r
       /\ \A i \in 1 .. offset[r] - 1 : log[i].msg # r
  /\ pc[r] = "replied" =>
       \A j \in batch[r] : \A i \in 1 .. j : i \in batch[r] \/ log[i].msg # r
  /\ pick[r] # 0 => \A i \in 1 .. pick[r] - 1 : log[i].msg # r

Alone == \A q, r \in Requests : InFlight(q) /\ InFlight(r) => q = r

UnreadInv == Alone /\ \A r \in Requests : Unread(r)

-----------------------------------------------------------------------------
(* Type correctness.                                                       *)

LEMMA InitType == Init => TypeOK
BY DEF Init, TypeOK, PCs, Outcomes

LEMMA NextType == TypeOK /\ OwnTapInv /\ [Next]_vars => TypeOK'
<1> SUFFICES ASSUME TypeOK, OwnTapInv, [Next]_vars
             PROVE  TypeOK'
  OBVIOUS
<1>1. ASSUME NEW r \in Requests, Start(r)
      PROVE  TypeOK'
  BY <1>1, ConstantsAssumption DEF TypeOK, Start, PCs, Awaits, serverVars
<1>2. ASSUME NEW r \in Requests, Deliver(r)
      PROVE  TypeOK'
  BY <1>2 DEF TypeOK, Deliver, clientVars, callVars
<1>3. ASSUME NEW r \in Requests, SendReturns(r)
      PROVE  TypeOK'
  BY <1>3, LoopHeadType DEF TypeOK, SendReturns, serverVars
<1>4. ASSUME NEW r \in Requests, SendFails(r)
      PROVE  TypeOK'
  BY <1>4 DEF TypeOK, SendFails, PCs, Ended, Outcomes, serverVars
<1>5. ASSUME NEW r \in Requests, Reply(r)
      PROVE  TypeOK'
  BY <1>5, ConstantsAssumption
     DEF TypeOK, Reply, PCs, Awaits, Greater, Lesser
<1>6. ASSUME NEW r \in Requests, PollFails(r)
      PROVE  TypeOK'
  BY <1>6, LoopHeadType DEF TypeOK, PollFails, serverVars
<1>7. ASSUME NEW r \in Requests, ReceiveNone(r)
      PROVE  TypeOK'
  <2>1. offset' \in [Requests -> 1 .. Len(log) + 1]
    <3>1. CASE batch[r] = {}
      <4>1. offset' = offset /\ log' = log
        BY <1>7, <3>1 DEF ReceiveNone, serverVars
      <4> QED
        BY <4>1 DEF TypeOK
    <3>2. CASE batch[r] # {}
      <4>1. Largest(batch[r]) + 1 \in 1 .. Len(log) + 1
        <5>1. Len(log) \in Nat
          BY DEF TypeOK
        <5> QED
          BY <3>2, <5>1, LargestIsLast
      <4>2. offset' = [offset EXCEPT ![r] = Largest(batch[r]) + 1]
        BY <1>7, <3>2 DEF ReceiveNone, Beyond
      <4> QED
        BY <4>1, <4>2 DEF TypeOK
    <3> QED
      BY <3>1, <3>2
  <2>2. /\ batch' = [batch EXCEPT ![r] = {}]
        /\ LoopHead(r)
        /\ UNCHANGED <<mode, elapsed, pick, shown, log, confirmed, flaky>>
    BY <1>7 DEF ReceiveNone, serverVars
  <2> QED
    BY <2>1, <2>2, LoopHeadType DEF TypeOK
<1>8. ASSUME NEW r \in Requests, ReceiveTap(r)
      PROVE  TypeOK'
  <2>1. ActsOn(r) \in 1 .. Len(log)
    BY <1>8, ActsOnFirst DEF ReceiveTap
  <2>2. /\ pick' = [pick EXCEPT ![r] = ActsOn(r)]
        /\ offset' = [offset EXCEPT ![r] = ActsOn(r) + 1]
        /\ batch' = [batch EXCEPT ![r] = {}]
        /\ due' = [due EXCEPT ![r] = Latency]
        /\ pc' = [pc EXCEPT ![r] = "answering"]
        /\ UNCHANGED <<mode, elapsed, outcome, hold, shown, log, confirmed, flaky>>
    BY <1>8 DEF ReceiveTap, Beyond, serverVars
  <2> QED
    BY <2>1, <2>2, ConstantsAssumption DEF TypeOK, PCs, Awaits
<1>9. ASSUME NEW r \in Requests, AnswerReturns(r)
      PROVE  TypeOK'
  <2>1. outcome' \in [Requests -> Outcomes]
    <3>1. pick[r] \in 1 .. Len(log)
      BY <1>9 DEF AnswerReturns, TypeOK, OwnTapInv, OwnTap
    <3>2. log[pick[r]] \in Taps
      BY <3>1 DEF TypeOK
    <3>3. log[pick[r]].choice \in Outcomes
      BY <3>2 DEF Taps, Outcomes
    <3> QED
      BY <1>9, <3>3 DEF AnswerReturns, TypeOK
  <2>2. /\ pc' = [pc EXCEPT ![r] = "editing"]
        /\ due' = [due EXCEPT ![r] = 0]
        /\ UNCHANGED <<mode, elapsed, offset, pick, hold, batch, shown, log, confirmed,
                       flaky>>
    BY <1>9 DEF AnswerReturns, serverVars
  <2> QED
    BY <2>1, <2>2 DEF TypeOK, PCs
<1>10. ASSUME NEW r \in Requests, AnswerFails(r)
       PROVE  TypeOK'
  BY <1>10 DEF TypeOK, AnswerFails, PCs, Ended, Outcomes, serverVars
<1>11. ASSUME NEW r \in Requests, EditReturns(r)
       PROVE  TypeOK'
  BY <1>11 DEF TypeOK, EditReturns, PCs, Ended, callVars
<1>12. ASSUME NEW r \in Requests, EditFails(r)
       PROVE  TypeOK'
  BY <1>12 DEF TypeOK, EditFails, PCs, Ended, callVars, serverVars
<1>13. ASSUME NEW r \in Requests, NEW c \in Choices, Tap(r, c)
       PROVE  TypeOK'
  <2>1. log' = Append(log, [msg |-> r, choice |-> c, signal |-> SignalOf[r],
                            at |-> elapsed[r]])
    BY <1>13 DEF Tap
  <2>2. [msg |-> r, choice |-> c, signal |-> SignalOf[r], at |-> elapsed[r]] \in Taps
    BY <1>13, ConstantsAssumption DEF TypeOK, Taps
  <2>3. log' \in Seq(Taps) /\ Len(log') = Len(log) + 1 /\ Len(log) \in Nat
    BY <2>1, <2>2 DEF TypeOK
  <2>4. UNCHANGED <<mode, pc, elapsed, offset, pick, outcome, due, hold, batch, shown,
                    confirmed, flaky>>
    BY <1>13 DEF Tap, clientVars, callVars
  <2> QED
    BY <2>3, <2>4 DEF TypeOK
<1>14. CASE Tick
  <2>1. elapsed' \in [Requests -> Nat]
    BY <1>14, ConstantsAssumption DEF TypeOK, Tick, Lesser, Horizon
  <2>2. due' \in [Requests -> Nat]
    BY <1>14 DEF TypeOK, Tick
  <2>3. hold' \in [Requests -> Nat]
    BY <1>14 DEF TypeOK, Tick
  <2>4. UNCHANGED <<mode, pc, offset, pick, outcome, batch, shown, log, confirmed, flaky>>
    BY <1>14 DEF Tick, serverVars
  <2> QED
    BY <2>1, <2>2, <2>3, <2>4 DEF TypeOK
<1>15. CASE UNCHANGED vars
  BY <1>15 DEF TypeOK, vars, clientVars, callVars, serverVars
<1> QED
  BY <1>1, <1>2, <1>3, <1>4, <1>5, <1>6, <1>7, <1>8, <1>9, <1>10, <1>11, <1>12,
     <1>13, <1>14, <1>15 DEF Next, Step

-----------------------------------------------------------------------------
(* What a request acts on is a tap on its own message.                     *)

LEMMA InitOwnTap == Init => OwnTapInv
BY DEF Init, OwnTapInv, OwnTap, Choices

LEMMA NextOwnTap == TypeOK /\ OwnTapInv /\ [Next]_vars => OwnTapInv'
<1> SUFFICES ASSUME TypeOK, OwnTapInv, [Next]_vars, NEW q \in Requests
             PROVE  OwnTap(q)'
  BY DEF OwnTapInv
<1>0. OwnTap(q)
  BY DEF OwnTapInv
<1>1. ASSUME NEW r \in Requests, Start(r)
      PROVE  OwnTap(q)'
  BY <1>0, <1>1 DEF TypeOK, OwnTap, Start, serverVars
<1>2. ASSUME NEW r \in Requests, Deliver(r)
      PROVE  OwnTap(q)'
  BY <1>0, <1>2 DEF OwnTap, Deliver, clientVars
<1>3. ASSUME NEW r \in Requests, SendReturns(r)
      PROVE  OwnTap(q)'
  BY <1>0, <1>3, LoopHeadFrame DEF OwnTap, SendReturns, serverVars, Choices
<1>4. ASSUME NEW r \in Requests, SendFails(r)
      PROVE  OwnTap(q)'
  BY <1>0, <1>4 DEF TypeOK, OwnTap, SendFails, serverVars, Choices
<1>5. ASSUME NEW r \in Requests, Reply(r)
      PROVE  OwnTap(q)'
  BY <1>0, <1>5 DEF TypeOK, OwnTap, Reply
<1>6. ASSUME NEW r \in Requests, PollFails(r)
      PROVE  OwnTap(q)'
  BY <1>0, <1>6, LoopHeadFrame DEF OwnTap, PollFails, serverVars, Choices
<1>7. ASSUME NEW r \in Requests, ReceiveNone(r)
      PROVE  OwnTap(q)'
  BY <1>0, <1>7, LoopHeadFrame DEF OwnTap, ReceiveNone, serverVars, Choices
<1>8. ASSUME NEW r \in Requests, ReceiveTap(r)
      PROVE  OwnTap(q)'
  <2>1. ActsOn(r) \in 1 .. Len(log) /\ log[ActsOn(r)].msg = r
    BY <1>8, ActsOnFirst DEF ReceiveTap
  <2> QED
    BY <1>0, <1>8, <2>1 DEF TypeOK, OwnTap, ReceiveTap, serverVars, Choices
<1>9. ASSUME NEW r \in Requests, AnswerReturns(r)
      PROVE  OwnTap(q)'
  BY <1>0, <1>9 DEF TypeOK, OwnTap, AnswerReturns, serverVars
<1>10. ASSUME NEW r \in Requests, AnswerFails(r)
       PROVE  OwnTap(q)'
  BY <1>0, <1>10 DEF TypeOK, OwnTap, AnswerFails, serverVars, Choices
<1>11. ASSUME NEW r \in Requests, EditReturns(r)
       PROVE  OwnTap(q)'
  BY <1>0, <1>11 DEF TypeOK, OwnTap, EditReturns
<1>12. ASSUME NEW r \in Requests, EditFails(r)
       PROVE  OwnTap(q)'
  BY <1>0, <1>12 DEF TypeOK, OwnTap, EditFails, serverVars
<1>13. ASSUME NEW r \in Requests, NEW c \in Choices, Tap(r, c)
       PROVE  OwnTap(q)'
  <2>1. pick[q] # 0 => log'[pick[q]] = log[pick[q]]
    BY <1>13 DEF TypeOK, Tap
  <2> QED
    BY <1>0, <1>13, <2>1 DEF OwnTap, Tap, clientVars
<1>14. CASE Tick
  BY <1>0, <1>14 DEF OwnTap, Tick, serverVars
<1>15. CASE UNCHANGED vars
  BY <1>0, <1>15 DEF OwnTap, vars, clientVars, serverVars
<1> QED
  BY <1>1, <1>2, <1>3, <1>4, <1>5, <1>6, <1>7, <1>8, <1>9, <1>10, <1>11, <1>12,
     <1>13, <1>14, <1>15 DEF Next, Step

LEMMA TypedOwnTap == Spec => [](TypeOK /\ OwnTapInv)
<1> QED
  BY InitType, InitOwnTap, NextType, NextOwnTap, PTL DEF Spec

\* Every state of the gate is well typed (telegram.py:81-205).
THEOREM TypeCorrect == Spec => []TypeOK
BY TypedOwnTap, PTL

\* Whoever else polls the bot and whatever is redelivered, a decision is one
\* the reviewer made on this request's own message (telegram.py:193-205).
THEOREM OwnTapDecides == Spec => []DecidedByOwnTap
<1>1. TypeOK /\ OwnTapInv => DecidedByOwnTap
  BY DEF TypeOK, OwnTapInv, OwnTap, DecidedByOwnTap
<1> QED
  BY <1>1, TypedOwnTap, PTL

-----------------------------------------------------------------------------
(* The gate decides in time.                                               *)

LEMMA InitTimely == Init => TimelyInv
BY ConstantsAssumption DEF Init, TimelyInv, Timely

LEMMA LoopHeadTimely ==
  ASSUME TypeOK, NEW r \in Requests, LoopHead(r), elapsed[r] <= Timeout + 2 * Latency
  PROVE  \/ pc'[r] = "editing"
         \/ pc'[r] = "polling" /\ elapsed[r] + due'[r] <= Timeout + Latency
<1>1. CASE Expired(r)
  BY <1>1, LoopHeadFrame
<1>2. CASE ~Expired(r)
  <2>1. PollFor(r) \in 0 .. Timeout - elapsed[r]
    BY <1>2, PollForFits DEF TypeOK
  <2>2. elapsed[r] \in Nat
    BY DEF TypeOK
  <2> QED
    BY <1>2, <2>1, <2>2, LoopHeadFrame, ConstantsAssumption
<1> QED
  BY <1>1, <1>2

LEMMA NextTimely == TypeOK /\ TimelyInv /\ [Next]_vars => TimelyInv'
<1> SUFFICES ASSUME TypeOK, TimelyInv, [Next]_vars, NEW q \in Requests
             PROVE  Timely(q)'
  BY DEF TimelyInv
<1> USE ConstantsAssumption
<1>0. Timely(q) /\ elapsed[q] \in Nat /\ due[q] \in Nat
  BY DEF TimelyInv, TypeOK
<1>1. ASSUME NEW r \in Requests, Start(r)
      PROVE  Timely(q)'
  BY <1>0, <1>1 DEF TypeOK, Timely, Start, serverVars
<1>2. ASSUME NEW r \in Requests, Deliver(r)
      PROVE  Timely(q)'
  BY <1>0, <1>2 DEF Timely, Deliver, clientVars, callVars
<1>3. ASSUME NEW r \in Requests, SendReturns(r)
      PROVE  Timely(q)'
  BY <1>0, <1>3, LoopHeadFrame, LoopHeadTimely DEF Timely, SendReturns, serverVars
<1>4. ASSUME NEW r \in Requests, SendFails(r)
      PROVE  Timely(q)'
  BY <1>0, <1>4 DEF TypeOK, Timely, SendFails, serverVars
<1>5. ASSUME NEW r \in Requests, Reply(r)
      PROVE  Timely(q)'
  BY <1>0, <1>5 DEF TypeOK, Timely, Reply, Lesser
<1>6. ASSUME NEW r \in Requests, PollFails(r)
      PROVE  Timely(q)'
  BY <1>0, <1>6, LoopHeadFrame, LoopHeadTimely DEF Timely, PollFails, serverVars
<1>7. ASSUME NEW r \in Requests, ReceiveNone(r)
      PROVE  Timely(q)'
  BY <1>0, <1>7, LoopHeadFrame, LoopHeadTimely DEF Timely, ReceiveNone, serverVars
<1>8. ASSUME NEW r \in Requests, ReceiveTap(r)
      PROVE  Timely(q)'
  <2>1. ActsOn(r) \in 1 .. Len(log) /\ log[ActsOn(r)].msg = r
    BY <1>8, ActsOnFirst DEF ReceiveTap
  <2>2. log[ActsOn(r)].at \in Nat /\ elapsed[r] \in Nat /\ due[r] \in Nat
    <3>1. ActsOn(r) \in DOMAIN log
      BY <2>1 DEF TypeOK
    <3> QED
      BY <3>1, LogEntry DEF TypeOK
  <2>3. elapsed[r] <= Timeout + Latency /\ log[ActsOn(r)].at <= elapsed[r]
    <3>1. Timely(r) /\ pc[r] = "replied" /\ ActsOn(r) \in DOMAIN log
      BY <1>8, <2>1 DEF ReceiveTap, TimelyInv, TypeOK
    <3> QED
      BY <2>1, <2>2, <3>1 DEF Timely
  <2>4. /\ pc'[r] = "answering" /\ pick'[r] = ActsOn(r) /\ due'[r] = Latency
        /\ \A p \in Requests \ {r} : /\ pc'[p] = pc[p] /\ pick'[p] = pick[p]
                                    /\ due'[p] = due[p]
        /\ elapsed' = elapsed /\ log' = log
    BY <1>8 DEF TypeOK, ReceiveTap, serverVars
  <2>5. CASE q = r
    BY <1>0, <2>2, <2>3, <2>4, <2>5, ConstantsAssumption DEF Timely
  <2>6. CASE q # r
    BY <1>0, <2>4, <2>6 DEF Timely
  <2> QED
    BY <2>5, <2>6
<1>9. ASSUME NEW r \in Requests, AnswerReturns(r)
      PROVE  Timely(q)'
  BY <1>0, <1>9 DEF TypeOK, Timely, AnswerReturns, serverVars
<1>10. ASSUME NEW r \in Requests, AnswerFails(r)
       PROVE  Timely(q)'
  BY <1>0, <1>10 DEF TypeOK, Timely, AnswerFails, serverVars
<1>11. ASSUME NEW r \in Requests, EditReturns(r)
       PROVE  Timely(q)'
  BY <1>0, <1>11 DEF TypeOK, Timely, EditReturns, callVars
<1>12. ASSUME NEW r \in Requests, EditFails(r)
       PROVE  Timely(q)'
  BY <1>0, <1>12 DEF TypeOK, Timely, EditFails, callVars, serverVars
<1>13. ASSUME NEW r \in Requests, NEW c \in Choices, Tap(r, c)
       PROVE  Timely(q)'
  <2>1. \A i \in DOMAIN log' :
          \/ i \in DOMAIN log /\ log'[i] = log[i]
          \/ log'[i].msg = r /\ log'[i].at = elapsed[r]
    <3>1. log \in Seq(Taps)
      BY DEF TypeOK
    <3>2. log' = Append(log, [msg |-> r, choice |-> c, signal |-> SignalOf[r],
                              at |-> elapsed[r]])
      BY <1>13 DEF Tap
    <3> QED
      BY <3>1, <3>2
  <2>2. pick[q] # 0 => pick[q] \in DOMAIN log /\ log'[pick[q]] = log[pick[q]]
    BY <1>13 DEF TypeOK, Tap
  <2>3. UNCHANGED <<pc, elapsed, pick, due>>
    BY <1>13 DEF Tap, clientVars, callVars
  <2>4. elapsed[r] \in Nat
    BY <1>13 DEF TypeOK
  <2> QED
    BY <1>0, <2>1, <2>2, <2>3, <2>4 DEF Timely
<1>14. CASE Tick
  <2>1. CASE pc[q] \in Awaits
    <3>1. elapsed[q] + 1 <= Timeout + 2 * Latency
      BY <1>0, <1>14, <2>1 DEF Tick, Timely, Awaits
    <3>2. elapsed'[q] = elapsed[q] + 1 /\ due'[q] = due[q] - 1
      BY <1>0, <1>14, <2>1, <3>1 DEF Tick, Lesser, Horizon
    <3>3. \A i \in DOMAIN log : log[i].at \in Nat
      BY LogEntry
    <3> QED
      BY <1>0, <1>14, <2>1, <3>1, <3>2, <3>3 DEF Timely, Tick, Awaits, serverVars
  <2>2. CASE pc[q] \notin Awaits
    BY <1>0, <1>14, <2>2 DEF Timely, Tick, Awaits, serverVars
  <2> QED
    BY <2>1, <2>2
<1>15. CASE UNCHANGED vars
  BY <1>0, <1>15 DEF Timely, vars, clientVars, callVars, serverVars
<1> QED
  BY <1>1, <1>2, <1>3, <1>4, <1>5, <1>6, <1>7, <1>8, <1>9, <1>10, <1>11, <1>12,
     <1>13, <1>14, <1>15 DEF Next, Step

\* An undecided request is never older than the deadline and two calls to
\* Telegram, and acts on no tap later than one call after the deadline
\* (the poll timeout is cut to what remains, telegram.py:175).
THEOREM InTime == Spec => []DecidesInTime
<1>1. TimelyInv => DecidesInTime
  BY DEF TimelyInv, Timely, DecidesInTime
<1> QED
  BY <1>1, TypedOwnTap, InitTimely, NextTimely, PTL DEF Spec

-----------------------------------------------------------------------------
(* Requests one after the other: the first tap wins.                       *)

\* Whether requests may overlap does not change.
LEMMA ModeStays == [Next]_vars => (Concurrent' <=> Concurrent)
<1> SUFFICES ASSUME [Next]_vars PROVE mode' = mode
  BY DEF Concurrent
<1>1. ASSUME NEW r \in Requests, Start(r) \/ Step(r)
      PROVE  mode' = mode
  BY <1>1 DEF Start, Step, Deliver, SendReturns, SendFails, Reply, PollFails, ReceiveNone,
              ReceiveTap, AnswerReturns, AnswerFails, EditReturns, EditFails
<1> QED
  BY <1>1 DEF Next, Tap, Tick, vars

LEMMA InitUnread == Init => UnreadInv
BY DEF Init, UnreadInv, Unread, Alone, InFlight, Ended

LEMMA NextAlone ==
  ASSUME ~Concurrent, TypeOK, Alone, [Next]_vars
  PROVE  Alone'
<1>1. ASSUME NEW r \in Requests, Start(r)
      PROVE  Alone'
  BY <1>1 DEF TypeOK, Alone, InFlight, Start, Ended
<1>2. ASSUME \A q \in Requests : InFlight(q)' => InFlight(q)
      PROVE  Alone'
  BY <1>2 DEF Alone
<1>3. ASSUME NEW r \in Requests, Step(r), NEW q \in Requests, InFlight(q)'
      PROVE  InFlight(q)
  <2>1. pc[r] \in {"sending", "polling", "replied", "answering", "editing"}
    BY <1>3 DEF Step, Deliver, SendReturns, SendFails, Reply, PollFails, ReceiveNone,
                ReceiveTap, AnswerReturns, AnswerFails, EditReturns, EditFails
  <2>2. q # r => pc'[q] = pc[q]
    BY <1>3, LoopHeadFrame
       DEF Step, Deliver, SendReturns, SendFails, Reply, PollFails, ReceiveNone,
           ReceiveTap, AnswerReturns, AnswerFails, EditReturns, EditFails, TypeOK,
           clientVars
  <2> QED
    BY <1>3, <2>1, <2>2 DEF InFlight, Ended
<1>4. CASE UNCHANGED pc
  BY <1>4, <1>2 DEF InFlight
<1> QED
  BY <1>1, <1>2, <1>3, <1>4 DEF Next, Tap, Tick, vars, clientVars

LEMMA NextUnread ==
  ~Concurrent /\ TypeOK /\ OwnTapInv /\ UnreadInv /\ [Next]_vars => UnreadInv'
<1> SUFFICES ASSUME ~Concurrent, TypeOK, OwnTapInv, UnreadInv, [Next]_vars,
                    NEW q \in Requests
             PROVE  Unread(q)'
  BY NextAlone DEF UnreadInv
<1>0. Unread(q)
  BY DEF UnreadInv
<1>1. ASSUME NEW r \in Requests, Start(r)
      PROVE  Unread(q)'
  BY <1>0, <1>1 DEF TypeOK, Unread, Start, serverVars
<1>2. ASSUME NEW r \in Requests, Deliver(r)
      PROVE  Unread(q)'
  BY <1>0, <1>2 DEF TypeOK, Unread, Deliver, clientVars, callVars
<1>3. ASSUME NEW r \in Requests, SendReturns(r)
      PROVE  Unread(q)'
  BY <1>0, <1>3, LoopHeadFrame DEF Unread, SendReturns, serverVars
<1>4. ASSUME NEW r \in Requests, SendFails(r)
      PROVE  Unread(q)'
  BY <1>0, <1>4 DEF TypeOK, Unread, SendFails, serverVars
<1>5. ASSUME NEW r \in Requests, Reply(r)
      PROVE  Unread(q)'
  <2>1. CASE q = r
    <3>1. \A i \in 1 .. confirmed' : log[i].msg # r
      BY <1>0, <1>5, <2>1 DEF TypeOK, Unread, Reply, Greater
    <3>2. batch'[r] = confirmed' + 1 .. Len(log) /\ confirmed' \in Nat
      <4>1. /\ batch' = [batch EXCEPT ![r] = confirmed' + 1 .. Len(log)]
            /\ confirmed' = Greater(confirmed, offset[r] - 1)
        BY <1>5 DEF Reply
      <4>2. /\ confirmed \in Nat /\ offset[r] \in Nat
            /\ batch \in [Requests -> SUBSET (1 .. Len(log))]
        BY <1>5 DEF TypeOK
      <4> QED
        BY <4>1, <4>2 DEF Greater
    <3>3. \A j \in batch'[r] : \A i \in 1 .. j : i \in batch'[r] \/ log[i].msg # r
      <4>1. Len(log) \in Nat
        BY DEF TypeOK
      <4>2. \A c, n \in Nat : \A j \in c + 1 .. n : \A i \in 1 .. j :
              i \in c + 1 .. n \/ i \in 1 .. c
        OBVIOUS
      <4>3. \A j \in confirmed' + 1 .. Len(log) : \A i \in 1 .. j :
              i \in confirmed' + 1 .. Len(log) \/ i \in 1 .. confirmed'
        BY <3>2, <4>1, <4>2
      <4> QED
        BY <3>1, <3>2, <4>3
    <3>4. pc'[r] = "replied" /\ UNCHANGED <<offset, pick, shown, log>>
      BY <1>5 DEF TypeOK, Reply
    <3> QED
      BY <1>0, <1>5, <2>1, <3>1, <3>3, <3>4 DEF Unread, Reply
  <2>2. CASE q # r
    <3>1. pc[q] \notin {"sending", "polling", "replied"}
      BY <1>5, <2>2 DEF UnreadInv, Alone, InFlight, Ended, Reply
    <3> QED
      BY <1>0, <1>5, <2>2, <3>1 DEF TypeOK, Unread, Reply
  <2> QED
    BY <2>1, <2>2
<1>6. ASSUME NEW r \in Requests, PollFails(r)
      PROVE  Unread(q)'
  BY <1>0, <1>6, LoopHeadFrame DEF TypeOK, Unread, PollFails, serverVars
<1>7. ASSUME NEW r \in Requests, ReceiveNone(r)
      PROVE  Unread(q)'
  <2>1. \A i \in 1 .. offset'[r] - 1 : log[i].msg # r
    <3>1. CASE batch[r] = {}
      BY <1>7, <3>1 DEF UnreadInv, Unread, ReceiveNone
    <3>2. CASE batch[r] # {}
      <4>1. offset'[r] = Largest(batch[r]) + 1
        BY <1>7, <3>2 DEF TypeOK, ReceiveNone, Beyond
      <4>2. Largest(batch[r]) \in batch[r] /\ Largest(batch[r]) \in 1 .. Len(log)
        BY <3>2, LargestIsLast
      <4>3. \A i \in 1 .. Largest(batch[r]) : i \in batch[r] \/ log[i].msg # r
        BY <1>7, <4>2 DEF UnreadInv, Unread, ReceiveNone
      <4>4. \A i \in batch[r] : log[i].msg # r
        BY <1>7 DEF ReceiveNone, Mine
      <4> QED
        BY <4>1, <4>2, <4>3, <4>4
    <3> QED
      BY <3>1, <3>2
  <2>2. q # r => offset'[q] = offset[q] /\ batch'[q] = batch[q]
    BY <1>7 DEF TypeOK, ReceiveNone
  <2> QED
    BY <1>0, <1>7, <2>1, <2>2, LoopHeadFrame DEF Unread, ReceiveNone, serverVars
<1>8. ASSUME NEW r \in Requests, ReceiveTap(r)
      PROVE  Unread(q)'
  <2>1. \A i \in 1 .. ActsOn(r) - 1 : log[i].msg # r
    <3>1. ActsOn(r) \in batch[r] /\ ActsOn(r) \in 1 .. Len(log)
      BY <1>8, ActsOnFirst DEF ReceiveTap
    <3>2. \A i \in 1 .. ActsOn(r) : i \in batch[r] \/ log[i].msg # r
      BY <1>8, <3>1 DEF UnreadInv, Unread, ReceiveTap
    <3>3. \A j \in batch[r] : log[j].msg = r => ActsOn(r) <= j
      BY <1>8, ActsOnFirst DEF ReceiveTap
    <3> QED
      BY <3>1, <3>2, <3>3
  <2> QED
    BY <1>0, <1>8, <2>1 DEF TypeOK, Unread, ReceiveTap, serverVars
<1>9. ASSUME NEW r \in Requests, AnswerReturns(r)
      PROVE  Unread(q)'
  BY <1>0, <1>9 DEF TypeOK, Unread, AnswerReturns, serverVars
<1>10. ASSUME NEW r \in Requests, AnswerFails(r)
       PROVE  Unread(q)'
  BY <1>0, <1>10 DEF TypeOK, Unread, AnswerFails, serverVars
<1>11. ASSUME NEW r \in Requests, EditReturns(r)
       PROVE  Unread(q)'
  BY <1>0, <1>11 DEF TypeOK, Unread, EditReturns, callVars
<1>12. ASSUME NEW r \in Requests, EditFails(r)
       PROVE  Unread(q)'
  BY <1>0, <1>12 DEF TypeOK, Unread, EditFails, callVars, serverVars
<1>13. ASSUME NEW r \in Requests, NEW c \in Choices, Tap(r, c)
       PROVE  Unread(q)'
  <2>1. \A i \in 1 .. Len(log) : log'[i] = log[i]
    BY <1>13 DEF TypeOK, Tap
  <2>2. pc[q] = "idle" => q # r
    BY <1>0, <1>13 DEF Unread, Tap
  <2>3. \A i \in DOMAIN log' : i \in 1 .. Len(log) \/ log'[i].msg = r
    BY <1>13 DEF TypeOK, Tap
  <2>4. UNCHANGED <<pc, offset, pick, batch, shown, confirmed>>
    BY <1>13 DEF Tap, clientVars, callVars
  <2>5. /\ 1 .. confirmed \subseteq 1 .. Len(log)
        /\ 1 .. offset[q] - 1 \subseteq 1 .. Len(log)
        /\ \A j \in batch[q] : 1 .. j \subseteq 1 .. Len(log)
        /\ 1 .. pick[q] - 1 \subseteq 1 .. Len(log)
        /\ DOMAIN log = 1 .. Len(log)
    BY DEF TypeOK
  <2> QED
    BY <1>0, <2>1, <2>2, <2>3, <2>4, <2>5 DEF Unread
<1>14. CASE Tick
  BY <1>0, <1>14 DEF Unread, Tick, serverVars
<1>15. CASE UNCHANGED vars
  BY <1>0, <1>15 DEF Unread, vars, clientVars, callVars, serverVars
<1> QED
  BY <1>1, <1>2, <1>3, <1>4, <1>5, <1>6, <1>7, <1>8, <1>9, <1>10, <1>11, <1>12,
     <1>13, <1>14, <1>15 DEF Next, Step

\* Whatever fails or is delivered twice, the reviewer's first tap on a message
\* decides its request, if requests run one at a time (telegram.py:163-205).
THEOREM FirstTapDecides == Spec => []FirstTapWins
<1>1. TypeOK /\ OwnTapInv /\ UnreadInv => FirstTapWins
  BY DEF OwnTapInv, OwnTap, UnreadInv, Unread, FirstTapWins
<1>2. ~Concurrent /\ TypeOK /\ OwnTapInv /\ UnreadInv /\ [Next]_vars => UnreadInv'
  BY NextUnread
<1>3. (~Concurrent => UnreadInv) /\ TypeOK /\ OwnTapInv => FirstTapWins
  BY <1>1 DEF FirstTapWins
<1> QED
  BY <1>2, <1>3, TypedOwnTap, InitUnread, ModeStays, PTL DEF Spec

-----------------------------------------------------------------------------
(* Requests one after the other: a prompt tap is honoured.                 *)

\* Of a request whose polls all succeeded: a tap that the reply on its way back
\* lacks was made after the server sent it, at most one call ago; and a request
\* that has timed out has no earlier tap than one call before the deadline.
Prompt(r) ==
  /\ pc[r] = "replied" => due[r] <= Latency
  /\ ~flaky[r] =>
       /\ pc[r] = "replied" =>
            \A i \in DOMAIN log : log[i].msg = r =>
              i \in batch[r] \/ log[i].at + Latency >= elapsed[r] + due[r]
       /\ outcome[r] = "timeout" =>
            /\ elapsed[r] >= Timeout
            /\ \A i \in DOMAIN log : log[i].msg = r => log[i].at + Latency >= Timeout

PromptInv == \A r \in Requests : Prompt(r)

LEMMA InitPrompt == Init => PromptInv
BY DEF Init, PromptInv, Prompt

LEMMA NextPrompt ==
  /\ ~Concurrent /\ TypeOK /\ OwnTapInv /\ TimelyInv /\ UnreadInv /\ PromptInv
  /\ [Next]_vars
  => PromptInv'
<1> SUFFICES ASSUME ~Concurrent, TypeOK, OwnTapInv, TimelyInv, UnreadInv, PromptInv,
                    [Next]_vars, NEW q \in Requests
             PROVE  Prompt(q)'
  BY DEF PromptInv
<1> USE ConstantsAssumption
<1>0. Prompt(q) /\ elapsed[q] \in Nat /\ due[q] \in Nat
  BY DEF PromptInv, TypeOK
<1>a. \A i \in DOMAIN log : log[i].at \in Nat /\ i \in 1 .. Len(log)
  BY LogEntry
<1>1. ASSUME NEW r \in Requests, Start(r)
      PROVE  Prompt(q)'
  BY <1>0, <1>1 DEF TypeOK, Prompt, Start, serverVars
<1>2. ASSUME NEW r \in Requests, Deliver(r)
      PROVE  Prompt(q)'
  BY <1>0, <1>2 DEF Prompt, Deliver, clientVars, callVars
<1>3. ASSUME NEW r \in Requests, SendReturns(r)
      PROVE  Prompt(q)'
  <2>1. CASE q = r
    <3>1. elapsed[r] + due[r] <= Latency /\ outcome[r] = "none"
      BY <1>3 DEF SendReturns, TimelyInv, Timely, OwnTapInv, OwnTap
    <3>2. UNCHANGED <<elapsed, batch, log, flaky>>
      BY <1>3 DEF SendReturns, serverVars
    <3>3. \/ Expired(r) /\ pc'[r] = "editing"
          \/ pc'[r] = "polling" /\ outcome'[r] = "none"
      BY <1>3, <3>1, LoopHeadFrame DEF SendReturns
    <3>4. Expired(r) => elapsed[r] >= Timeout /\ \A i \in DOMAIN log : log[i].at + Latency >= Timeout
      <4> SUFFICES ASSUME Expired(r)
                   PROVE  elapsed[r] >= Timeout /\ \A i \in DOMAIN log : log[i].at + Latency >= Timeout
        OBVIOUS
      <4>1. elapsed[r] >= Timeout /\ Latency >= Timeout
        BY <1>0, <2>1, <3>1 DEF Expired
      <4> QED
        BY <1>a, <4>1
    <3> QED
      BY <2>1, <3>2, <3>3, <3>4 DEF Prompt
  <2>2. CASE q # r
    BY <1>0, <1>3, <2>2, LoopHeadFrame DEF Prompt, SendReturns, serverVars
  <2> QED
    BY <2>1, <2>2
<1>4. ASSUME NEW r \in Requests, SendFails(r)
      PROVE  Prompt(q)'
  BY <1>0, <1>4 DEF TypeOK, Prompt, SendFails, serverVars
<1>5. ASSUME NEW r \in Requests, Reply(r)
      PROVE  Prompt(q)'
  <2>1. CASE q = r
    <3>1. \A i \in 1 .. confirmed' : log[i].msg # r
      BY <1>5, <2>1 DEF TypeOK, UnreadInv, Unread, Reply, Greater
    <3>2. batch'[r] = confirmed' + 1 .. Len(log) /\ confirmed' \in Nat
      BY <1>5 DEF TypeOK, Reply, Greater
    <3>3. \A i \in DOMAIN log : log[i].msg = r => i \in batch'[r]
      BY <1>a, <3>1, <3>2 DEF TypeOK
    <3>4. due'[r] <= Latency /\ outcome'[r] = "none" /\ UNCHANGED log
      BY <1>0, <1>5, <2>1 DEF TypeOK, Reply, Lesser, OwnTapInv, OwnTap
    <3> QED
      BY <2>1, <3>3, <3>4 DEF Prompt
  <2>2. CASE q # r
    BY <1>0, <1>5, <2>2 DEF TypeOK, Prompt, Reply
  <2> QED
    BY <2>1, <2>2
<1>6. ASSUME NEW r \in Requests, PollFails(r)
      PROVE  Prompt(q)'
  <2>1. CASE q = r
    <3>1. flaky'[r] = TRUE /\ pc'[r] # "replied"
      BY <1>6, LoopHeadFrame DEF TypeOK, PollFails
    <3> QED
      BY <2>1, <3>1 DEF Prompt
  <2>2. CASE q # r
    BY <1>0, <1>6, <2>2, LoopHeadFrame DEF TypeOK, Prompt, PollFails, serverVars
  <2> QED
    BY <2>1, <2>2
<1>7. ASSUME NEW r \in Requests, ReceiveNone(r)
      PROVE  Prompt(q)'
  <2>1. CASE q = r
    <3>1. \A i \in batch[r] : log[i].msg # r
      BY <1>7 DEF ReceiveNone, Mine
    <3>2. ~flaky[r] => \A i \in DOMAIN log : log[i].msg = r =>
                          log[i].at + Latency >= elapsed[r] + due[r]
      BY <1>0, <1>7, <2>1, <3>1 DEF ReceiveNone, Prompt
    <3>3. UNCHANGED <<elapsed, log, flaky>> /\ outcome[r] = "none"
      BY <1>7 DEF ReceiveNone, serverVars, OwnTapInv, OwnTap
    <3>4. \/ Expired(r) /\ pc'[r] = "editing"
          \/ pc'[r] = "polling" /\ outcome'[r] = "none"
      BY <1>7, <3>3, LoopHeadFrame DEF ReceiveNone
    <3>5. Expired(r) /\ ~flaky[r] => \A i \in DOMAIN log : log[i].msg = r =>
                                       log[i].at + Latency >= Timeout
      <4> SUFFICES ASSUME Expired(r), ~flaky[r], NEW i \in DOMAIN log, log[i].msg = r
                   PROVE  log[i].at + Latency >= Timeout
        OBVIOUS
      <4>1. log[i].at + Latency >= elapsed[r] + due[r] /\ elapsed[r] >= Timeout
        BY <3>2 DEF Expired
      <4>2. elapsed[r] \in Nat /\ due[r] \in Nat /\ log[i].at \in Nat
        BY <1>0, <1>a, <2>1
      <4> QED
        BY <4>1, <4>2
    <3> QED
      BY <2>1, <3>3, <3>4, <3>5 DEF Prompt, Expired
  <2>2. CASE q # r
    BY <1>0, <1>7, <2>2, LoopHeadFrame DEF TypeOK, Prompt, ReceiveNone, serverVars
  <2> QED
    BY <2>1, <2>2
<1>8. ASSUME NEW r \in Requests, ReceiveTap(r)
      PROVE  Prompt(q)'
  BY <1>0, <1>8 DEF TypeOK, Prompt, ReceiveTap, serverVars
<1>9. ASSUME NEW r \in Requests, AnswerReturns(r)
      PROVE  Prompt(q)'
  <2>1. log[pick[r]].choice \in Choices
    <3>1. pick[r] \in DOMAIN log
      BY <1>9 DEF AnswerReturns, OwnTapInv, OwnTap, TypeOK
    <3> QED
      BY <3>1, LogEntry
  <2> QED
    BY <1>0, <1>9, <2>1 DEF TypeOK, Prompt, AnswerReturns, serverVars, Choices
<1>10. ASSUME NEW r \in Requests, AnswerFails(r)
       PROVE  Prompt(q)'
  BY <1>0, <1>10 DEF TypeOK, Prompt, AnswerFails, serverVars
<1>11. ASSUME NEW r \in Requests, EditReturns(r)
       PROVE  Prompt(q)'
  BY <1>0, <1>11 DEF TypeOK, Prompt, EditReturns, callVars
<1>12. ASSUME NEW r \in Requests, EditFails(r)
       PROVE  Prompt(q)'
  BY <1>0, <1>12 DEF TypeOK, Prompt, EditFails, callVars, serverVars
<1>13. ASSUME NEW r \in Requests, NEW c \in Choices, Tap(r, c)
       PROVE  Prompt(q)'
  <2>1. \A i \in DOMAIN log' :
          \/ i \in DOMAIN log /\ log'[i] = log[i]
          \/ log'[i].msg = r /\ log'[i].at = elapsed[r]
    BY <1>13 DEF TypeOK, Tap
  <2>2. UNCHANGED <<pc, elapsed, outcome, due, batch, flaky>>
    BY <1>13 DEF Tap, clientVars, callVars
  <2> QED
    BY <1>0, <1>a, <2>1, <2>2 DEF Prompt
<1>14. CASE Tick
  <2>1. UNCHANGED <<pc, outcome, batch, log, flaky>>
    BY <1>14 DEF Tick, serverVars
  <2>2. CASE pc[q] \in Awaits
    <3>1. due'[q] = due[q] - 1 /\ elapsed'[q] <= elapsed[q] + 1 /\ due[q] > 0 /\ elapsed'[q] \in Nat
      BY <1>0, <1>14, <2>2 DEF Tick, Lesser, Horizon
    <3>2. outcome[q] = "none"
      BY <2>2 DEF Awaits, OwnTapInv, OwnTap
    <3> QED
      BY <1>0, <1>a, <2>1, <3>1, <3>2 DEF Prompt
  <2>3. CASE pc[q] \notin Awaits
    <3>1. elapsed'[q] = elapsed[q] /\ pc[q] # "replied"
      BY <1>14, <2>3 DEF Tick, Awaits
    <3> QED
      BY <1>0, <2>1, <3>1 DEF Prompt
  <2> QED
    BY <2>2, <2>3
<1>15. CASE UNCHANGED vars
  BY <1>0, <1>15 DEF Prompt, vars, clientVars, callVars, serverVars
<1> QED
  BY <1>1, <1>2, <1>3, <1>4, <1>5, <1>6, <1>7, <1>8, <1>9, <1>10, <1>11, <1>12,
     <1>13, <1>14, <1>15 DEF Next, Step

\* A request whose polls all succeeded and that still timed out had no tap on its
\* message but in the last call's time before the deadline, or later, if requests
\* run one at a time (telegram.py:163-211).
THEOREM PromptTapsCount == Spec => []PromptTapIsHonoured
<1>1. TypeOK /\ PromptInv => PromptTapIsHonoured
  <2> SUFFICES ASSUME TypeOK, PromptInv, NEW r \in Requests, outcome[r] = "timeout", ~flaky[r],
                      NEW i \in DOMAIN log, log[i].msg = r
               PROVE  log[i].at >= Timeout - Latency
    BY DEF PromptTapIsHonoured
  <2>1. log[i].at + Latency >= Timeout /\ log[i].at \in Nat
    BY LogEntry DEF PromptInv, Prompt
  <2> QED
    BY <2>1, ConstantsAssumption
<1>2. (~Concurrent => PromptInv) /\ TypeOK => PromptTapIsHonoured
  BY <1>1 DEF PromptTapIsHonoured
<1> QED
  BY <1>2, TypedOwnTap, InitTimely, NextTimely, InitUnread, NextUnread, InitPrompt,
     NextPrompt, ModeStays, PTL DEF Spec

-----------------------------------------------------------------------------
(* The gate keeps its promise.                                             *)

\* Under the refinement mapping every step of the gate is a tap, a decision, a
\* request given up, or nothing (telegram.py:81-134).
THEOREM GateKeepsPromise == Spec => KeepsPromise
<1> DEFINE seen == {<<log[i].msg, log[i].choice>> : i \in DOMAIN log}
<1>1. Init => Promise!Init
  BY DEF Init, Promise!Init
<1>2. TypeOK /\ OwnTapInv /\ [Next]_vars => [Promise!Next]_(Promise!vars)
  <2> SUFFICES ASSUME TypeOK, OwnTapInv, [Next]_vars
               PROVE  [Promise!Next]_(Promise!vars)
    OBVIOUS
  <2>1. ASSUME NEW r \in Requests, outcome[r] = "none", UNCHANGED log,
               outcome' = [outcome EXCEPT ![r] = "timeout"] \/
               outcome' = [outcome EXCEPT ![r] = "raised"]
        PROVE  Promise!Next
    BY <2>1 DEF Promise!Next, Promise!GiveUp, Promise!GivenUp
  <2>2. ASSUME UNCHANGED <<outcome, log>>
        PROVE  UNCHANGED Promise!vars
    BY <2>2 DEF Promise!vars
  <2>3. ASSUME NEW r \in Requests, LoopHead(r), UNCHANGED log,
               pc[r] \in {"sending", "polling", "replied"}
        PROVE  [Promise!Next]_(Promise!vars)
    <3>1. outcome[r] = "none"
      BY <2>3 DEF OwnTapInv, OwnTap
    <3> QED
      BY <2>1, <2>2, <2>3, <3>1 DEF LoopHead
  <2>4. ASSUME NEW r \in Requests, SendReturns(r) \/ PollFails(r) \/ ReceiveNone(r)
        PROVE  [Promise!Next]_(Promise!vars)
    BY <2>3, <2>4 DEF SendReturns, PollFails, ReceiveNone, serverVars
  <2>5. ASSUME NEW r \in Requests, SendFails(r) \/ AnswerFails(r)
        PROVE  Promise!Next
    BY <2>1, <2>5 DEF SendFails, AnswerFails, OwnTapInv, OwnTap, serverVars
  <2>6. ASSUME NEW r \in Requests,
               Start(r) \/ Deliver(r) \/ Reply(r) \/ ReceiveTap(r) \/ EditReturns(r) \/ EditFails(r)
        PROVE  UNCHANGED Promise!vars
    BY <2>2, <2>6 DEF Start, Deliver, Reply, ReceiveTap, EditReturns, EditFails,
                      clientVars, serverVars
  <2>7. ASSUME NEW r \in Requests, AnswerReturns(r)
        PROVE  Promise!Next
    <3>1. pick[r] \in DOMAIN log /\ log[pick[r]].msg = r /\ outcome[r] = "none"
      BY <2>7 DEF AnswerReturns, TypeOK, OwnTapInv, OwnTap
    <3>2. PICK c \in Choices : c = log[pick[r]].choice
      BY <3>1, LogEntry
    <3>3. <<r, c>> \in seen
      BY <3>1, <3>2
    <3>4. Promise!Decide(r, c)
      BY <2>7, <3>1, <3>2, <3>3 DEF AnswerReturns, Promise!Decide, serverVars
    <3> QED
      BY <3>4 DEF Promise!Next
  <2>8. ASSUME NEW r \in Requests, NEW c \in Choices, Tap(r, c)
        PROVE  Promise!Next
    <3>1. /\ DOMAIN log' = DOMAIN log \union {Len(log) + 1}
          /\ \A i \in DOMAIN log : log'[i] = log[i]
          /\ log'[Len(log) + 1].msg = r /\ log'[Len(log) + 1].choice = c
      BY <2>8 DEF Tap, TypeOK
    <3>2. seen' = seen \union {<<r, c>>}
      BY <3>1
    <3>3. Promise!Tap(r, c)
      BY <2>8, <3>2 DEF Tap, Promise!Tap, clientVars
    <3> QED
      BY <3>3 DEF Promise!Next
  <2>9. CASE Tick \/ UNCHANGED vars
    BY <2>2, <2>9 DEF Tick, vars, clientVars, serverVars
  <2> QED
    BY <2>4, <2>5, <2>6, <2>7, <2>8, <2>9 DEF Next, Step
<1> QED
  BY <1>1, <1>2, TypedOwnTap, PTL DEF Spec, KeepsPromise, Promise!Spec

=============================================================================
