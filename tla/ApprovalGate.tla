---------------------------- MODULE ApprovalGate ----------------------------
(***************************************************************************)
(* TelegramNotifier.request_approval (src/notifications/telegram.py): push *)
(* a signal with an Approve and a Cancel button to the reviewer's chat,    *)
(* long-poll getUpdates for the tap, give up at the deadline.              *)
(*                                                                         *)
(* A request is one call of the coroutine. Each `await` of the code is a   *)
(* value of pc, so requests interleave where asyncio lets them; what the   *)
(* code does between two awaits is one action. Time is counted in ticks    *)
(* and local computation takes none.                                       *)
(*                                                                         *)
(* The Telegram server is external and is modelled from the calls the code *)
(* makes: it numbers the taps (update_id = position in log), forgets those *)
(* below the offset of any getUpdates it serves, and answers such a call   *)
(* at once if a tap is pending, or else when the poll's timeout runs out.  *)
(***************************************************************************)
EXTENDS Integers, Sequences, FiniteSets

CONSTANTS Requests,        \* calls of request_approval
          Signals,
          SignalOf,        \* the signal each call is about: a signal may be re-sent
          Timeout,         \* approval_timeout, in ticks
          Chunk,           \* _POLL_CHUNK_SECONDS, in ticks
          TicksPerSecond,  \* getUpdates takes whole seconds only
          Latency,         \* longest time a call to Telegram takes beyond its timeout
          MaxTaps          \* bound on the reviewer's taps, by mode

Modes == {"in turn", "at once"}

ASSUME ConstantsAssumption ==
  /\ SignalOf \in [Requests -> Signals]
  /\ Timeout \in Nat \ {0}
  /\ Chunk \in Nat
  /\ TicksPerSecond \in Nat \ {0}
  /\ Latency \in Nat \ {0}
  /\ MaxTaps \in [Modes -> Nat]

Choices == {"approve", "cancel"}

\* A tap: the message it is on, the two parts of its callback_data, and how
\* old the request was (history).
Taps == [msg : Requests, choice : Choices, signal : Signals, at : Nat]

VARIABLES
  (* The callers. *)
  mode,       \* do they call one at a time, or whenever they like? It stays
  (* The coroutine of each request. *)
  pc,         \* the await it is suspended at ("replied": its reply is on the way)
  elapsed,    \* time.monotonic() - sent_at, until the outcome is known
  offset,     \* first update_id it has not seen; 1 stands for None
  pick,       \* the update it acts on, 0 if none yet
  outcome,    \* what it returns, or "raised"
  (* The call to Telegram it waits for. *)
  due,        \* ticks left before the call has returned or raised
  hold,       \* ticks left before an idle long poll is answered
  batch,      \* update_ids in the reply on its way back
  (* The Telegram server. *)
  shown,      \* is the request's message there with its buttons?
  log,        \* every tap so far
  confirmed,  \* taps up to this update_id are forgotten
  (* History. *)
  flaky       \* has a getUpdates of this request failed?

clientVars == <<pc, elapsed, offset, pick, outcome>>
callVars == <<due, hold, batch>>
serverVars == <<shown, log, confirmed>>
vars == <<mode, clientVars, callVars, serverVars, flaky>>

\* May a call start before the previous one has ended?
Concurrent == mode = "at once"

Awaits == {"sending", "polling", "replied", "answering"}
Ended == {"returned", "raised"}
InFlight(r) == pc[r] \notin {"idle"} \union Ended

Largest(S) == CHOOSE i \in S : \A j \in S : i >= j
Smallest(S) == CHOOSE i \in S : \A j \in S : i <= j
Lesser(a, b) == IF a <= b THEN a ELSE b
Greater(a, b) == IF a >= b THEN a ELSE b

\* Past this age no request is still undecided (DecidesInTime): a bound that
\* only keeps the states finite.
Horizon == Timeout + 2 * Latency + 1

ExpiredExactly(r) == elapsed[r] = Timeout
ExpiredWithinSecond(r) == Timeout - elapsed[r] < TicksPerSecond
\* remaining <= 0: the deadline has passed.
Expired(r) == elapsed[r] >= Timeout

PollForChunk(r) == Chunk
\* min(int(remaining), _POLL_CHUNK_SECONDS): int() drops the started second.
PollFor(r) ==
  LET remaining == Timeout - elapsed[r]
  IN  Lesser(remaining - (remaining % TicksPerSecond), Chunk)

MineBySignal(r) == {i \in batch[r] : log[i].signal = SignalOf[r]}
\* The updates of a reply that are callbacks on this request's own message.
Mine(r) == {i \in batch[r] : log[i].msg = r}

ActsOnLast(r) == Largest(Mine(r))
\* The updates are read in order: the first of its own is the one it acts on.
ActsOn(r) == Smallest(Mine(r))

SkipOne(id) == id + 2
\* offset = update.update_id + 1
Beyond(id) == id + 1

-----------------------------------------------------------------------------

Init ==
  /\ mode \in Modes
  /\ pc = [r \in Requests |-> "idle"]
  /\ elapsed = [r \in Requests |-> 0]
  /\ offset = [r \in Requests |-> 1]
  /\ pick = [r \in Requests |-> 0]
  /\ outcome = [r \in Requests |-> "none"]
  /\ due = [r \in Requests |-> 0]
  /\ hold = [r \in Requests |-> 0]
  /\ batch = [r \in Requests |-> {}]
  /\ shown = [r \in Requests |-> FALSE]
  /\ log = <<>>
  /\ confirmed = 0
  /\ flaky = [r \in Requests |-> FALSE]

\* request_approval is called: sent_at is taken before the message is sent.
Start(r) ==
  /\ pc[r] = "idle"
  /\ Concurrent \/ \A q \in Requests : ~InFlight(q)
  /\ pc' = [pc EXCEPT ![r] = "sending"]
  /\ due' = [due EXCEPT ![r] = Latency]
  /\ UNCHANGED <<elapsed, offset, pick, outcome, hold, batch, serverVars, flaky, mode>>

\* The message appears in the chat, before the sender hears of it.
Deliver(r) ==
  /\ pc[r] = "sending"
  /\ ~shown[r]
  /\ shown' = [shown EXCEPT ![r] = TRUE]
  /\ UNCHANGED <<clientVars, callVars, log, confirmed, flaky, mode>>

\* Head of the while loop, reached without an await from three places: past
\* the deadline auto-cancel, else long-poll for what remains of it.
LoopHead(r) ==
  \/ /\ Expired(r)
     /\ pc' = [pc EXCEPT ![r] = "editing"]
     /\ outcome' = [outcome EXCEPT ![r] = "timeout"]
     /\ due' = [due EXCEPT ![r] = 0]
     /\ hold' = [hold EXCEPT ![r] = 0]
  \/ /\ ~Expired(r)
     /\ pc' = [pc EXCEPT ![r] = "polling"]
     /\ due' = [due EXCEPT ![r] = PollFor(r) + Latency]
     /\ hold' = [hold EXCEPT ![r] = PollFor(r)]
     /\ UNCHANGED outcome

SendReturns(r) ==
  /\ pc[r] = "sending"
  /\ shown[r]
  /\ LoopHead(r)
  /\ UNCHANGED <<elapsed, offset, pick, batch, serverVars, flaky, mode>>

\* send_message raises, whether or not the message made it to the chat.
SendFails(r) ==
  /\ pc[r] = "sending"
  /\ pc' = [pc EXCEPT ![r] = "raised"]
  /\ outcome' = [outcome EXCEPT ![r] = "raised"]
  /\ due' = [due EXCEPT ![r] = 0]
  /\ UNCHANGED <<elapsed, offset, pick, hold, batch, serverVars, flaky, mode>>

\* The server serves the poll: it forgets what the offset confirms and sends
\* what is pending (at most 100 updates; MaxTaps stays below that).
Reply(r) ==
  LET kept == Greater(confirmed, offset[r] - 1)
      pending == kept + 1 .. Len(log)
  IN  /\ pc[r] = "polling"
      /\ pending # {} \/ hold[r] = 0
      /\ confirmed' = kept
      /\ batch' = [batch EXCEPT ![r] = pending]
      /\ pc' = [pc EXCEPT ![r] = "replied"]
      /\ due' = [due EXCEPT ![r] = Lesser(due[r], Latency)]
      /\ hold' = [hold EXCEPT ![r] = 0]
      /\ UNCHANGED <<elapsed, offset, pick, outcome, shown, log, flaky, mode>>

\* getUpdates raises, before or after the server has served it: try again at once.
PollFails(r) ==
  /\ pc[r] \in {"polling", "replied"}
  /\ batch' = [batch EXCEPT ![r] = {}]
  /\ flaky' = [flaky EXCEPT ![r] = TRUE]
  /\ LoopHead(r)
  /\ UNCHANGED <<elapsed, offset, pick, serverVars, mode>>

\* The for loop over the updates when none is on this message: all are passed
\* over and the offset ends up behind the last.
ReceiveNone(r) ==
  /\ pc[r] = "replied"
  /\ Mine(r) = {}
  /\ offset' = IF batch[r] = {} THEN offset
               ELSE [offset EXCEPT ![r] = Beyond(Largest(batch[r]))]
  /\ batch' = [batch EXCEPT ![r] = {}]
  /\ LoopHead(r)
  /\ UNCHANGED <<elapsed, pick, serverVars, flaky, mode>>

\* The for loop up to the first update on this message, which it answers. The
\* button of a message carries that message's own signal_id, so one of the two
\* comparisons of cq.data always holds and the rest of the updates is unread.
ReceiveTap(r) ==
  /\ pc[r] = "replied"
  /\ Mine(r) # {}
  /\ pick' = [pick EXCEPT ![r] = ActsOn(r)]
  /\ offset' = [offset EXCEPT ![r] = Beyond(ActsOn(r))]
  /\ batch' = [batch EXCEPT ![r] = {}]
  /\ due' = [due EXCEPT ![r] = Latency]
  /\ pc' = [pc EXCEPT ![r] = "answering"]
  /\ UNCHANGED <<elapsed, outcome, hold, serverVars, flaky, mode>>

\* cq.answer() is back: the tap decides. The deadline is not looked at again.
AnswerReturns(r) ==
  /\ pc[r] = "answering"
  /\ log[pick[r]].signal = SignalOf[r]
  /\ outcome' = [outcome EXCEPT ![r] = log[pick[r]].choice]
  /\ pc' = [pc EXCEPT ![r] = "editing"]
  /\ due' = [due EXCEPT ![r] = 0]
  /\ UNCHANGED <<elapsed, offset, pick, hold, batch, serverVars, flaky, mode>>

\* cq.answer() raises and nothing catches it: the decision is lost.
AnswerFails(r) ==
  /\ pc[r] = "answering"
  /\ outcome' = [outcome EXCEPT ![r] = "raised"]
  /\ pc' = [pc EXCEPT ![r] = "raised"]
  /\ due' = [due EXCEPT ![r] = 0]
  /\ UNCHANGED <<elapsed, offset, pick, hold, batch, serverVars, flaky, mode>>

\* The message is edited to show the outcome, which also removes its buttons.
EditReturns(r) ==
  /\ pc[r] = "editing"
  /\ shown' = [shown EXCEPT ![r] = FALSE]
  /\ pc' = [pc EXCEPT ![r] = "returned"]
  /\ UNCHANGED <<elapsed, offset, pick, outcome, callVars, log, confirmed, flaky, mode>>

\* The edit raises and is swallowed: the buttons stay.
EditFails(r) ==
  /\ pc[r] = "editing"
  /\ pc' = [pc EXCEPT ![r] = "returned"]
  /\ UNCHANGED <<elapsed, offset, pick, outcome, callVars, serverVars, flaky, mode>>

\* The reviewer taps a button of a message that shows it, in time or not.
Tap(r, c) ==
  /\ shown[r]
  /\ Len(log) < MaxTaps[mode]
  /\ log' = Append(log, [msg |-> r, choice |-> c, signal |-> SignalOf[r],
                         at |-> elapsed[r]])
  /\ UNCHANGED <<clientVars, callVars, shown, confirmed, flaky, mode>>

\* A tick passes while a request waits for Telegram; no call outlives its due.
Tick ==
  /\ \E r \in Requests : pc[r] \in Awaits
  /\ \A r \in Requests : pc[r] \in Awaits => due[r] > 0
  /\ elapsed' = [r \in Requests |-> IF pc[r] \in Awaits THEN Lesser(elapsed[r] + 1, Horizon)
                                           ELSE elapsed[r]]
  /\ due' = [r \in Requests |-> IF pc[r] \in Awaits THEN due[r] - 1 ELSE due[r]]
  /\ hold' = [r \in Requests |-> IF hold[r] > 0 THEN hold[r] - 1 ELSE 0]
  /\ UNCHANGED <<pc, offset, pick, outcome, batch, serverVars, flaky, mode>>

Step(r) ==
  \/ Deliver(r) \/ SendReturns(r) \/ SendFails(r)
  \/ Reply(r) \/ PollFails(r)
  \/ ReceiveNone(r) \/ ReceiveTap(r)
  \/ AnswerReturns(r) \/ AnswerFails(r)
  \/ EditReturns(r) \/ EditFails(r)

Next ==
  \/ \E r \in Requests : Start(r) \/ Step(r)
  \/ \E r \in Requests, c \in Choices : Tap(r, c)
  \/ Tick

Spec == Init /\ [][Next]_vars

\* Time goes on, and a call that is under way ends, because the HTTP client
\* bounds every request.
FairSpec == Spec /\ WF_vars(Tick) /\ \A r \in Requests : WF_vars(Step(r))

-----------------------------------------------------------------------------

PCs == {"idle", "editing"} \union Awaits \union Ended
Outcomes == {"none", "timeout", "raised"} \union Choices

\* Every variable has its type; update_ids point into the log.
TypeOK ==
  /\ mode \in Modes
  /\ pc \in [Requests -> PCs]
  /\ elapsed \in [Requests -> Nat]
  /\ offset \in [Requests -> 1 .. Len(log) + 1]
  /\ pick \in [Requests -> 0 .. Len(log)]
  /\ outcome \in [Requests -> Outcomes]
  /\ due \in [Requests -> Nat]
  /\ hold \in [Requests -> Nat]
  /\ batch \in [Requests -> SUBSET (1 .. Len(log))]
  /\ shown \in [Requests -> BOOLEAN]
  /\ log \in Seq(Taps)
  /\ confirmed \in 0 .. Len(log)
  /\ flaky \in [Requests -> BOOLEAN]

\* A decision was made on this request's own message (telegram.py:193-195): a
\* late tap on a timed-out message never decides the request that re-sends
\* the signal, although the tap is redelivered to it (offset restarts at None).
DecidedByOwnTap ==
  \A r \in Requests :
    outcome[r] \in Choices => /\ pick[r] \in DOMAIN log
                              /\ log[pick[r]].msg = r
                              /\ log[pick[r]].choice = outcome[r]

\* The reviewer's first tap on a message is the one that counts, whatever he
\* taps next and however often polls fail and replies are lost or repeated.
\* Requests that run one after the other only: another poller on the same bot
\* can swallow the first tap (its offset confirms it, telegram.py:188).
FirstTapWins ==
  ~Concurrent =>
    \A r \in Requests :
      outcome[r] \in Choices =>
        \A i \in 1 .. pick[r] - 1 : log[i].msg # r

\* request_approval knows its outcome at most two calls to Telegram after the
\* deadline, and no tap later than one call after it is honoured: the long
\* poll never outlives the time that remains (telegram.py:175).
DecidesInTime ==
  \A r \in Requests :
    /\ elapsed[r] <= Timeout + 2 * Latency
    /\ pick[r] # 0 => log[pick[r]].at <= Timeout + Latency

\* If no poll failed, a timed-out request is one the reviewer answered too late
\* or not at all: a tap made one call to Telegram before the deadline counts
\* (the polls go on to the deadline and hand over the backlog).
PromptTapIsHonoured ==
  ~Concurrent =>
    \A r \in Requests :
      outcome[r] = "timeout" /\ ~flaky[r] =>
        \A i \in DOMAIN log : log[i].msg = r => log[i].at >= Timeout - Latency

\* "approved=True on /approve within timeout" (telegram.py:86; ADR-002: 90
\* seconds, then auto-cancel): no approve tapped after the deadline counts.
ApprovedWithinTimeout ==
  \A r \in Requests :
    outcome[r] = "approve" => log[pick[r]].at <= Timeout

\* "Never raises on timeout - always returns a result" (telegram.py:90): every
\* call ends, with errors from Telegram repeating for as long as they like. A call
\* is made once, so it is enough that again and again none is in flight.
EveryRequestEnds == []<>(\A r \in Requests : ~InFlight(r))

\* The gate implements its promise.
Promise ==
  INSTANCE HitlPromise WITH
    tapped <- {<<log[i].msg, log[i].choice>> : i \in DOMAIN log}
KeepsPromise == Promise!Spec

=============================================================================
