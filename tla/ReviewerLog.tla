---------------------------- MODULE ReviewerLog ----------------------------
(***************************************************************************)
(* notifications/reviewer_state.py: the log of what the reviewer decided   *)
(* and the rule that flags an anomalous rate of overrides.                 *)
(*                                                                         *)
(* The log is kept by age, in half days: log[a] is the decision made 12*a  *)
(* hours ago, at 6 or at 18 o'clock.  So the sliding windows of 24 hours   *)
(* and of WindowDays cut calendar days in half, as they do in the code.    *)
(* Rounding to four places is left out, and rates are compared by          *)
(* multiplying out, over a common denominator of 6.                        *)
(***************************************************************************)
EXTENDS Integers, FiniteSets, Functions

CONSTANTS WindowDays,   \* window_days=90
          MinHistory,   \* MIN_HISTORY_FOR_ESCALATION = 10
          MaxRows, MaxOverrides, MaxIgnored  \* bounds on the log

ASSUME ReviewerAssumption ==
  WindowDays \in Nat \ {0} /\ MinHistory \in Nat /\ MaxRows \in Nat
  /\ MaxOverrides \in Nat /\ MaxIgnored \in Nat

Ages == 0..2 * WindowDays
\* Rows: "clear" is no override (an approval, or the cancellation of a signal of
\* low confidence); "override" is a confident signal cancelled, "ignored" one
\* that timed out.  "none": nothing was decided then.
Decisions == {"clear", "override", "ignored"}

VARIABLES log, evening, flagged  \* flagged: escalation_flag of the newest row
reviewerVars == <<log, evening, flagged>>

\* A timeout is stored without a decided_at, and every query asks for one.
Decided(seen) == {a \in Ages : seen[a] \in {"clear", "override"}}
Lately(seen) == {a \in Decided(seen) : a <= 2}
Overrides(seen, rows) == {a \in rows : seen[a] = "override"}

Day(a) == (a + (IF evening THEN 0 ELSE 1)) \div 2

\* _daily_rates groups what the window holds by calendar day, today included.
HistoryDays(seen) == {Day(a) : a \in Decided(seen)}
DaysBeforeToday(seen) == HistoryDays(seen) \ {0}
DaysCounted(seen) == HistoryDays(seen)

Rate(seen, rows) == (6 * Cardinality(Overrides(seen, rows))) \div Cardinality(rows)
DailyRate(seen, d) == Rate(seen, {a \in Decided(seen) : Day(a) = d})

SessionRate(seen) == IF Lately(seen) = {} THEN 0 ELSE Rate(seen, Lately(seen))

Square(x) == x * x

\* should_escalate, and _compute_z_score beside it: the rate of the last 24
\* hours is more than two sample standard deviations above the mean.
ShouldEscalate(seen) ==
  LET rate == [d \in DaysCounted(seen) |-> DailyRate(seen, d)]
      n == Cardinality(DOMAIN rate)
      sum == SumFunction(rate)
      scatter == SumFunction([d \in DOMAIN rate |-> Square(n * rate[d] - sum)])
      excess == n * SessionRate(seen) - sum
  IN  /\ Cardinality(Decided(seen)) >= MinHistory
      /\ n >= 2 /\ scatter # 0
      /\ excess > 0 /\ Square(excess) * (n - 1) > 4 * scatter

-----------------------------------------------------------------------------
ReviewerInit == log = [a \in Ages |-> "none"] /\ evening = FALSE /\ flagged = FALSE

With(decision) == [log EXCEPT ![0] = decision]

\* The metrics are computed before the row is written.
SeenByMetrics(decision) == log

Rows(decisions) == Cardinality({a \in Ages : log[a] \in decisions})

\* log_decision.
LogDecision(decision) ==
  /\ log[0] = "none" /\ Rows(Decisions) < MaxRows
  /\ decision = "override" => Rows({"override"}) < MaxOverrides
  /\ decision = "ignored" => Rows({"ignored"}) < MaxIgnored
  /\ flagged' = ShouldEscalate(SeenByMetrics(decision))
  /\ log' = With(decision)
  /\ UNCHANGED evening

\* Twelve hours go by; what is older than the window is never read again.
HalfDayPasses ==
  /\ log' = [a \in Ages |-> IF a = 0 THEN "none" ELSE log[a - 1]]
  /\ evening' = ~evening
  /\ UNCHANGED flagged

ReviewerNext == HalfDayPasses \/ \E decision \in Decisions : LogDecision(decision)

ReviewerSpec == ReviewerInit /\ [][ReviewerNext]_reviewerVars

-----------------------------------------------------------------------------
(* Properties.                                                             *)

ReviewerTypeOK ==
  log \in [Ages -> Decisions \cup {"none"}] /\ evening \in BOOLEAN /\ flagged \in BOOLEAN

\* A row is flagged only where an earlier confident signal was cancelled in the
\* last 24 hours, on two days of different rates or more: neither the decision
\* being logged nor a timeout raises its own flag (reviewer_state.py:69-72).
FlagNeedsEarlierCancel ==
  [][evening' = evening /\ flagged' =>
       /\ Overrides(log, Lately(log)) # {}
       /\ \E d, e \in {Day(a) : a \in Decided(log)} : DailyRate(log, d) # DailyRate(log, e)]_reviewerVars

\* Today is part of the history it is measured against (reviewer_state.py:
\* 191-197), and of n values none lies more than (n-1)/sqrt(n) deviations above
\* their mean: while the last 24 hours are one calendar day, even a day of
\* nothing but overrides is not flagged before the log spans six days.
FlagNeedsSixDays ==
  ShouldEscalate(log) /\ (\A a \in Lately(log) : Day(a) = 0)
    => Cardinality({Day(a) : a \in Decided(log)}) >= 6

\* "Fraction of decisions in the last window_hours that were non-approvals"
\* (reviewer_state.py:110), an override being "a non-approval (cancel or
\* timeout)" (reviewer_state.py:7): a confident signal that was left to time out
\* in the last 24 hours shows in the rate.
TimeoutsCount == (\E a \in 0..2 : log[a] = "ignored") => SessionRate(log) > 0

=============================================================================
