------------------------------ MODULE RiskGate ------------------------------
(***************************************************************************)
(* agents/risk.py: RiskGate.validate, the checks every signal passes       *)
(* before it may be shown to the reviewer, and the price levels that       *)
(* agents/technical.py gives a signal.                                     *)
(*                                                                         *)
(* Prices are integers in some quote unit per lot, a lot being the         *)
(* 0.00000001 units that position_size.quantize keeps; money is an integer *)
(* in that quote unit; daily P&L is in basis points of the capital.        *)
(***************************************************************************)
EXTENDS Integers

\* Hardcoded in risk.py:20-22.
RiskShare == 100                    \* MAX_RISK_PER_TRADE_PCT = 1/100
MaxConcurrentPositions == 3         \* MAX_CONCURRENT_POSITIONS
DrawdownLimit == -500               \* DAILY_DRAWDOWN_KILL_SWITCH_PCT = 5%
RewardOverRisk == 2                 \* technical.py RISK_REWARD_RATIO

Distance(a, b) == IF a >= b THEN a - b ELSE b - a

\* The stop is the recent swing extreme on the losing side, `distance` away,
\* and the target lies twice as far on the other side.
Levels(direction, entry, distance) ==
  LET side == IF direction = "long" THEN 1 ELSE -1
  IN  [direction |-> direction, entry_price |-> entry,
       stop_loss |-> entry - side * distance,
       take_profit |-> entry + side * RewardOverRisk * distance]

RoundUp(num, den) == (num + den - 1) \div den
\* Decimal.quantize: to the nearest integer, halves to the even one.
Quantize(num, den) ==
  LET down == num \div den
      twice == 2 * (num % den)
  IN  IF twice > den \/ (twice = den /\ down % 2 = 1) THEN down + 1 ELSE down

\* check_kill_switch: called after every trade close and P&L update.
CheckKillSwitch(pnl) == pnl <= DrawdownLimit

RiskDistance(signal) == Distance(signal.entry_price, signal.stop_loss)
RewardDistance(signal) == Distance(signal.take_profit, signal.entry_price)

\* The checks of validate, in its order.
HaltedNow(state) == state.pnl <= DrawdownLimit
Halted(state) == state.killed \/ state.pnl <= DrawdownLimit

FullBeyond(state) == state.open > MaxConcurrentPositions
Full(state) == state.open >= MaxConcurrentPositions

FlatStop(signal) == RiskDistance(signal) = 0
\* A price of zero is falsy and counts as missing; a negative one does not.
Invalid(signal) ==
  \/ 0 \in {signal.entry_price, signal.stop_loss, signal.take_profit}
  \/ FlatStop(signal)

PoorReward(signal) == 2 * RewardDistance(signal) < 3 * RiskDistance(signal)

NeverTooExpensive(signal, state) == FALSE
\* The unrounded size times the entry price against the available capital.
TooExpensive(signal, state) ==
  state.total * signal.entry_price >
    state.available * RiskShare * RiskDistance(signal)

\* position_size, in lots: what loses RiskShare of the capital at the stop.
PositionSize(signal, state) == Quantize(state.total, RiskShare * RiskDistance(signal))

\* RiskGate.validate: the first check that fails names the rejection.
Validate(signal, state) ==
  IF Halted(state) THEN "kill_switch_active"
  ELSE IF Full(state) THEN "max_positions_reached"
  ELSE IF Invalid(signal) THEN "invalid_signal"
  ELSE IF PoorReward(signal) THEN "invalid_risk_reward"
  ELSE IF TooExpensive(signal, state) THEN "insufficient_capital"
  ELSE "approved"

Verdicts == {"kill_switch_active", "max_positions_reached", "invalid_signal",
             "invalid_risk_reward", "insufficient_capital", "approved"}

=============================================================================
