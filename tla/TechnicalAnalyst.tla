-------------------------- MODULE TechnicalAnalyst --------------------------
(***************************************************************************)
(* agents/technical.py: whether the last candles give a signal, and which. *)
(* The coordinator calls analyze on the candles it has just fetched, so    *)
(* the window slides and every call starts its averages afresh.            *)
(*                                                                         *)
(* Prices and volumes are integers.  An average is kept times its common   *)
(* denominator, so comparisons are exact where the code has 28 digits.     *)
(***************************************************************************)
EXTENDS RiskGate, Powers, Sequences, SequencesExt

CONSTANTS FastPeriod, SlowPeriod,   \* EMA_FAST_PERIOD = 9, EMA_SLOW_PERIOD = 21
          RsiPeriod, VolumePeriod,  \* RSI_PERIOD = 14, VOLUME_SMA_PERIOD = 20
          Lookback,                 \* SWING_LOOKBACK = 5
          MinCandles,               \* MIN_CANDLES = 35
          Fetched,                  \* how many candles the caller fetches
          Market                    \* the candles that may come: bound

ASSUME AnalystAssumption ==
  /\ {FastPeriod, RsiPeriod, VolumePeriod, Lookback} \subseteq Nat \ {0}
  /\ SlowPeriod \in Nat /\ SlowPeriod > FastPeriod /\ FastPeriod > 1
  /\ MinCandles \in Nat /\ MinCandles > SlowPeriod /\ MinCandles > RsiPeriod
  /\ Fetched \in Nat
  /\ \A c \in Market : {c.low, c.close, c.high, c.volume} \subseteq Nat
                       /\ c.low <= c.close /\ c.close <= c.high

RsiOverbought == 7000  \* RSI_OVERBOUGHT = 70, to the 0.01 it is rounded to
RsiOversold == 3000    \* RSI_OVERSOLD = 30

NewestAndOneMore(n, values) ==
  SubSeq(values, IF Len(values) > n THEN Len(values) - n ELSE 1, Len(values))
\* values[-n:].
Newest(n, values) == SubSeq(values, (IF Len(values) > n THEN Len(values) - n ELSE 0) + 1, Len(values))
Total(values) == SumFunction(values)

\* _calculate_ema: seeded with the plain average of the first p values. The k-th
\* value is Ema(values, p)[k] / EmaScale(p, k).
EmaScale(p, k) == p * Power(p + 1, k)
Ema(values, p) ==
  LET ema[k \in 0..Len(values) - p] ==
        IF k = 0 THEN Total(SubSeq(values, 1, p))
        ELSE 2 * EmaScale(p, k - 1) * values[p + k] + (p - 1) * ema[k - 1]
  IN  ema

\* Wilder's average of the changes, times RsiPeriod ^ (k + 1).
Smoothed(changes) ==
  LET p == RsiPeriod
      avg[k \in 0..Len(changes) - p] ==
        IF k = 0 THEN Total(SubSeq(changes, 1, p))
        ELSE (p - 1) * avg[k - 1] + Power(p, k) * changes[p + k]
  IN  avg[Len(changes) - p]

\* _calculate_rsi, in hundredths, rounded half up.
Rsi(closes) ==
  LET rise(i) == closes[i + 1] - closes[i]
      gains == [i \in 1..Len(closes) - 1 |-> IF rise(i) > 0 THEN rise(i) ELSE 0]
      losses == [i \in 1..Len(closes) - 1 |-> IF rise(i) < 0 THEN -rise(i) ELSE 0]
      gain == Smoothed(gains)
      loss == Smoothed(losses)
  IN  IF loss = 0 THEN 10000 ELSE (20000 * gain + gain + loss) \div (2 * (gain + loss))

\* The sign of fast - slow, k steps before the last candle.
Lead(closes, k) ==
  LET f == Len(closes) - FastPeriod - k
      s == Len(closes) - SlowPeriod - k
  IN  Ema(closes, FastPeriod)[f] * EmaScale(SlowPeriod, s)
      - Ema(closes, SlowPeriod)[s] * EmaScale(FastPeriod, f)

SignOfLead(closes) ==
  IF Lead(closes, 0) > 0 THEN "bullish" ELSE IF Lead(closes, 0) < 0 THEN "bearish" ELSE "none"
\* _detect_crossover: strictly on one side, then strictly on the other.
Crossover(closes) ==
  CASE Lead(closes, 1) < 0 /\ Lead(closes, 0) > 0 -> "bullish"
    [] Lead(closes, 1) > 0 /\ Lead(closes, 0) < 0 -> "bearish"
    [] OTHER -> "none"

\* A volume average of zero gives a ratio of zero.
AboveAverageVolume(volumes) ==
  LET recent == Newest(VolumePeriod, volumes)
  IN  volumes[Len(volumes)] * Len(recent) > Total(recent)

Swing(candles, direction) ==
  LET recent == Range(Newest(Lookback, candles))
  IN  IF direction = "long" THEN Min({c.low : c \in recent}) ELSE Max({c.high : c \in recent})

NoSignal == {}
\* analyze: the checks in their order, the levels and the confidence. The result
\* is the set of the signal, or empty for None.
Analyze(candles) ==
  LET closes == [i \in DOMAIN candles |-> candles[i].close]
      volumes == [i \in DOMAIN candles |-> candles[i].volume]
      entry == candles[Len(candles)].close
      direction == IF Crossover(closes) = "bullish" THEN "long" ELSE "short"
      rsi == Rsi(closes)
      rejected == \/ Crossover(closes) = "none"
                  \/ direction = "long" /\ rsi >= RsiOverbought
                  \/ direction = "short" /\ rsi <= RsiOversold
                  \/ ~AboveAverageVolume(volumes)
  IN  IF Len(candles) < MinCandles THEN NoSignal
      ELSE IF rejected THEN NoSignal
      ELSE {[levels |-> Levels(direction, entry, Distance(entry, Swing(candles, direction))),
             confidence |-> IF rsi \in 4000..6000 THEN "high" ELSE "medium"]}

-----------------------------------------------------------------------------
VARIABLES window, advice
analystVars == <<window, advice>>

AnalystInit == window = <<>> /\ advice = NoSignal

\* A candle closes, and the coordinator has the last Fetched ones analyzed.
Look(candle) ==
  /\ window' = Newest(Fetched, Append(window, candle))
  /\ advice' = Analyze(window')

AnalystNext == \E candle \in Market : Look(candle)
AnalystSpec == AnalystInit /\ [][AnalystNext]_analystVars

-----------------------------------------------------------------------------
(* Properties.                                                             *)

AnalystTypeOK ==
  /\ window \in Seq(Market) /\ Len(window) <= Fetched
  /\ \A signal \in advice : /\ signal.levels.direction \in {"long", "short"}
                            /\ signal.confidence \in {"high", "medium"}

\* A crossover on the last candle says where the price is: a long signal enters
\* above both averages, a short one below them, with the stop at the losing end
\* of all the recent candles (technical.py:242-261).
SignalFollowsPrice ==
  \A signal \in advice :
    LET closes == [i \in DOMAIN window |-> window[i].close]
        above(p) == LET k == Len(closes) - p
                    IN  signal.levels.entry_price * EmaScale(p, k) - Ema(closes, p)[k]
        recent == {i \in DOMAIN window : i > Len(window) - Lookback}
    IN  IF signal.levels.direction = "long"
        THEN /\ above(FastPeriod) > 0 /\ above(SlowPeriod) > 0
             /\ \A i \in recent : signal.levels.stop_loss <= window[i].low
        ELSE /\ above(FastPeriod) < 0 /\ above(SlowPeriod) < 0
             /\ \A i \in recent : signal.levels.stop_loss >= window[i].high

=============================================================================
