--------------------------- MODULE TripleBarrier ---------------------------
(***************************************************************************)
(* research/labels: events sampled by the symmetric CUSUM filter, walked   *)
(* to the first of three barriers and labelled.                            *)
(*                                                                         *)
(* A build reads the whole history of bars.  Here bars come one at a time  *)
(* and a build is made after each: one turn of the filter's loop belongs   *)
(* to one bar, and the rest is a function of the bars so far.  A price is  *)
(* 2 ^ level, so log returns and simple returns are both exact; the        *)
(* volatility of a bar is any value, in 1/VolUnit.                         *)
(***************************************************************************)
EXTENDS Integers, Sequences, FiniteSetsExt, Powers

CONSTANTS VolSpan,         \* ewma_span: the first VolSpan bars have no volatility
          Kappa, PtMult, SlMult, MaxHp, MinRet,  \* LabelConfig
          VolUnit, Vols, Moves, BaseLevel, MaxBars  \* units and bounds

\* LabelConfig refuses other values.
LegalConfig ==
  /\ Kappa > 0 /\ VolSpan >= 2 /\ MaxHp >= 1
  /\ PtMult >= 0 /\ SlMult >= 0 /\ MinRet >= 0

ASSUME LabelAssumption ==
  /\ {Kappa, VolSpan, MaxHp, PtMult, SlMult, MinRet} \subseteq Int /\ LegalConfig
  /\ VolUnit \in Nat \ {0} /\ Vols \subseteq Nat \ {0} /\ Moves \subseteq Int
  /\ BaseLevel \in Nat /\ MaxBars \in Nat

VARIABLES
  path, vols,       \* bar by bar: the level of the close, and ewma_vol
  sPos, sNeg,       \* the arms of the filter
  upAt, downAt,     \* history: the bar where each arm was last reset
  tEvents,          \* t_events
  bet               \* 0: symmetric labels; 1 or -1: the side of a meta-label

labelVars == <<path, vols, sPos, sNeg, upAt, downAt, tEvents, bet>>

FirstValid == VolSpan + 1   \* vol.first_valid_index()

LabelInit ==
  /\ path = <<>> /\ vols = <<>> /\ sPos = 0 /\ sNeg = 0
  /\ upAt = FirstValid /\ downAt = FirstValid /\ tEvents = {} /\ bet = 0

\* The first bar; side is an argument of the build.
FirstBar(side) ==
  /\ path = <<>>
  /\ path' = <<BaseLevel>> /\ vols' = <<0>> /\ bet' = side
  /\ UNCHANGED <<sPos, sNeg, upAt, downAt, tEvents>>

\* A bound: no price falls below 2 ^ 0.
WholePrice(move) == path[Len(path)] + move >= 0

\* Bars without a volatility, and the first with one, only set the stage: the
\* build hands the filter the bars from FirstValid on.
WarmUpBar(move, vol) ==
  /\ path # <<>> /\ Len(path) < FirstValid /\ WholePrice(move)
  /\ path' = Append(path, path[Len(path)] + move)
  /\ vols' = Append(vols, IF Len(path) < VolSpan THEN 0 ELSE vol)
  /\ UNCHANGED <<sPos, sNeg, upAt, downAt, tEvents, bet>>

ArmsAfter(pos, neg, down, up) == <<IF up \/ down THEN 0 ELSE pos, IF up \/ down THEN 0 ELSE neg>>
\* Only the arm that was breached is reset.
Arms(pos, neg, down, up) == <<IF up THEN 0 ELSE pos, IF down THEN 0 ELSE neg>>

\* A turn of cusum_filter's loop; the down arm is looked at first.
FilterBar(move, vol) ==
  /\ Len(path) >= FirstValid /\ Len(path) < MaxBars /\ WholePrice(move)
  /\ LET bar == Len(path) + 1
         pos == IF sPos + move > 0 THEN sPos + move ELSE 0
         neg == IF sNeg + move < 0 THEN sNeg + move ELSE 0
         down == VolUnit * neg < -(Kappa * vol)
         up == ~down /\ VolUnit * pos > Kappa * vol
     IN  /\ sPos' = Arms(pos, neg, down, up)[1] /\ sNeg' = Arms(pos, neg, down, up)[2]
         /\ upAt' = (IF up THEN bar ELSE upAt)
         /\ downAt' = (IF down THEN bar ELSE downAt)
         /\ tEvents' = (IF down \/ up THEN tEvents \cup {bar} ELSE tEvents)
  /\ path' = Append(path, path[Len(path)] + move) /\ vols' = Append(vols, vol)
  /\ UNCHANGED bet

LabelNext ==
  \/ \E side \in {0, 1, -1} : FirstBar(side)
  \/ \E move \in Moves, vol \in Vols : WarmUpBar(move, vol) \/ FilterBar(move, vol)

LabelSpec == LabelInit /\ [][LabelNext]_labelVars

-----------------------------------------------------------------------------
(* The build.                                                              *)

Price(i) == Power(2, path[i])
Side == IF bet = 0 THEN 1 ELSE bet

\* get_events: the target must exceed min_ret.
Events == {e \in tEvents : vols[e] > MinRet}

ClippedBarrier(e) == IF e + MaxHp > Len(path) THEN Len(path) ELSE e + MaxHp
\* _vertical_barrier: bars forward; past the last bar there is none.
VerticalBarrier(e) == e + MaxHp
Vertical(e) == VerticalBarrier(e) <= Len(path)

\* _apply_pt_sl_on_t1: the first close strictly outside the horizontal barriers.
Gain(e, i) == VolUnit * Side * (Price(i) - Price(e))
TakesProfit(e, i) == PtMult > 0 /\ Gain(e, i) > PtMult * vols[e] * Price(e)
StopsLoss(e, i) == SlMult > 0 /\ Gain(e, i) < -(SlMult * vols[e] * Price(e))
Touches(e) ==
  {i \in e..(IF Vertical(e) THEN VerticalBarrier(e) ELSE Len(path)) :
     TakesProfit(e, i) \/ StopsLoss(e, i)}
Resolved(e) == Touches(e) # {} \/ Vertical(e)
FirstTouch(e) == IF Touches(e) # {} THEN Min(Touches(e)) ELSE VerticalBarrier(e)
Barrier(e) ==
  IF Touches(e) = {} THEN "VERTICAL"
  ELSE IF TakesProfit(e, FirstTouch(e)) THEN "UPPER" ELSE "LOWER"

Sign(n) == IF n > 0 THEN 1 ELSE IF n < 0 THEN -1 ELSE 0
Unsided(e) == Price(FirstTouch(e)) - Price(e)
Return(e) == Side * (Price(FirstTouch(e)) - Price(e))

\* get_bins: events not yet resolved are dropped; a meta-label is 0 or 1.
Bin(e) == IF bet # 0 /\ Return(e) <= 0 THEN 0 ELSE Sign(Return(e))
GetBins == {[t0 |-> e, t1 |-> FirstTouch(e), barrier |-> Barrier(e), bin |-> Bin(e)] :
              e \in {d \in Events : Resolved(d)}}

-----------------------------------------------------------------------------
(* Properties.                                                             *)

LabelTypeOK ==
  /\ path \in Seq(Nat) /\ vols \in Seq(Nat) /\ Len(vols) = Len(path)
  /\ sPos \in Nat /\ sNeg \in Int /\ sNeg <= 0
  /\ upAt \in Nat /\ downAt \in Nat
  /\ tEvents \subseteq FirstValid + 1..Len(path)
  /\ bet \in {0, 1, -1}

\* What the arms measure, although the threshold changes from bar to bar and one
\* arm may be breached while the other stays high: the rise from the lowest close
\* since the up arm was last reset, and the fall from the highest since the down
\* arm was (filters.py:50-57).
CusumIsDrawup ==
  Len(path) >= FirstValid =>
    LET now == path[Len(path)]
    IN  /\ \A i \in upAt..Len(path) : sPos >= now - path[i]
        /\ \E i \in upAt..Len(path) : sPos = now - path[i]
        /\ \A i \in downAt..Len(path) : sNeg <= now - path[i]
        /\ \E i \in downAt..Len(path) : sNeg = now - path[i]

\* No label looks ahead: one that was given stays the same whatever bars follow,
\* for an event is labelled only once it is resolved (barriers.py:74-79, 302).
LabelsAreFinal == [][GetBins \subseteq GetBins']_labelVars

\* The label and the barrier tell the same story on every path and either side:
\* until t1 no close leaves the band, at t1 a profit is a 1, a loss is not, and
\* a vertical label has waited its whole horizon (barriers.py:144-173, 302-314).
BinAgreesWithBarrier ==
  \A l \in GetBins :
    /\ \A i \in l.t0..l.t1 - 1 : ~TakesProfit(l.t0, i) /\ ~StopsLoss(l.t0, i)
    /\ l.t1 <= l.t0 + MaxHp
    /\ l.barrier = "UPPER" => l.bin = 1
    /\ l.barrier = "LOWER" => l.bin = IF bet = 0 THEN -1 ELSE 0
    /\ l.barrier = "VERTICAL" => l.t1 = l.t0 + MaxHp

=============================================================================
