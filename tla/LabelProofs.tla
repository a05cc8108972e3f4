---------------------------- MODULE LabelProofs -----------------------------
(***************************************************************************)
(* Proofs about the research pipeline: what the filter's arms measure,     *)
(* that labels are final and agree with their barriers, that both ways to  *)
(* a label's uniqueness agree, what draws and decay do to its weight, what *)
(* a store promises, and that the parallel engine does, step by step, what *)
(* the sequential map does, never waits for itself and runs out of steps.  *)
(* All of it for any bars, recipes, calls and aborts.                      *)
(***************************************************************************)
EXTENDS SampleWeights, RecipeStore, MpEngine, DataFacts

-----------------------------------------------------------------------------
(* Labels (TripleBarrier).                                                 *)

\* Until the filter starts its arms lie flat; then they measure from a bar that
\* the filter has seen.
ArmsPlaced ==
  IF Len(path) < FirstValid
  THEN sPos = 0 /\ sNeg = 0 /\ upAt = FirstValid /\ downAt = FirstValid
  ELSE upAt \in FirstValid..Len(path) /\ downAt \in FirstValid..Len(path)

LabelInv == LabelTypeOK /\ ArmsPlaced /\ CusumIsDrawup

-----------------------------------------------------------------------------

LEMMA LabelConstants == /\ FirstValid \in Nat /\ FirstValid >= 3 /\ MaxHp \in Nat /\ MaxHp >= 1
                        /\ Vols \subseteq Nat /\ Moves \subseteq Int /\ BaseLevel \in Nat
                        /\ VolSpan \in Nat /\ FirstValid = VolSpan + 1 /\ FirstValid' = FirstValid
BY LabelAssumption DEF LabelAssumption, LegalConfig, FirstValid

LEMMA LabelInitInv == LabelInit => LabelInv
<1> SUFFICES ASSUME LabelInit PROVE LabelInv
  OBVIOUS
<1>1. Len(path) = 0 /\ Len(vols) = 0 /\ path \in Seq(Nat) /\ vols \in Seq(Nat)
  BY DEF LabelInit
<1> QED
  BY <1>1, LabelConstants DEF LabelInit, LabelInv, LabelTypeOK, ArmsPlaced, CusumIsDrawup

\* What a bar does to the path and to the volatilities.
LEMMA AppendBar ==
  ASSUME path \in Seq(Nat), vols \in Seq(Nat), Len(vols) = Len(path),
         NEW level \in Nat, NEW vol \in Nat,
         path' = Append(path, level), vols' = Append(vols, vol)
  PROVE  /\ path' \in Seq(Nat) /\ vols' \in Seq(Nat)
         /\ Len(path') = Len(path) + 1 /\ Len(vols') = Len(path')
         /\ path'[Len(path)+1] = level
         /\ \A i \in 1..Len(path) : path'[i] = path[i] /\ vols'[i] = vols[i]
OBVIOUS

LEMMA FirstBarInv ==
  ASSUME LabelInv, NEW side \in {0, 1, -1}, FirstBar(side)
  PROVE  LabelInv'
<1>1. /\ path' = <<BaseLevel>> /\ vols' = <<0>> /\ bet' = side /\ path = <<>>
      /\ UNCHANGED <<sPos, sNeg, upAt, downAt, tEvents>>
  BY DEF FirstBar
<1>2. Len(path') = 1 /\ Len(vols') = 1 /\ path' \in Seq(Nat) /\ vols' \in Seq(Nat) /\ Len(path) = 0
  BY <1>1, LabelConstants
<1>3. tEvents = {}
  BY <1>2, LabelConstants DEF LabelInv, LabelTypeOK
<1> QED
  BY <1>1, <1>2, <1>3, LabelConstants
     DEF LabelInv, LabelTypeOK, ArmsPlaced, CusumIsDrawup, FirstValid

LEMMA WarmUpBarInv ==
  ASSUME LabelInv, NEW move \in Moves, NEW vol \in Vols, WarmUpBar(move, vol)
  PROVE  LabelInv'
<1> DEFINE level == path[Len(path)] + move
           fresh == IF Len(path) < VolSpan THEN 0 ELSE vol
<1>1. /\ path # <<>> /\ Len(path) < FirstValid
      /\ path' = Append(path, level) /\ vols' = Append(vols, fresh)
      /\ level >= 0 /\ UNCHANGED <<sPos, sNeg, upAt, downAt, tEvents, bet>>
  BY DEF WarmUpBar, WholePrice
<1>2. path \in Seq(Nat) /\ vols \in Seq(Nat) /\ Len(vols) = Len(path)
  BY DEF LabelInv, LabelTypeOK
<1>3. level \in Nat /\ fresh \in Nat
  BY <1>1, <1>2, LabelConstants
<1>4. /\ path' \in Seq(Nat) /\ vols' \in Seq(Nat)
      /\ Len(path') = Len(path) + 1 /\ Len(vols') = Len(path')
      /\ path'[Len(path)+1] = level
  BY <1>1, <1>2, <1>3, AppendBar
<1>5. sPos = 0 /\ sNeg = 0 /\ upAt = FirstValid /\ downAt = FirstValid /\ Len(path) \in Nat
  BY <1>1, <1>2 DEF LabelInv, ArmsPlaced
<1>6. LabelTypeOK'
  BY <1>1, <1>2, <1>4, LabelConstants DEF LabelInv, LabelTypeOK, FirstValid
<1>7. ArmsPlaced'
  BY <1>1, <1>4, <1>5, LabelConstants DEF ArmsPlaced, FirstValid
<1>8. CusumIsDrawup'
  <2> SUFFICES ASSUME Len(path') >= FirstValid
               PROVE  CusumIsDrawup'
    BY DEF CusumIsDrawup, FirstValid
  <2>1. Len(path') = FirstValid
    BY <1>1, <1>4, <1>5, LabelConstants
  <2>2. path'[FirstValid] - path'[FirstValid] = 0
    BY <1>1, <1>3, <1>4, <2>1
  <2> QED
    BY <1>1, <1>5, <2>1, <2>2, LabelConstants DEF CusumIsDrawup
<1> QED
  BY <1>6, <1>7, <1>8 DEF LabelInv

LEMMA FilterBarInv ==
  ASSUME LabelInv, NEW move \in Moves, NEW vol \in Vols, FilterBar(move, vol)
  PROVE  LabelInv'
<1> DEFINE n == Len(path)
           level == path[n] + move
           pos == IF sPos + move > 0 THEN sPos + move ELSE 0
           neg == IF sNeg + move < 0 THEN sNeg + move ELSE 0
           down == VolUnit * neg < -(Kappa * vol)
           up == ~down /\ VolUnit * pos > Kappa * vol
<1>1. /\ n >= FirstValid
      /\ sPos' = Arms(pos, neg, down, up)[1] /\ sNeg' = Arms(pos, neg, down, up)[2]
      /\ upAt' = (IF up THEN n + 1 ELSE upAt)
      /\ downAt' = (IF down THEN n + 1 ELSE downAt)
      /\ tEvents' = (IF down \/ up THEN tEvents \cup {n + 1} ELSE tEvents)
      /\ path' = Append(path, level) /\ vols' = Append(vols, vol)
      /\ level >= 0 /\ UNCHANGED bet
  BY DEF FilterBar, WholePrice
<1>2. /\ sPos' = (IF up THEN 0 ELSE pos) /\ upAt' = (IF up THEN n + 1 ELSE upAt)
      /\ sNeg' = (IF down THEN 0 ELSE neg) /\ downAt' = (IF down THEN n + 1 ELSE downAt)
  BY <1>1 DEF Arms
<1> HIDE DEF up, down
<1>3. /\ path \in Seq(Nat) /\ vols \in Seq(Nat) /\ Len(vols) = n /\ n \in Nat
      /\ sPos \in Nat /\ sNeg \in Int /\ sNeg <= 0 /\ path[n] \in Nat /\ move \in Int /\ vol \in Nat /\ level \in Nat
  BY <1>1, LabelConstants DEF LabelInv, LabelTypeOK
<1>4. /\ path' \in Seq(Nat) /\ vols' \in Seq(Nat)
      /\ Len(path') = n + 1 /\ Len(vols') = n + 1 /\ path'[n + 1] = level
      /\ \A i \in 1..n : path'[i] = path[i]
  BY <1>1, <1>3, AppendBar
<1>5. /\ pos \in Nat /\ pos >= sPos + move
      /\ neg \in Int /\ neg <= 0 /\ neg <= sNeg + move /\ level \in Int
      /\ level = path[n] + move /\ (pos = sPos + move \/ pos = 0) /\ (neg = sNeg + move \/ neg = 0)
  BY <1>3
<1> HIDE DEF level, pos, neg
<1>6. upAt \in FirstValid..n /\ downAt \in FirstValid..n /\ FirstValid \in Nat /\ FirstValid >= 3
      /\ FirstValid' = FirstValid
  BY <1>1, <1>3, LabelConstants DEF LabelInv, ArmsPlaced
<1>7. /\ n \in Int /\ upAt \in Int /\ downAt \in Int /\ upAt <= n /\ downAt <= n
  BY <1>3, <1>6
<1>8. LabelTypeOK'
  <2>1. tEvents \subseteq FirstValid + 1..n /\ bet \in {0, 1, -1}
    BY DEF LabelInv, LabelTypeOK
  <2>2. tEvents' \subseteq FirstValid + 1..n + 1
    <3>1. tEvents' \subseteq tEvents \cup {n + 1}
      BY <1>1
    <3>2. FirstValid \in Int /\ n \in Int /\ FirstValid <= n
      BY <1>3, <1>6
    <3> QED
      BY <2>1, <3>1, <3>2
  <2>3. upAt' \in Nat /\ downAt' \in Nat
    BY <1>2, <1>3, <1>6
  <2>4. sPos' \in Nat /\ sNeg' \in Int /\ sNeg' <= 0
    BY <1>2, <1>5
  <2> QED
    BY <1>1, <1>4, <1>6, <2>1, <2>2, <2>3, <2>4 DEF LabelTypeOK
<1>9. ArmsPlaced'
  <2>1. upAt' \in FirstValid..n + 1 /\ downAt' \in FirstValid..n + 1
    BY <1>2, <1>3, <1>6
  <2> QED
    BY <1>1, <1>3, <1>4, <1>6, <2>1 DEF ArmsPlaced
<1>10. /\ \A i \in upAt..n : sPos >= path[n] - path[i]
       /\ \E i \in upAt..n : sPos = path[n] - path[i]
       /\ \A i \in downAt..n : sNeg <= path[n] - path[i]
       /\ \E i \in downAt..n : sNeg = path[n] - path[i]
  BY <1>1 DEF LabelInv, CusumIsDrawup
<1>11. \E i \in upAt..n : sPos = path[n] - path[i]
  BY <1>10
<1>12. \E i \in downAt..n : sNeg = path[n] - path[i]
  BY <1>1 DEF LabelInv, CusumIsDrawup
<1>13. \A i \in 1..n : path[i] \in Int
  BY <1>3
<1>14. /\ \A i \in upAt'..n + 1 : sPos' >= level - path'[i]
       /\ \E i \in upAt'..n + 1 : sPos' = level - path'[i]
  <2>1. CASE up
    <3>1. sPos' = 0 /\ upAt' = n + 1
      BY <1>2, <2>1
    <3> QED
      BY <1>3, <1>4, <1>5, <3>1
  <2>2. CASE ~up
    <3>1. sPos' = pos /\ upAt' = upAt
      BY <1>2, <2>2
    <3>2. ASSUME NEW i \in upAt..n + 1
          PROVE  pos >= level - path'[i]
      <4>1. CASE i = n + 1
        <5>1. path'[i] = level
          BY <1>4, <4>1
        <5> QED
          BY <1>5, <5>1
      <4>2. CASE i \in upAt..n
        <5>1. path'[i] = path[i] /\ path[i] \in Int /\ sPos >= path[n] - path[i]
          BY <1>3, <1>4, <1>6, <1>10, <1>13, <4>2
        <5> QED
          BY <1>3, <1>5, <5>1
      <4> QED
        BY <1>7, <4>1, <4>2
    <3>3. \E i \in upAt..n + 1 : pos = level - path'[i]
      <4>1. CASE pos = sPos + move
        <5>1. PICK i \in upAt..n : sPos = path[n] - path[i]
          BY <1>11
        <5>2. path'[i] = path[i] /\ path[i] \in Int /\ i \in upAt..n + 1
          BY <1>3, <1>4, <1>6, <1>13
        <5>3. pos = level - path'[i]
          BY <1>3, <1>5, <4>1, <5>1, <5>2
        <5> QED
          BY <5>2, <5>3
      <4>2. CASE pos = 0
        <5>1. path'[n + 1] = level
          BY <1>4
        <5>2. pos = level - path'[n + 1]
          BY <1>5, <4>2, <5>1
        <5> QED
          BY <1>7, <5>2
      <4> QED
        BY <1>5, <4>1, <4>2
    <3> QED
      BY <3>1, <3>2, <3>3
  <2> QED
    BY <2>1, <2>2
<1>15. /\ \A i \in downAt'..n + 1 : sNeg' <= level - path'[i]
       /\ \E i \in downAt'..n + 1 : sNeg' = level - path'[i]
  <2>1. CASE down
    <3>1. sNeg' = 0 /\ downAt' = n + 1
      BY <1>2, <2>1
    <3> QED
      BY <1>3, <1>4, <1>5, <3>1
  <2>2. CASE ~down
    <3>1. sNeg' = neg /\ downAt' = downAt
      BY <1>2, <2>2
    <3>2. ASSUME NEW i \in downAt..n + 1
          PROVE  neg <= level - path'[i]
      <4>1. CASE i = n + 1
        <5>1. path'[i] = level
          BY <1>4, <4>1
        <5> QED
          BY <1>5, <5>1
      <4>2. CASE i \in downAt..n
        <5>1. path'[i] = path[i] /\ path[i] \in Int /\ sNeg <= path[n] - path[i]
          BY <1>3, <1>4, <1>6, <1>10, <1>13, <4>2
        <5> QED
          BY <1>3, <1>5, <5>1
      <4> QED
        BY <1>7, <4>1, <4>2
    <3>3. \E i \in downAt..n + 1 : neg = level - path'[i]
      <4>1. CASE neg = sNeg + move
        <5>1. PICK i \in downAt..n : sNeg = path[n] - path[i]
          BY <1>12
        <5>2. path'[i] = path[i] /\ path[i] \in Int /\ i \in downAt..n + 1
          BY <1>3, <1>4, <1>6, <1>13
        <5>3. neg = level - path'[i]
          BY <1>3, <1>5, <4>1, <5>1, <5>2
        <5> QED
          BY <5>2, <5>3
      <4>2. CASE neg = 0
        <5>1. path'[n + 1] = level
          BY <1>4
        <5>2. neg = level - path'[n + 1]
          BY <1>5, <4>2, <5>1
        <5> QED
          BY <1>7, <5>2
      <4> QED
        BY <1>5, <4>1, <4>2
    <3> QED
      BY <3>1, <3>2, <3>3
  <2> QED
    BY <2>1, <2>2
<1>16. CusumIsDrawup'
  BY <1>4, <1>14, <1>15 DEF CusumIsDrawup
<1> QED
  BY <1>8, <1>9, <1>16 DEF LabelInv

LEMMA LabelStepInv == LabelInv /\ [LabelNext]_labelVars => LabelInv'
<1> SUFFICES ASSUME LabelInv, [LabelNext]_labelVars
             PROVE  LabelInv'
  OBVIOUS
<1>1. CASE UNCHANGED labelVars
  BY <1>1 DEF LabelInv, LabelTypeOK, ArmsPlaced, CusumIsDrawup, FirstValid, labelVars
<1> QED
  BY <1>1, FirstBarInv, WarmUpBarInv, FilterBarInv DEF LabelNext

\* The inductive invariant.
THEOREM LabelInvariant == LabelSpec => []LabelInv
BY LabelInitInv, LabelStepInv, PTL DEF LabelSpec

\* The arms of the filter are the rise from the lowest close and the fall from the
\* highest one since the arm was reset (filters.py:50-57).
THEOREM CusumMeasures == LabelSpec => []CusumIsDrawup
BY LabelInvariant, PTL DEF LabelInv

-----------------------------------------------------------------------------
(* Labels are final.                                                       *)

\* A bar adds to the history and changes nothing of it.
LEMMA HistoryGrows ==
  ASSUME LabelInv, LabelNext
  PROVE  /\ Len(path) \in Nat /\ Len(path') \in Nat /\ Len(path) <= Len(path')
         /\ \A i \in 1..Len(path) : path'[i] = path[i] /\ vols'[i] = vols[i]
         /\ tEvents \subseteq tEvents' /\ tEvents \subseteq 4..Len(path)
         /\ tEvents # {} => bet' = bet
<1>1. path \in Seq(Nat) /\ vols \in Seq(Nat) /\ Len(vols) = Len(path)
  BY DEF LabelInv, LabelTypeOK
<1>2. tEvents \subseteq 4..Len(path)
  BY <1>1, LabelConstants DEF LabelInv, LabelTypeOK
<1>3. ASSUME NEW side \in {0, 1, -1}, FirstBar(side)
      PROVE  /\ Len(path) = 0 /\ Len(path') = 1 /\ tEvents \subseteq tEvents' /\ tEvents = {}
  BY <1>2, <1>3, LabelConstants DEF FirstBar
<1>4. ASSUME NEW move \in Moves, NEW vol \in Vols, WarmUpBar(move, vol) \/ FilterBar(move, vol)
      PROVE  /\ Len(path') = Len(path) + 1
             /\ \A i \in 1..Len(path) : path'[i] = path[i] /\ vols'[i] = vols[i]
             /\ tEvents \subseteq tEvents' /\ bet' = bet
  <2> DEFINE level == path[Len(path)] + move
  <2>1. Len(path) > 0
    BY <1>1, <1>4, LabelConstants DEF WarmUpBar, FilterBar
  <2>2. level \in Nat
    BY <1>1, <1>4, <2>1, LabelConstants DEF WarmUpBar, FilterBar, WholePrice
  <2>3. path' = Append(path, level) /\ bet' = bet /\ tEvents \subseteq tEvents'
    BY <1>4 DEF WarmUpBar, FilterBar
  <2>4. \E v \in Nat : vols' = Append(vols, v)
    <3>1. vol \in Nat /\ 0 \in Nat
      BY LabelConstants
    <3> QED
      BY <1>4, <3>1 DEF WarmUpBar, FilterBar
  <2>5. PICK v \in Nat : vols' = Append(vols, v)
    BY <2>4
  <2> HIDE DEF level
  <2> QED
    BY <1>1, <2>2, <2>3, <2>5, AppendBar
<1>5. Len(path) \in Nat /\ \A i \in 1..0 : FALSE
  BY <1>1
<1>6. CASE \E side \in {0, 1, -1} : FirstBar(side)
  <2>1. Len(path) = 0 /\ Len(path') = 1 /\ tEvents \subseteq tEvents' /\ tEvents = {}
    BY <1>3, <1>6
  <2> QED
    BY <1>2, <1>5, <2>1
<1>7. CASE \E move \in Moves, vol \in Vols : WarmUpBar(move, vol) \/ FilterBar(move, vol)
  <2>1. /\ Len(path') = Len(path) + 1
        /\ \A i \in 1..Len(path) : path'[i] = path[i] /\ vols'[i] = vols[i]
        /\ tEvents \subseteq tEvents' /\ bet' = bet
    BY <1>4, <1>7
  <2> QED
    BY <1>2, <1>5, <2>1
<1> QED
  BY <1>6, <1>7 DEF LabelNext

\* A least element is the one that Min chooses.
LEMMA MinIs ==
  ASSUME NEW S, S \subseteq Int, NEW m \in S, \A j \in S : m <= j
  PROVE  Min(S) = m
<1>1. Min(S) \in S /\ \A j \in S : Min(S) <= j
  BY DEF Min
<1>2. Min(S) <= m /\ m <= Min(S) /\ Min(S) \in Int /\ m \in Int
  BY <1>1
<1> QED
  BY <1>2

\* Everything a label says of a resolved event, it says after the next bar too.
LEMMA LabelStays ==
  ASSUME LabelInv, LabelNext, NEW e \in Events, Resolved(e)
  PROVE  /\ e \in Events' /\ Resolved(e)'
         /\ FirstTouch(e)' = FirstTouch(e) /\ Barrier(e)' = Barrier(e) /\ Bin(e)' = Bin(e)
<1> DEFINE n == Len(path)
           end == IF Vertical(e) THEN VerticalBarrier(e) ELSE n
           end2 == IF Vertical(e)' THEN VerticalBarrier(e) ELSE Len(path')
<1>1. /\ n \in Nat /\ Len(path') \in Nat /\ n <= Len(path')
      /\ \A i \in 1..n : path'[i] = path[i] /\ vols'[i] = vols[i]
      /\ e \in tEvents' /\ e \in 1..n /\ e \in Nat /\ bet' = bet
  BY HistoryGrows DEF Events
<1>2. VerticalBarrier(e) \in Nat /\ VerticalBarrier(e) >= e /\ VerticalBarrier(e)' = VerticalBarrier(e)
  BY <1>1, LabelConstants DEF VerticalBarrier
<1>3. Vertical(e) => Vertical(e)' /\ VerticalBarrier(e) <= n
  BY <1>1, <1>2 DEF Vertical
<1>4. e \in Events'
  BY <1>1 DEF Events
<1>5. vols'[e] = vols[e] /\ path'[e] = path[e] /\ Side' = Side
  BY <1>1 DEF Side
<1>6. ASSUME NEW i \in 1..n
      PROVE  TakesProfit(e, i)' = TakesProfit(e, i) /\ StopsLoss(e, i)' = StopsLoss(e, i)
  <2>1. path'[i] = path[i]
    BY <1>1
  <2>2. Price(i)' = Price(i) /\ Price(e)' = Price(e)
    BY <1>5, <2>1 DEF Price
  <2>3. Gain(e, i)' = Gain(e, i)
    BY <1>5, <2>2 DEF Gain
  <2> QED
    BY <1>5, <2>2, <2>3 DEF TakesProfit, StopsLoss
<1>7. Touches(e) = {i \in e..end : TakesProfit(e, i) \/ StopsLoss(e, i)}
      /\ Touches(e)' = {i \in e..end2 : TakesProfit(e, i)' \/ StopsLoss(e, i)'}
  BY <1>2 DEF Touches
<1>8. end \in e..n /\ end2 \in Nat /\ end <= end2 /\ (Vertical(e) => end2 = end) /\ (~Vertical(e) => end = n)
  BY <1>1, <1>2, <1>3 DEF Vertical
<1> HIDE DEF end, end2
<1>9. Touches(e) = {i \in Touches(e)' : i <= end} /\ Touches(e) \in SUBSET (1..n)
      /\ Touches(e)' \subseteq Int
  BY <1>1, <1>6, <1>7, <1>8
<1>10. FirstTouch(e)' = FirstTouch(e) /\ FirstTouch(e) \in 1..n /\ (Touches(e) = {} <=> Touches(e)' = {})
  <2>1. CASE Touches(e) # {}
    <3>1. PICK m \in Touches(e) : \A j \in Touches(e) : m <= j
      BY <1>1, <1>9, <2>1, LeastExists
    <3>2. m \in 1..n /\ m <= end /\ m \in Touches(e)'
      BY <1>9
    <3>3. \A j \in Touches(e)' : m <= j
      BY <1>8, <1>9, <3>1, <3>2
    <3>4. Touches(e) \subseteq Int
      BY <1>9
    <3>5. Min(Touches(e)) = m
      BY <3>1, <3>4, MinIs
    <3>6. Min(Touches(e)') = m
      BY <1>9, <3>2, <3>3, MinIs
    <3> QED
      BY <2>1, <3>2, <3>5, <3>6 DEF FirstTouch
  <2>2. CASE Touches(e) = {}
    <3>1. Vertical(e)
      BY <2>2 DEF Resolved
    <3>2. Touches(e)' = {}
      BY <1>7, <1>8, <1>9, <2>2, <3>1
    <3> QED
      BY <1>1, <1>2, <1>3, <2>2, <3>1, <3>2 DEF FirstTouch
  <2> QED
    BY <2>1, <2>2
<1>11. Resolved(e)'
  BY <1>3, <1>10 DEF Resolved
<1>12. TakesProfit(e, FirstTouch(e))' = TakesProfit(e, FirstTouch(e))
       /\ Return(e)' = Return(e)
  <2>1. path'[FirstTouch(e)'] = path[FirstTouch(e)]
    BY <1>1, <1>10
  <2> QED
    BY <1>5, <2>1 DEF TakesProfit, Gain, Price, Return
<1>13. Barrier(e)' = Barrier(e)
  BY <1>10, <1>12 DEF Barrier
<1>14. Bin(e)' = Bin(e)
  BY <1>1, <1>12 DEF Bin
<1> QED
  BY <1>4, <1>10, <1>11, <1>13, <1>14

\* No label looks ahead: whatever bars follow, it stays (barriers.py:74-79, 302).
THEOREM NoLookAhead == LabelSpec => LabelsAreFinal
<1>1. LabelInv /\ [LabelNext]_labelVars => [GetBins \subseteq GetBins']_labelVars
  <2> SUFFICES ASSUME LabelInv, LabelNext
               PROVE  GetBins \subseteq GetBins'
    OBVIOUS
  <2> SUFFICES ASSUME NEW e \in Events, Resolved(e)
               PROVE  [t0 |-> e, t1 |-> FirstTouch(e), barrier |-> Barrier(e), bin |-> Bin(e)] \in GetBins'
    BY DEF GetBins
  <2>1. /\ e \in Events' /\ Resolved(e)'
        /\ FirstTouch(e)' = FirstTouch(e) /\ Barrier(e)' = Barrier(e) /\ Bin(e)' = Bin(e)
    BY LabelStays
  <2>2. [t0 |-> e, t1 |-> FirstTouch(e), barrier |-> Barrier(e), bin |-> Bin(e)]'
        \in {[t0 |-> d, t1 |-> FirstTouch(d), barrier |-> Barrier(d), bin |-> Bin(d)]' :
              d \in {c \in Events' : Resolved(c)'}}
    BY <2>1
  <2> QED
    BY <2>1, <2>2 DEF GetBins
<1> QED
  BY <1>1, LabelInvariant, PTL DEF LabelSpec, LabelsAreFinal

-----------------------------------------------------------------------------
(* Labels and barriers.                                                    *)

\* Of a resolved event, the first touch is the earliest, or the whole horizon.
LEMMA FirstTouchIs ==
  ASSUME LabelInv, NEW e \in Events, Resolved(e)
  PROVE  /\ e \in 1..Len(path) /\ e \in Nat
         /\ FirstTouch(e) \in e..Len(path) /\ FirstTouch(e) <= e + MaxHp
         /\ Touches(e) # {} => FirstTouch(e) \in Touches(e)
         /\ Touches(e) = {} => FirstTouch(e) = e + MaxHp
         /\ \A i \in e..FirstTouch(e) - 1 : ~TakesProfit(e, i) /\ ~StopsLoss(e, i)
<1> DEFINE n == Len(path)
           end == IF Vertical(e) THEN VerticalBarrier(e) ELSE n
<1>1. n \in Nat /\ e \in 1..n /\ e \in Nat /\ MaxHp \in Nat
  BY LabelConstants DEF LabelInv, LabelTypeOK, Events
<1>2. Touches(e) = {i \in e..end : TakesProfit(e, i) \/ StopsLoss(e, i)}
  BY DEF Touches
<1>3. end \in e..n /\ end <= e + MaxHp /\ (Vertical(e) => end = e + MaxHp)
  BY <1>1 DEF Vertical, VerticalBarrier
<1> HIDE DEF end
<1>4. CASE Touches(e) # {}
  <2>1. Touches(e) \in SUBSET (1..n) /\ Touches(e) \subseteq Int
    BY <1>1, <1>2, <1>3
  <2>2. PICK m \in Touches(e) : \A j \in Touches(e) : m <= j
    BY <1>1, <1>4, <2>1, LeastExists
  <2>3. FirstTouch(e) = m
    BY <1>4, <2>1, <2>2, MinIs DEF FirstTouch
  <2>4. m \in e..end
    BY <1>2
  <2>5. ASSUME NEW i \in e..m - 1
        PROVE  i \notin Touches(e) /\ i \in e..end
    BY <1>1, <1>3, <2>2, <2>4
  <2> QED
    BY <1>1, <1>2, <1>3, <1>4, <2>2, <2>3, <2>4, <2>5
<1>5. CASE Touches(e) = {}
  <2>1. Vertical(e) /\ FirstTouch(e) = e + MaxHp /\ end = e + MaxHp
    BY <1>3, <1>5 DEF Resolved, FirstTouch, VerticalBarrier
  <2> QED
    BY <1>1, <1>2, <1>3, <1>5, <2>1
<1> QED
  BY <1>4, <1>5

\* Beyond the band a gain has the sign of its return.
LEMMA GainHasSign ==
  ASSUME NEW u \in Nat \ {0}, NEW s \in {1, -1}, NEW d \in Int,
         NEW a \in Nat, NEW b \in Nat, NEW c \in Nat
  PROVE  /\ u * s * d > a * b * c => s * d > 0
         /\ u * s * d < -(a * b * c) => s * d < 0
<1>1. \A x, y \in Nat : x * y \in Nat
  OBVIOUS
<1>2. a * b * c \in Nat
  <2>1. a * b \in Nat
    BY <1>1
  <2> QED
    BY <1>1, <2>1
<1>3. u * s * d = u * (s * d) /\ s * d \in Int
  OBVIOUS
<1>4. \A x \in Int : (x <= 0 => u * x <= 0) /\ (x >= 0 => u * x >= 0)
  OBVIOUS
<1> QED
  BY <1>2, <1>3, <1>4

\* Until t1 no close leaves the band, at t1 a profit is a 1 and a loss is not, and
\* a vertical label has waited its whole horizon, on every path and either side
\* (barriers.py:144-173, 302-314).
THEOREM LabelsTellTheStory == LabelSpec => []BinAgreesWithBarrier
<1>1. LabelInv => BinAgreesWithBarrier
  <2> SUFFICES ASSUME LabelInv, NEW l \in GetBins
               PROVE  /\ \A i \in l.t0..l.t1 - 1 : ~TakesProfit(l.t0, i) /\ ~StopsLoss(l.t0, i)
                      /\ l.t1 <= l.t0 + MaxHp
                      /\ l.barrier = "UPPER" => l.bin = 1
                      /\ l.barrier = "LOWER" => l.bin = IF bet = 0 THEN -1 ELSE 0
                      /\ l.barrier = "VERTICAL" => l.t1 = l.t0 + MaxHp
    BY DEF BinAgreesWithBarrier
  <2>1. PICK e \in Events :
          /\ Resolved(e)
          /\ l = [t0 |-> e, t1 |-> FirstTouch(e), barrier |-> Barrier(e), bin |-> Bin(e)]
    BY DEF GetBins
  <2> DEFINE t == FirstTouch(e)
  <2>2. /\ e \in 1..Len(path) /\ e \in Nat /\ t \in e..Len(path) /\ t <= e + MaxHp
        /\ Touches(e) # {} => t \in Touches(e)
        /\ Touches(e) = {} => t = e + MaxHp
        /\ \A i \in e..t - 1 : ~TakesProfit(e, i) /\ ~StopsLoss(e, i)
    BY <2>1, FirstTouchIs
  <2>3. l.t0 = e /\ l.t1 = t /\ l.barrier = Barrier(e) /\ l.bin = Bin(e)
    BY <2>1
  <2> HIDE DEF t
  <2>4. path \in Seq(Nat) /\ vols \in Seq(Nat) /\ Len(vols) = Len(path) /\ bet \in {0, 1, -1}
    BY DEF LabelInv, LabelTypeOK
  <2>5. t \in 1..Len(path) /\ path[t] \in Nat /\ path[e] \in Nat /\ vols[e] \in Nat
    BY <2>2, <2>4
  <2>6. Price(t) \in Nat /\ Price(e) \in Nat
    <3>1. 2 \in Nat \ {0}
      OBVIOUS
    <3>2. Power(2, path[t]) \in Nat /\ Power(2, path[e]) \in Nat
      BY <2>5, <3>1, PowerFacts
    <3> QED
      BY <3>2 DEF Price
  <2>7. /\ VolUnit \in Nat \ {0} /\ Side \in {1, -1} /\ PtMult \in Nat /\ SlMult \in Nat
        /\ Price(t) - Price(e) \in Int /\ Return(e) = Side * (Price(t) - Price(e))
    BY <2>4, <2>6, LabelAssumption DEF Side, LegalConfig, Return, t
  <2>8. TakesProfit(e, t) => Return(e) > 0
    BY <2>5, <2>6, <2>7, GainHasSign DEF TakesProfit, Gain
  <2>9. StopsLoss(e, t) => Return(e) < 0
    BY <2>5, <2>6, <2>7, GainHasSign DEF StopsLoss, Gain
  <2>10. Return(e) \in Int
    BY <2>7
  <2>11. Barrier(e) = "UPPER" => Bin(e) = 1
    BY <2>8, <2>10 DEF Barrier, Bin, Sign, t
  <2>12. Barrier(e) = "LOWER" => Bin(e) = IF bet = 0 THEN -1 ELSE 0
    <3>1. Barrier(e) = "LOWER" => StopsLoss(e, t)
      BY <2>2 DEF Barrier, Touches, t
    <3> QED
      BY <2>4, <2>9, <2>10, <3>1 DEF Bin, Sign
  <2>13. Barrier(e) = "VERTICAL" => t = e + MaxHp
    BY <2>2 DEF Barrier
  <2> QED
    BY <2>2, <2>3, <2>11, <2>12, <2>13
<1> QED
  BY <1>1, LabelInvariant, PTL

-----------------------------------------------------------------------------
(* Weights (SampleWeights).                                                *)

\* The events open at a bar.
Spanning(i) == {e \in Labelled : IndMatrix(e, i)}

\* What the build leaves for the bootstrap: every label spans bars of the path, no
\* more than its horizon; the sweep has counted the labels that span each bar; and
\* uniqueness is the mean over a label's bars.
SpansKept ==
  /\ IsFiniteSet(Labelled)
  /\ \A e \in Labelled : /\ e \in 4..Len(path) /\ t1[e] \in e..Len(path)
                         /\ t1[e] <= e + MaxHp
WeightsBuilt ==
  Labelled # {} =>
    /\ \A i \in 0..Len(path) : coEvents[i] = Cardinality(Spanning(i))
    /\ DOMAIN tw = Labelled /\ \A e \in Labelled : tw[e] = MeanShare(e..t1[e], coEvents)

\* Nothing is there before the build.
NothingYet == Labelled = {} => DOMAIN tw = {}

WeightInv ==
  /\ LabelInv /\ SpansKept /\ WeightsBuilt /\ NothingYet
  /\ phi \in Seq(Labelled) /\ Len(phi) <= MaxDraws

-----------------------------------------------------------------------------
\* The sweep over the differences counts the intervals that contain a bar.
LEMMA SweepCounts ==
  ASSUME path \in Seq(Nat), NEW ends, IsFiniteSet(DOMAIN ends),
         \A e \in DOMAIN ends : e \in 1..Len(path) /\ ends[e] \in e..Len(path)
  PROVE  \A i \in 0..Len(path) :
           NumCoEvents(ends)[i] = Cardinality({e \in DOMAIN ends : e <= i /\ i <= ends[e]})
<1> DEFINE n == Len(path)
           D == DOMAIN ends
           Open(i) == {e \in D : e <= i /\ i <= ends[e]}
           Begun(i) == {e \in D : e = i}
           Over(i) == {e \in D : AfterEnd(ends[e]) = i}
           body(f) == [i \in 0..n |-> IF i = 0 THEN 0
                                      ELSE f[i - 1] + Cardinality(Begun(i)) - Cardinality(Over(i))]
           count == CHOOSE f : f = body(f)
           Change == [i \in 1..n |-> [v \in Int |-> v + Cardinality(Begun(i)) - Cardinality(Over(i))]]
           none == 0
<1>1. n \in Nat
  OBVIOUS
<1>2. \A i : /\ IsFiniteSet(Open(i)) /\ Cardinality(Open(i)) \in Nat
             /\ IsFiniteSet(Begun(i)) /\ Cardinality(Begun(i)) \in Nat
             /\ IsFiniteSet(Over(i)) /\ Cardinality(Over(i)) \in Nat
  BY FS_Subset, FS_CardinalityType
<1>3. ASSUME NEW i \in 1..n
      PROVE  Cardinality(Open(i)) = Cardinality(Open(i - 1)) + Cardinality(Begun(i)) - Cardinality(Over(i))
  <2>1. /\ Open(i - 1) \union Begun(i) = Open(i) \union Over(i)
        /\ Open(i - 1) \cap Begun(i) = {} /\ Open(i) \cap Over(i) = {}
    BY DEF AfterEnd
  <2> HIDE DEF Open, Begun, Over
  <2>2. Cardinality(Open(i - 1) \union Begun(i)) = Cardinality(Open(i - 1)) + Cardinality(Begun(i))
    BY <1>2, <2>1, DisjointSize
  <2>3. Cardinality(Open(i) \union Over(i)) = Cardinality(Open(i)) + Cardinality(Over(i))
    BY <1>2, <2>1, DisjointSize
  <2>5. Cardinality(Open(i - 1)) + Cardinality(Begun(i)) = Cardinality(Open(i)) + Cardinality(Over(i))
    BY <2>1, <2>2, <2>3, Zenon
  <2> DEFINE a == Cardinality(Open(i - 1))
             b == Cardinality(Begun(i))
             c == Cardinality(Open(i))
             d == Cardinality(Over(i))
  <2>6. a \in Nat /\ b \in Nat /\ c \in Nat /\ d \in Nat
    BY <1>2
  <2>7. a + b = c + d
    BY <2>5
  <2> HIDE DEF a, b, c, d
  <2>8. c = a + b - d
    BY <2>6, <2>7
  <2> QED
    BY <2>8 DEF a, b, c, d
<1>4. Cardinality(Open(0)) = 0
  <2>1. Open(0) = {}
    OBVIOUS
  <2> QED
    BY <2>1, FS_EmptySet
<1> HIDE DEF Open
<1>5. /\ Change \in StepsFrom(1, n, Int) /\ none \in Int /\ 1 \in Nat \ {0} /\ 1 <= n + 1
      /\ \A i \in 1..n : \A v \in Int : Change[i][v] = v + Cardinality(Begun(i)) - Cardinality(Over(i))
  <2> HIDE DEF n, Begun, Over
  <2> QED
    BY <1>1, <1>2 DEF StepsFrom
<1> HIDE DEF Change, none, Begun, Over
<1>6. PICK g : Follows(g, 1, n, Int, none, Change)
  <2> HIDE DEF n
  <2> QED
    BY <1>1, <1>5, RecursionFrom
<1>7. 1 - 1 = 0 /\ (\A i \in 1..n : i - 1 \in 0..n /\ i # 0) /\ \A i \in 0..n : i = 0 \/ i \in 1..n
  OBVIOUS
<1>8. g \in [0..n -> Int] /\ g[0] = 0
      /\ \A i \in 1..n : g[i] = g[i - 1] + Cardinality(Begun(i)) - Cardinality(Over(i))
  <2>1. g \in [0..n -> Int] /\ g[0] = none /\ \A i \in 1..n : g[i] = Change[i][g[i - 1]]
    BY <1>6, <1>7, Zenon DEF Follows
  <2>2. \A i \in 1..n : g[i - 1] \in Int
    BY <1>7, <2>1
  <2>3. \A i \in 1..n : g[i] = g[i - 1] + Cardinality(Begun(i)) - Cardinality(Over(i))
    BY <1>5, <2>1, <2>2
  <2> QED
    BY <2>1, <2>3 DEF none
<1>9. g = body(g)
  BY <1>7, <1>8
<1>10. count = body(count)
  <2> HIDE DEF body
  <2> QED
    BY <1>9
<1>11. NumCoEvents(ends) = count
  BY DEF NumCoEvents, Begun, Over
<1> HIDE DEF count
<1>12. /\ DOMAIN count = 0..n /\ count[0] = 0
       /\ \A i \in 1..n : count[i] = count[i - 1] + Cardinality(Begun(i)) - Cardinality(Over(i))
  BY <1>7, <1>10
<1> DEFINE Right == {i \in 0..n : count[i] = Cardinality(Open(i))}
<1>13. 0 \in Right
  BY <1>4, <1>12
<1>14. \A i \in 1..n : i - 1 \in Right => i \in Right
  BY <1>3, <1>7, <1>12
<1>15. \A i \in 0..n : i \in Right
  <2> HIDE DEF Right, n
  <2> QED
    BY <1>1, <1>13, <1>14, Induction
<1> QED
  BY <1>11, <1>15 DEF Open

\* Every label that a history has spans bars of the path, within its horizon.
LEMMA EndsSpan ==
  ASSUME LabelInv
  PROVE  /\ DOMAIN Ends = {l.t0 : l \in GetBins} /\ IsFiniteSet(DOMAIN Ends)
         /\ \A e \in DOMAIN Ends : /\ e \in 4..Len(path) /\ Ends[e] \in e..Len(path)
                                   /\ Ends[e] <= e + MaxHp
<1>1. ASSUME NEW l \in GetBins
      PROVE  l.t0 \in 4..Len(path) /\ l.t1 \in l.t0..Len(path) /\ l.t1 <= l.t0 + MaxHp
  <2>1. PICK e \in Events : Resolved(e) /\ l.t0 = e /\ l.t1 = FirstTouch(e)
    BY DEF GetBins
  <2>2. e \in 4..Len(path)
    BY LabelConstants DEF Events, LabelInv, LabelTypeOK
  <2> QED
    BY <2>1, <2>2, FirstTouchIs
<1>2. DOMAIN Ends = {l.t0 : l \in GetBins}
  BY DEF Ends
<1>3. ASSUME NEW e \in DOMAIN Ends
      PROVE  \E l \in GetBins : l.t0 = e /\ Ends[e] = l.t1
  <2>1. Ends[e] = (CHOOSE l \in GetBins : l.t0 = e).t1
    BY <1>2 DEF Ends
  <2> QED
    BY <1>2, <2>1
<1>4. IsFiniteSet(DOMAIN Ends)
  <2>1. Len(path) \in Nat /\ DOMAIN Ends \subseteq 4..Len(path)
    BY <1>1, <1>2 DEF LabelInv, LabelTypeOK
  <2>2. IsFiniteSet(4..Len(path))
    BY <2>1, FS_Interval
  <2> QED
    BY <2>1, <2>2, FS_Subset
<1> QED
  BY <1>1, <1>2, <1>3, <1>4

LEMMA WeightInitInv == WeightInit => WeightInv
<1> SUFFICES ASSUME WeightInit PROVE WeightInv
  OBVIOUS
<1>1. Labelled = {} /\ IsFiniteSet(Labelled) /\ phi = <<>> /\ tw = <<>>
  BY FS_EmptySet DEF WeightInit, Labelled
<1>2. phi \in Seq(Labelled) /\ Len(phi) = 0
  BY <1>1
<1> QED
  BY <1>1, <1>2, LabelInitInv, WeightAssumption
     DEF WeightInit, WeightInv, SpansKept, WeightsBuilt, NothingYet

LEMMA BuildWeightsInv ==
  ASSUME WeightInv, BuildWeights
  PROVE  WeightInv'
<1>1. /\ t1' = Ends /\ coEvents' = NumCoEvents(t1') /\ tw' = AvgUniqueness(t1', coEvents')
      /\ UNCHANGED labelVars /\ phi' = phi /\ t1 = <<>>
  BY DEF BuildWeights
<1>2. LabelInv' /\ path' = path
  BY <1>1 DEF WeightInv, LabelInv, LabelTypeOK, ArmsPlaced, CusumIsDrawup, labelVars, FirstValid
<1>3. /\ Labelled' = DOMAIN Ends /\ IsFiniteSet(DOMAIN Ends)
      /\ \A e \in DOMAIN Ends : /\ e \in 4..Len(path) /\ Ends[e] \in e..Len(path)
                                /\ Ends[e] <= e + MaxHp
  BY <1>1, EndsSpan DEF WeightInv, Labelled
<1>4. SpansKept'
  BY <1>1, <1>2, <1>3 DEF SpansKept
<1>5. \A i \in 0..Len(path) :
        coEvents'[i] = Cardinality({e \in DOMAIN Ends : e <= i /\ i <= Ends[e]})
  <2>1. path \in Seq(Nat) /\ Len(path) \in Nat
    BY DEF WeightInv, LabelInv, LabelTypeOK
  <2>2. \A e \in DOMAIN Ends : e \in 1..Len(path) /\ Ends[e] \in e..Len(path)
    BY <1>3, <2>1
  <2> QED
    BY <1>1, <1>3, <2>1, <2>2, SweepCounts
<1>6. WeightsBuilt'
  <2>1. \A i : {e \in DOMAIN Ends : e <= i /\ i <= Ends[e]} = Spanning(i)'
    BY <1>1, <1>3 DEF Spanning, IndMatrix
  <2>2. \A i \in 0..Len(path') : coEvents'[i] = Cardinality(Spanning(i)')
    BY <1>2, <1>5, <2>1
  <2>3. DOMAIN tw' = Labelled' /\ \A e \in Labelled' : tw'[e] = MeanShare(e..t1'[e], coEvents')
    BY <1>1 DEF AvgUniqueness, Labelled
  <2> QED
    BY <2>2, <2>3 DEF WeightsBuilt
<1>7. NothingYet'
  <2>1. Labelled' # {}
    BY <1>3, EndsSpan DEF BuildWeights, WeightInv
  <2> QED
    BY <2>1 DEF NothingYet
<1>8. phi' \in Seq(Labelled') /\ Len(phi') <= MaxDraws
  <2>1. Labelled = {}
    BY <1>1 DEF Labelled
  <2>2. phi \in Seq(Labelled')
    BY <2>1 DEF WeightInv
  <2> QED
    BY <1>1, <2>2 DEF WeightInv
<1> QED
  BY <1>2, <1>4, <1>6, <1>7, <1>8 DEF WeightInv

LEMMA DrawInv ==
  ASSUME WeightInv, NEW e \in Labelled, Draw(e)
  PROVE  WeightInv'
<1>1. /\ Len(phi) < MaxDraws /\ phi' = Append(phi, e)
      /\ UNCHANGED <<labelVars, t1, coEvents, tw>>
  BY DEF Draw
<1>2. LabelInv' /\ path' = path /\ Labelled' = Labelled
  BY <1>1 DEF WeightInv, LabelInv, LabelTypeOK, ArmsPlaced, CusumIsDrawup, labelVars, FirstValid,
              Labelled
<1>3. phi' \in Seq(Labelled) /\ Len(phi') <= MaxDraws
  BY <1>1, WeightAssumption DEF WeightInv
<1>4. \A i : Spanning(i)' = Spanning(i)
  BY <1>1, <1>2 DEF Spanning, IndMatrix
<1> QED
  BY <1>1, <1>2, <1>3, <1>4 DEF WeightInv, SpansKept, WeightsBuilt, NothingYet

LEMMA WeightStepInv == WeightInv /\ [WeightNext]_weightVars => WeightInv'
<1> SUFFICES ASSUME WeightInv, [WeightNext]_weightVars
             PROVE  WeightInv'
  OBVIOUS
<1>1. CASE t1 = <<>> /\ LabelNext /\ UNCHANGED <<t1, coEvents, tw, phi>>
  <2>1. Labelled = {} /\ Labelled' = {}
    BY <1>1 DEF Labelled
  <2>2. LabelInv'
    BY <1>1, LabelStepInv DEF WeightInv
  <2>3. phi' \in Seq(Labelled') /\ Len(phi') <= MaxDraws
    BY <1>1, <2>1 DEF WeightInv
  <2>4. SpansKept' /\ WeightsBuilt' /\ NothingYet'
    BY <1>1, <2>1, FS_EmptySet DEF SpansKept, WeightsBuilt, NothingYet, WeightInv
  <2> QED
    BY <2>2, <2>3, <2>4 DEF WeightInv
<1>2. CASE BuildWeights
  BY <1>2, BuildWeightsInv
<1>3. CASE \E e \in Labelled : Draw(e)
  BY <1>3, DrawInv
<1>4. CASE UNCHANGED weightVars
  <2>1. LabelInv' /\ path' = path /\ Labelled' = Labelled
    BY <1>4 DEF WeightInv, LabelInv, LabelTypeOK, ArmsPlaced, CusumIsDrawup, labelVars, weightVars,
                FirstValid, Labelled
  <2>2. \A i : Spanning(i)' = Spanning(i)
    BY <1>4, <2>1 DEF Spanning, IndMatrix, weightVars
  <2> QED
    BY <1>4, <2>1, <2>2 DEF WeightInv, SpansKept, WeightsBuilt, NothingYet, weightVars
<1> QED
  BY <1>1, <1>2, <1>3, <1>4 DEF WeightNext

LEMMA WeightInvariant == WeightSpec => []WeightInv
BY WeightInitInv, WeightStepInv, PTL DEF WeightSpec

-----------------------------------------------------------------------------
(* The two ways to a uniqueness.                                           *)

\* A finite set is listed once over.
LEMMA ListedOnce ==
  ASSUME NEW S, IsFiniteSet(S)
  PROVE  /\ Cardinality(S) \in Nat /\ SetToSeq(S) \in [1..Cardinality(S) -> S]
         /\ \A j, k \in 1..Cardinality(S) : j # k => SetToSeq(S)[j] # SetToSeq(S)[k]
         /\ \A x \in S : \E k \in 1..Cardinality(S) : SetToSeq(S)[k] = x
<1> DEFINE n == Cardinality(S)
           f == SetToSeq(S)
<1>1. n \in Nat /\ ExistsBijection(1..n, S)
  BY FS_CardinalityType
<1>2. \E g \in [1..n -> S] : IsInjective(g)
  BY <1>1 DEF ExistsBijection, Bijection, Injection
<1>3. f \in [1..n -> S] /\ IsInjective(f)
  BY <1>2 DEF SetToSeq
<1>4. f \in Surjection(1..n, S)
  <2>1. IsFiniteSet(1..n) /\ Cardinality(1..n) = n
    BY <1>1, FS_Interval
  <2>2. f \in Injection(1..n, S)
    BY <1>3 DEF Injection
  <2> HIDE DEF f
  <2> QED
    BY <2>1, <2>2, FS_Injection
<1> HIDE DEF f
<1> QED
  BY <1>1, <1>3, <1>4 DEF IsInjective, Surjection, f

\* The bars of a label are its rows in the indicator matrix.
LEMMA RowsOfLabel ==
  ASSUME WeightInv, NEW e \in Labelled
  PROVE  /\ {i \in DOMAIN path : IndMatrix(e, i)} = e..t1[e]
         /\ IsFiniteSet(e..t1[e]) /\ Cardinality(e..t1[e]) \in 1..MaxHp + 1
         /\ \A i \in e..t1[e] : i \in 1..Len(path) /\ i - 1 \in 1..Len(path) /\ IndMatrix(e, i)
<1>1. /\ e \in 4..Len(path) /\ t1[e] \in e..Len(path) /\ t1[e] <= e + MaxHp
      /\ path \in Seq(Nat) /\ Len(path) \in Nat /\ DOMAIN path = 1..Len(path) /\ MaxHp \in Nat
  BY LabelConstants DEF WeightInv, SpansKept, LabelInv, LabelTypeOK
<1> DEFINE t == t1[e]
<1>2. IsFiniteSet(e..t1[e]) /\ Cardinality(e..t1[e]) = t1[e] - e + 1
  <2>1. e \in Int /\ t \in Int /\ e <= t
    BY <1>1
  <2> HIDE DEF t
  <2>2. IsFiniteSet(e..t) /\ Cardinality(e..t) = t - e + 1
    BY <2>1, FS_Interval
  <2> QED
    BY <2>2 DEF t
<1> QED
  BY <1>1, <1>2 DEF IndMatrix

\* Sweeping and summing up rows give the same uniqueness, whatever labels a history
\* has (concurrency.py:91-94, bootstrap.py:88-90).
THEOREM UniquenessIsOne == WeightSpec => []UniquenessPathsAgree
<1>1. WeightInv => UniquenessPathsAgree
  <2> DEFINE columns == SetToSeq(Labelled)
             n == Cardinality(Labelled)
  <2> SUFFICES ASSUME WeightInv, NEW k \in DOMAIN columns
               PROVE  tw[columns[k]] = IndMatrixAvgUniqueness(columns, k)
    BY DEF UniquenessPathsAgree
  <2>1. /\ n \in Nat /\ columns \in [1..n -> Labelled]
        /\ \A j, l \in 1..n : j # l => columns[j] # columns[l]
        /\ \A x \in Labelled : \E l \in 1..n : columns[l] = x
    BY ListedOnce DEF WeightInv, SpansKept
  <2> DEFINE e == columns[k]
             bars == e..t1[e]
             rows == {i \in DOMAIN path : IndMatrix(e, i)}
  <2>2. DOMAIN columns = 1..n /\ e \in Labelled /\ Labelled # {}
    BY <2>1
  <2>3. rows = bars /\ \A i \in bars : i \in 0..Len(path)
    BY <2>2, RowsOfLabel DEF WeightInv, LabelInv, LabelTypeOK
  <2> HIDE DEF columns
  <2>4. ASSUME NEW i \in bars
        PROVE  Covering(columns, i) = coEvents[i]
    <3> DEFINE K == {l \in 1..n : IndMatrix(columns[l], i)}
    <3>1. Covering(columns, i) = Cardinality(K)
      BY <2>2 DEF Covering
    <3>2. IsFiniteSet(K)
      <4>1. IsFiniteSet(1..n)
        BY <2>1, FS_Interval
      <4> QED
        BY <4>1, FS_Subset
    <3>3. Image(columns, K) = Spanning(i)
      BY <2>1 DEF Image, Spanning
    <3>4. \A x, y \in K : x # y => columns[x] # columns[y]
      BY <2>1
    <3> HIDE DEF K
    <3>5. Cardinality(Image(columns, K)) = Cardinality(K)
      BY <3>2, <3>4, ImageSize
    <3>6. coEvents[i] = Cardinality(Spanning(i))
      BY <2>2, <2>3 DEF WeightInv, WeightsBuilt
    <3> QED
      BY <3>1, <3>3, <3>5, <3>6
  <2>5. tw[e] = MeanShare(bars, coEvents)
    BY <2>2 DEF WeightInv, WeightsBuilt
  <2>6. IndMatrixAvgUniqueness(columns, k) = MeanShare(bars, [i \in bars |-> Covering(columns, i)])
    BY <2>3 DEF IndMatrixAvgUniqueness
  <2> HIDE DEF e, bars, rows
  <2>7. [i \in bars |-> Whole \div (Cardinality(bars) * [j \in bars |-> Covering(columns, j)][i])]
          = [i \in bars |-> Whole \div (Cardinality(bars) * coEvents[i])]
    BY <2>4
  <2>8. MeanShare(bars, [i \in bars |-> Covering(columns, i)]) = MeanShare(bars, coEvents)
    BY <2>7, Zenon DEF MeanShare
  <2> QED
    BY <2>5, <2>6, <2>8 DEF e
<1> QED
  BY <1>1, WeightInvariant, PTL

-----------------------------------------------------------------------------
(* The bootstrap's draws.                                                  *)

LEMMA CoveringAppended ==
  ASSUME NEW drawn \in Seq(Labelled), NEW i
  PROVE  /\ Covering(drawn, i) \in 0..Len(drawn)
         /\ Covering(drawn, i) = 0 <=> \A k \in DOMAIN drawn : ~IndMatrix(drawn[k], i)
         /\ \A d \in Labelled : Covering(Append(drawn, d), i)
                                  = Covering(drawn, i) + (IF IndMatrix(d, i) THEN 1 ELSE 0)
<1> DEFINE n == Len(drawn)
           K == {k \in 1..n : IndMatrix(drawn[k], i)}
<1>1. n \in Nat /\ DOMAIN drawn = 1..n
  OBVIOUS
<1>2. Covering(drawn, i) = Cardinality(K)
  BY <1>1 DEF Covering
<1>3. IsFiniteSet(1..n) /\ Cardinality(1..n) = n
  <2> HIDE DEF n
  <2> QED
    BY <1>1, FS_Interval
<1>4. IsFiniteSet(K) /\ Cardinality(K) \in 0..n /\ (Cardinality(K) = 0 <=> K = {})
  <2>1. K \in SUBSET (1..n)
    OBVIOUS
  <2> HIDE DEF K, n
  <2>2. IsFiniteSet(K) /\ Cardinality(K) <= n
    BY <1>3, <2>1, FS_Subset
  <2>3. Cardinality(K) \in Nat /\ (Cardinality(K) = 0 <=> K = {})
    BY <2>2, FS_CardinalityType, FS_EmptySet
  <2> QED
    BY <1>1, <2>2, <2>3
<1>5. ASSUME NEW d \in Labelled
      PROVE  Covering(Append(drawn, d), i) = Covering(drawn, i) + (IF IndMatrix(d, i) THEN 1 ELSE 0)
  <2> DEFINE more == Append(drawn, d)
             L == {k \in DOMAIN more : IndMatrix(more[k], i)}
  <2>1. DOMAIN more = 1..n + 1 /\ more[n + 1] = d /\ \A k \in 1..n : more[k] = drawn[k]
    BY <1>1
  <2>2. Covering(more, i) = Cardinality(L)
    BY DEF Covering
  <2>3. n + 1 \notin K /\ (\A k \in 1..n : k \in 1..n + 1) /\ \A k \in 1..n + 1 : k \in 1..n \/ k = n + 1
    BY <1>1
  <2> HIDE DEF more, n
  <2>4. (IndMatrix(d, i) => L = K \union {n + 1}) /\ (~IndMatrix(d, i) => L = K)
    <3>1. \A k \in 1..n : k \in L <=> k \in K
      BY <2>1, <2>3
    <3>2. n + 1 \in L <=> IndMatrix(d, i)
      BY <1>1, <2>1
    <3>3. L \subseteq 1..n + 1 /\ K \subseteq 1..n
      BY <2>1
    <3> HIDE DEF L, K
    <3> QED
      BY <2>3, <3>1, <3>2, <3>3
  <2> HIDE DEF K, L
  <2>5. Cardinality(K \union {n + 1}) = Cardinality(K) + 1
    BY <1>4, <2>3, FS_AddElement
  <2> QED
    <3>1. Cardinality(L) = Cardinality(K) + (IF IndMatrix(d, i) THEN 1 ELSE 0)
      <4>1. CASE IndMatrix(d, i)
        BY <1>4, <2>4, <2>5, <4>1
      <4>2. CASE ~IndMatrix(d, i)
        <5>1. Cardinality(L) = Cardinality(K) /\ Cardinality(K) \in Int
          BY <1>4, <2>4, <4>2
        <5> QED
          BY <4>2, <5>1
      <4> QED
        BY <4>1, <4>2
    <3> QED
      BY <1>2, <2>2, <3>1 DEF more
<1> QED
  BY <1>1, <1>2, <1>4, <1>5

\* The more labels share a bar, the less each has of it.
LEMMA SharesFall ==
  ASSUME NEW s \in 1..MaxHp + 1, NEW a \in 1..MaxHp + MaxDraws + 2,
         NEW b \in 1..MaxHp + MaxDraws + 2
  PROVE  /\ Whole \div (s * a) \in Nat
         /\ a < b => Whole \div (s * b) < Whole \div (s * a)
         /\ (Whole \div (s * 1)) * s = Whole
<1>1. /\ MaxHp \in Nat /\ MaxDraws \in Nat /\ Whole \in Nat \ {0} /\ s \in Nat \ {0}
      /\ a \in Nat \ {0} /\ b \in Nat \ {0} /\ 1 \in 1..MaxHp + MaxDraws + 2 /\ 1 \in Nat \ {0}
  BY LabelConstants, WeightAssumption
<1>2. ASSUME NEW c \in Nat \ {0}, c \in 1..MaxHp + MaxDraws + 2
      PROVE  /\ s * c \in Nat \ {0} /\ Whole \div (s * c) \in Nat
             /\ Whole = s * (c * (Whole \div (s * c)))
  <2> DEFINE m == s * c
             q == Whole \div m
  <2>1. \A x, y \in Nat \ {0} : x * y \in Nat \ {0}
    OBVIOUS
  <2>2. m \in Nat \ {0}
    BY <1>1, <2>1
  <2>3. Whole % m = 0
    BY <1>2, WeightAssumption
  <2> HIDE DEF m
  <2>4. Whole \in Int /\ q \in Int /\ Whole = m * q + (Whole % m)
    BY <1>1, <2>2, Division
  <2>5. Whole = m * q
    <3>1. m * q \in Int
      BY <2>2, <2>4
    <3> QED
      BY <2>3, <2>4, <3>1
  <2> HIDE DEF q
  <2>6. q \in Nat
    <3>1. \A x \in Nat \ {0} : \A y \in Int : y < 0 => x * y < 0
      OBVIOUS
    <3> QED
      BY <1>1, <2>2, <2>4, <2>5, <3>1
  <2>7. m * q = s * (c * q)
    <3>1. \A x, y, z \in Nat : (x * y) * z = x * (y * z)
      OBVIOUS
    <3> QED
      BY <1>1, <2>6, <3>1 DEF m
  <2> QED
    BY <2>2, <2>5, <2>6, <2>7 DEF m, q
<1>3. ASSUME a < b
      PROVE  Whole \div (s * b) < Whole \div (s * a)
  <2> DEFINE p == Whole \div (s * a)
             q == Whole \div (s * b)
  <2>1. p \in Nat /\ q \in Nat /\ Whole = s * (a * p) /\ Whole = s * (b * q)
    BY <1>1, <1>2
  <2> HIDE DEF p, q
  <2>2. a * p = b * q
    <3>1. \A x \in Nat \ {0} : \A y, z \in Nat : x * y = x * z => y = z
      OBVIOUS
    <3>2. a * p \in Nat /\ b * q \in Nat
      BY <1>1, <2>1
    <3> QED
      BY <1>1, <2>1, <3>1, <3>2
  <2>3. q # 0
    BY <1>1, <2>1
  <2>4. \A x, y \in Nat \ {0} : \A v, w \in Nat : x < y /\ w # 0 /\ x * v = y * w => w < v
    <3> SUFFICES ASSUME NEW x \in Nat \ {0}, NEW y \in Nat \ {0}, NEW v \in Nat, NEW w \in Nat,
                        x < y, w # 0, x * v = y * w, v <= w
                 PROVE  FALSE
      OBVIOUS
    <3>1. x * v <= x * w /\ x * w < y * w
      OBVIOUS
    <3>2. x * v \in Nat /\ x * w \in Nat /\ y * w \in Nat
      OBVIOUS
    <3> QED
      BY <3>1, <3>2
  <2>5. q < p
    BY <1>1, <1>3, <2>1, <2>2, <2>3, <2>4
  <2> QED
    BY <2>5 DEF p, q
<1>4. (Whole \div (s * 1)) * s = Whole
  <2> DEFINE q == Whole \div (s * 1)
  <2>1. q \in Nat /\ Whole = s * (1 * q)
    BY <1>1, <1>2
  <2> HIDE DEF q
  <2>2. q * s = Whole
    BY <1>1, <2>1
  <2> QED
    BY <2>2 DEF q
<1> QED
  BY <1>1, <1>2, <1>3, <1>4

\* What a candidate has of each of its bars.
ShareOf(drawn, e) ==
  [i \in e..t1[e] |-> Whole \div (Cardinality(e..t1[e]) * (Covering(drawn, i) + 1))]

LEMMA CandidacySums ==
  ASSUME WeightInv, NEW e \in Labelled, NEW drawn \in Seq(Labelled)
  PROVE  Candidacy(drawn, e) = SumFunctionOnSet(ShareOf(drawn, e), e..t1[e])
<1> DEFINE columns == Append(drawn, e)
           k == Len(drawn) + 1
           bars == e..t1[e]
<1>1. columns[k] = e
  OBVIOUS
<1>2. {i \in DOMAIN path : IndMatrix(columns[k], i)} = bars
  BY <1>1, RowsOfLabel
<1>3. \A i \in bars : Covering(columns, i) = Covering(drawn, i) + 1
  BY RowsOfLabel, CoveringAppended
<1>4. Candidacy(drawn, e) = MeanShare(bars, [i \in bars |-> Covering(columns, i)])
  BY <1>2 DEF Candidacy, IndMatrixAvgUniqueness
<1> HIDE DEF columns
<1>5. [i \in bars |-> Whole \div (Cardinality(bars) * [j \in bars |-> Covering(columns, j)][i])]
        = ShareOf(drawn, e)
  BY <1>3 DEF ShareOf
<1>6. MeanShare(bars, [i \in bars |-> Covering(columns, i)]) = SumFunction(ShareOf(drawn, e))
  BY <1>5, Zenon DEF MeanShare
<1>7. DOMAIN ShareOf(drawn, e) = bars
  BY DEF ShareOf
<1> QED
  BY <1>4, <1>6, <1>7, Zenon DEF SumFunction

\* A candidate whose bars are more crowded is less likely.
LEMMA CandidaciesCompare ==
  ASSUME WeightInv, NEW e \in Labelled, NEW p \in Seq(Labelled), NEW q \in Seq(Labelled),
         Len(p) <= MaxDraws + 1, Len(q) <= MaxDraws + 1,
         \A i \in e..t1[e] : Covering(q, i) <= Covering(p, i)
  PROVE  /\ Candidacy(p, e) \in Int /\ Candidacy(q, e) \in Int
         /\ Candidacy(p, e) <= Candidacy(q, e)
         /\ (\E i \in e..t1[e] : Covering(q, i) < Covering(p, i))
              => Candidacy(p, e) < Candidacy(q, e)
<1> DEFINE bars == e..t1[e]
           s == Cardinality(bars)
           f == ShareOf(p, e)
           g == ShareOf(q, e)
<1>1. IsFiniteSet(bars) /\ s \in 1..MaxHp + 1 /\ MaxHp \in Nat /\ MaxDraws \in Nat
  BY RowsOfLabel, LabelConstants, WeightAssumption
<1>2. \A i \in bars : /\ f[i] = Whole \div (s * (Covering(p, i) + 1))
                      /\ g[i] = Whole \div (s * (Covering(q, i) + 1))
  BY DEF ShareOf
<1>3. \A i \in bars : /\ Covering(p, i) + 1 \in 1..MaxHp + MaxDraws + 2
                      /\ Covering(q, i) + 1 \in 1..MaxHp + MaxDraws + 2
  <2>1. \A i \in bars : Covering(p, i) \in 0..Len(p) /\ Covering(q, i) \in 0..Len(q)
    BY CoveringAppended
  <2>2. Len(p) \in Nat /\ Len(q) \in Nat
    OBVIOUS
  <2> QED
    BY <1>1, <2>1, <2>2
<1> HIDE DEF s, f, g
<1>4. ASSUME NEW i \in bars
      PROVE  /\ f[i] \in Int /\ g[i] \in Int /\ f[i] <= g[i]
             /\ Covering(q, i) < Covering(p, i) => f[i] < g[i]
  <2> DEFINE a == Covering(p, i) + 1
             b == Covering(q, i) + 1
  <2>1. /\ a \in 1..MaxHp + MaxDraws + 2 /\ b \in 1..MaxHp + MaxDraws + 2 /\ b <= a
        /\ Covering(q, i) < Covering(p, i) => b < a
    <3>1. Covering(p, i) \in Nat /\ Covering(q, i) \in Nat
      BY CoveringAppended
    <3> QED
      BY <1>3, <3>1
  <2>2. f[i] = Whole \div (s * a) /\ g[i] = Whole \div (s * b)
    BY <1>2
  <2> HIDE DEF a, b
  <2>3. /\ Whole \div (s * a) \in Nat /\ Whole \div (s * b) \in Nat
        /\ b < a => Whole \div (s * a) < Whole \div (s * b)
    BY <1>1, <2>1, SharesFall
  <2>4. b < a \/ b = a
    BY <1>1, <2>1
  <2> QED
    BY <2>1, <2>2, <2>3, <2>4
<1>5. Candidacy(p, e) = SumFunctionOnSet(f, bars) /\ Candidacy(q, e) = SumFunctionOnSet(g, bars)
  BY CandidacySums DEF f, g
<1> HIDE DEF bars
<1>6. /\ SumFunctionOnSet(f, bars) \in Int /\ SumFunctionOnSet(g, bars) \in Int
      /\ SumFunctionOnSet(f, bars) <= SumFunctionOnSet(g, bars)
      /\ (\E i \in bars : f[i] < g[i]) => SumFunctionOnSet(f, bars) < SumFunctionOnSet(g, bars)
  BY <1>1, <1>4, SumsOrdered
<1> QED
  BY <1>4, <1>5, <1>6 DEF bars

\* Alone on its bars a candidate has the whole of each.
LEMMA AloneHasWhole ==
  ASSUME WeightInv, NEW e \in Labelled
  PROVE  Candidacy(<<>>, e) = Whole
<1> DEFINE bars == e..t1[e]
           s == Cardinality(bars)
           f == ShareOf(<<>>, e)
           c == Whole \div (s * 1)
<1>1. <<>> \in Seq(Labelled) /\ Len(<<>>) = 0
  OBVIOUS
<1>2. IsFiniteSet(bars) /\ s \in 1..MaxHp + 1 /\ 1 \in 1..MaxHp + MaxDraws + 2
  BY RowsOfLabel, LabelConstants, WeightAssumption
<1>3. \A i : Covering(<<>>, i) = 0
  <2>1. \A i : Covering(<<>>, i) \in 0..0
    BY <1>1, CoveringAppended
  <2> QED
    BY <2>1
<1>4. c \in Nat /\ c * s = Whole
  <2> HIDE DEF s
  <2> QED
    BY <1>2, SharesFall
<1>5. \A i \in bars : f[i] = c
  BY <1>3 DEF ShareOf
<1> HIDE DEF c, f
<1>6. SumFunctionOnSet(f, bars) = c * s
  <2>1. c \in Int /\ IsFiniteSet(bars)
    BY <1>2, <1>4
  <2> HIDE DEF bars
  <2> QED
    BY <1>5, <2>1, SumOfConstant
<1> QED
  BY <1>1, <1>4, <1>6, CandidacySums DEF f

\* The next draw shuns what is drawn: a label is at its likeliest exactly while it
\* shares no bar with a draw, every draw of it makes it less likely, and a draw it
\* shares no bar with does not matter (bootstrap.py:103-108).
THEOREM DrawsLoseWeight == WeightSpec => []RepeatsLoseWeight
<1>1. WeightInv => RepeatsLoseWeight
  <2> SUFFICES ASSUME WeightInv, NEW e \in Labelled
               PROVE  /\ Candidacy(phi, e) = Whole <=> \A k \in DOMAIN phi : Apart(phi[k], e)
                      /\ Candidacy(Append(phi, e), e) < Candidacy(phi, e)
                      /\ \A d \in Labelled :
                           Apart(d, e) => Candidacy(Append(phi, d), e) = Candidacy(phi, e)
    BY DEF RepeatsLoseWeight
  <2> DEFINE bars == e..t1[e]
             none == <<>>
  <2>1. /\ phi \in Seq(Labelled) /\ Len(phi) \in Nat /\ Len(phi) <= MaxDraws /\ MaxDraws \in Nat
        /\ none \in Seq(Labelled) /\ Len(phi) <= MaxDraws + 1 /\ Len(none) <= MaxDraws + 1
    BY WeightAssumption DEF WeightInv
  <2>2. \A d \in Labelled : d \in Nat /\ t1[d] \in Nat /\ d <= t1[d]
    BY DEF WeightInv, SpansKept, LabelInv, LabelTypeOK
  <2>3. \A i : Covering(phi, i) \in Nat /\ Covering(none, i) = 0
    <3>1. Len(none) = 0 /\ \A i : Covering(none, i) \in 0..Len(none)
      BY <2>1, CoveringAppended
    <3> QED
      BY <2>1, <3>1, CoveringAppended
  <2>4. \A d \in Labelled : Apart(d, e) <=> \A i \in bars : ~IndMatrix(d, i)
    <3> SUFFICES ASSUME NEW d \in Labelled
                 PROVE  Apart(d, e) <=> \A i \in bars : ~IndMatrix(d, i)
      OBVIOUS
    <3>1. Apart(d, e) => \A i \in bars : ~IndMatrix(d, i)
      BY <2>2 DEF Apart, IndMatrix
    <3>2. ASSUME ~Apart(d, e)
          PROVE  \E i \in bars : IndMatrix(d, i)
      <4>1. CASE d <= e
        <5>1. e \in bars /\ IndMatrix(d, e)
          BY <2>2, <3>2, <4>1 DEF Apart, IndMatrix
        <5> QED
          BY <5>1
      <4>2. CASE e < d
        <5>1. d \in bars /\ IndMatrix(d, d)
          BY <2>2, <3>2, <4>2 DEF Apart, IndMatrix
        <5> QED
          BY <5>1
      <4> QED
        BY <2>2, <4>1, <4>2
    <3> QED
      BY <3>1, <3>2
  <2>5. Candidacy(none, e) = Whole
    BY AloneHasWhole
  <2> HIDE DEF bars, none
  <2>6. \A k \in DOMAIN phi : phi[k] \in Labelled
    BY <2>1
  <2>7. ASSUME \A k \in DOMAIN phi : Apart(phi[k], e)
        PROVE  Candidacy(phi, e) = Whole
    <3>1. \A i \in bars : Covering(phi, i) = 0
      BY <2>1, <2>4, <2>6, <2>7, CoveringAppended
    <3>2. \A i \in bars : Covering(phi, i) <= Covering(none, i) /\ Covering(none, i) <= Covering(phi, i)
      BY <2>3, <3>1
    <3>3. /\ Candidacy(phi, e) \in Int /\ Candidacy(none, e) \in Int
          /\ Candidacy(phi, e) <= Candidacy(none, e) /\ Candidacy(none, e) <= Candidacy(phi, e)
      BY <2>1, <3>2, CandidaciesCompare DEF bars
    <3> QED
      BY <2>5, <3>3
  <2>8. ASSUME NEW k \in DOMAIN phi, ~Apart(phi[k], e)
        PROVE  Candidacy(phi, e) # Whole
    <3>1. PICK i \in bars : IndMatrix(phi[k], i)
      BY <2>4, <2>6, <2>8
    <3>2. Covering(phi, i) # 0
      BY <2>1, <3>1, CoveringAppended
    <3>3. (\A j \in bars : Covering(none, j) <= Covering(phi, j)) /\ Covering(none, i) < Covering(phi, i)
      BY <2>3, <3>2
    <3>4. Candidacy(phi, e) \in Int /\ Candidacy(phi, e) < Candidacy(none, e)
      BY <2>1, <3>1, <3>3, CandidaciesCompare DEF bars
    <3> QED
      BY <2>5, <3>4, WeightAssumption
  <2>9. Candidacy(Append(phi, e), e) < Candidacy(phi, e)
    <3> DEFINE more == Append(phi, e)
    <3>1. more \in Seq(Labelled) /\ Len(more) = Len(phi) + 1
      BY <2>1
    <3>2. \A i \in bars : Covering(more, i) = Covering(phi, i) + 1
      BY <2>1, RowsOfLabel, CoveringAppended DEF bars
    <3>3. e \in bars
      BY <2>2 DEF bars
    <3>4. \A i \in bars : Covering(phi, i) <= Covering(more, i) /\ Covering(phi, i) < Covering(more, i)
      BY <2>3, <3>2
    <3> HIDE DEF more
    <3>5. Candidacy(more, e) < Candidacy(phi, e)
      BY <2>1, <3>1, <3>3, <3>4, CandidaciesCompare DEF bars
    <3> QED
      BY <3>5 DEF more
  <2>10. ASSUME NEW d \in Labelled, Apart(d, e)
         PROVE  Candidacy(Append(phi, d), e) = Candidacy(phi, e)
    <3> DEFINE more == Append(phi, d)
    <3>1. more \in Seq(Labelled) /\ Len(more) = Len(phi) + 1
      BY <2>1
    <3>2. \A i \in bars : Covering(more, i) = Covering(phi, i)
      BY <2>1, <2>3, <2>4, <2>10, CoveringAppended
    <3>3. \A i \in bars : Covering(phi, i) <= Covering(more, i) /\ Covering(more, i) <= Covering(phi, i)
      BY <2>3, <3>2
    <3> HIDE DEF more
    <3>4. /\ Candidacy(more, e) \in Int /\ Candidacy(phi, e) \in Int
          /\ Candidacy(more, e) <= Candidacy(phi, e) /\ Candidacy(phi, e) <= Candidacy(more, e)
      BY <2>1, <3>1, <3>3, CandidaciesCompare DEF bars
    <3>5. Candidacy(more, e) = Candidacy(phi, e)
      BY <3>4
    <3> QED
      BY <3>5 DEF more
  <2> QED
    BY <2>7, <2>8, <2>9, <2>10
<1> QED
  BY <1>1, WeightInvariant, PTL

-----------------------------------------------------------------------------
(* Decay.                                                                  *)

\* Every bar of a label is counted, so shares are sums of whole parts.
LEMMA UniquenessIsNat ==
  ASSUME WeightInv, NEW e \in Labelled
  PROVE  /\ tw[e] \in Nat
         /\ \A i \in e..t1[e] : Whole \div coEvents[i] \in Nat
<1> DEFINE bars == e..t1[e]
           s == Cardinality(bars)
           f == [i \in bars |-> Whole \div (s * coEvents[i])]
<1>1. IsFiniteSet(bars) /\ s \in Nat \ {0} /\ Whole \in Nat
  BY RowsOfLabel, LabelConstants, WeightAssumption
<1>2. ASSUME NEW i \in bars
      PROVE  coEvents[i] \in Nat \ {0}
  <2>1. i \in 0..Len(path) /\ IndMatrix(e, i)
    BY RowsOfLabel DEF WeightInv, LabelInv, LabelTypeOK
  <2>2. coEvents[i] = Cardinality(Spanning(i))
    BY <2>1 DEF WeightInv, WeightsBuilt
  <2>3. e \in Spanning(i)
    BY <2>1 DEF Spanning
  <2>4. IsFiniteSet(Spanning(i))
    <3>1. Spanning(i) \in SUBSET Labelled /\ IsFiniteSet(Labelled)
      BY DEF WeightInv, SpansKept, Spanning
    <3> QED
      BY <3>1, FS_Subset
  <2> HIDE DEF Spanning
  <2>5. Cardinality(Spanning(i)) \in Nat /\ Cardinality(Spanning(i)) # 0
    BY <2>3, <2>4, FS_CardinalityType, FS_EmptySet
  <2> QED
    BY <2>2, <2>5
<1>3. \A a \in Nat, b \in Nat \ {0} : a \div b \in Nat
  <2> SUFFICES ASSUME NEW a \in Nat, NEW b \in Nat \ {0}
               PROVE  a \div b \in Nat
    OBVIOUS
  <2>1. b * 0 = 0 /\ 0 <= a /\ 0 \in Int
    OBVIOUS
  <2>2. (b * 0) \div b = 0
    BY <2>1, Multiples
  <2>3. 0 \div b <= a \div b
    BY <2>1, DivisionMonotone
  <2> QED
    BY <2>1, <2>2, <2>3, Division
<1>4. \A a, b \in Nat \ {0} : a * b \in Nat \ {0}
  OBVIOUS
<1>5. \A i \in bars : f[i] \in Nat
  <2> HIDE DEF s
  <2> QED
    BY <1>1, <1>2, <1>3, <1>4
<1>6. tw[e] = SumFunctionOnSet(f, bars)
  <2>1. tw[e] = MeanShare(bars, coEvents)
    BY DEF WeightInv, WeightsBuilt
  <2>2. MeanShare(bars, coEvents) = SumFunction(f) /\ DOMAIN f = bars
    BY DEF MeanShare
  <2> HIDE DEF f
  <2> QED
    BY <2>1, <2>2, Zenon DEF SumFunction
<1> HIDE DEF f, bars
<1>7. SumFunctionOnSet(f, bars) \in Nat
  <2>1. \A T \in SUBSET bars : SumFunctionOnSet(f, bars) \in Nat
    BY <1>1, <1>5, SumGrows
  <2> QED
    BY <2>1
<1> QED
  BY <1>1, <1>2, <1>3, <1>6, <1>7 DEF bars

\* A label's uniqueness is at least a share of each of its bars and at most the whole
\* of them: the labels that span a bar start within a horizon before it.
LEMMA UniquenessIsAPart ==
  ASSUME WeightInv, NEW e \in Labelled
  PROVE  tw[e] \in 1..Whole
<1> DEFINE bars == e..t1[e]
           s == Cardinality(bars)
           f == [i \in bars |-> Whole \div (s * coEvents[i])]
           c == Whole \div (s * 1)
           none == [i \in bars |-> 0]
           all == [i \in bars |-> c]
<1>1. /\ IsFiniteSet(bars) /\ s \in 1..MaxHp + 1 /\ MaxHp \in Nat /\ MaxDraws \in Nat
      /\ Whole \in Nat \ {0} /\ 1 \in 1..MaxHp + MaxDraws + 2
  BY RowsOfLabel, LabelConstants, WeightAssumption
<1>2. ASSUME NEW i \in bars
      PROVE  coEvents[i] \in 1..MaxHp + 1
  <2>1. i \in 0..Len(path) /\ IndMatrix(e, i) /\ i \in Nat
    BY RowsOfLabel DEF WeightInv, LabelInv, LabelTypeOK
  <2>2. coEvents[i] = Cardinality(Spanning(i)) /\ e \in Spanning(i)
    BY <2>1 DEF WeightInv, WeightsBuilt, Spanning
  <2> DEFINE from == i - MaxHp
             near == from..i
  <2>3. from \in Int /\ i \in Int /\ from <= i /\ i - from + 1 = MaxHp + 1
    BY <1>1, <2>1
  <2>4. Spanning(i) \in SUBSET near
    <3>1. \A d \in Labelled : /\ d \in 4..Len(path) /\ t1[d] \in d..Len(path)
                              /\ t1[d] <= d + MaxHp
      BY DEF WeightInv, SpansKept
    <3> QED
      BY <1>1, <2>1, <3>1 DEF Spanning, IndMatrix
  <2> HIDE DEF from, near
  <2>5. IsFiniteSet(near) /\ Cardinality(near) = MaxHp + 1
    BY <2>3, FS_Interval DEF near
  <2>6. IsFiniteSet(Spanning(i)) /\ Cardinality(Spanning(i)) <= MaxHp + 1
    BY <2>4, <2>5, FS_Subset
  <2>7. Cardinality(Spanning(i)) \in Nat /\ Cardinality(Spanning(i)) # 0
    BY <2>2, <2>6, FS_CardinalityType, FS_EmptySet
  <2> QED
    BY <1>1, <2>2, <2>6, <2>7
<1>3. tw[e] = SumFunctionOnSet(f, bars)
  <2>1. tw[e] = MeanShare(bars, coEvents)
    BY DEF WeightInv, WeightsBuilt
  <2>2. MeanShare(bars, coEvents) = SumFunction(f) /\ DOMAIN f = bars
    BY DEF MeanShare
  <2> HIDE DEF f
  <2> QED
    BY <2>1, <2>2, Zenon DEF SumFunction
<1>4. e \in bars
  BY DEF WeightInv, SpansKept, LabelInv, LabelTypeOK
<1>5. \A i \in bars : f[i] = Whole \div (s * coEvents[i]) /\ none[i] = 0 /\ all[i] = c
  OBVIOUS
<1> HIDE DEF s, f, none, all, bars, c
<1>6. c \in Nat /\ c * s = Whole
  BY <1>1, SharesFall DEF c
<1>7. ASSUME NEW i \in bars
      PROVE  f[i] \in Int /\ 0 < f[i] /\ f[i] <= c
  <2> DEFINE a == coEvents[i]
             b == a + 1
  <2>1. a \in 1..MaxHp + MaxDraws + 2 /\ b \in 1..MaxHp + MaxDraws + 2 /\ a < b /\ (a = 1 \/ 1 < a)
    BY <1>1, <1>2
  <2>2. f[i] = Whole \div (s * a)
    BY <1>5
  <2> HIDE DEF a, b
  <2>3. /\ Whole \div (s * a) \in Nat /\ Whole \div (s * b) \in Nat
        /\ Whole \div (s * b) < Whole \div (s * a)
    BY <1>1, <2>1, SharesFall
  <2>4. 1 < a => Whole \div (s * a) < Whole \div (s * 1)
    BY <1>1, <2>1, SharesFall
  <2> QED
    BY <1>6, <2>1, <2>2, <2>3, <2>4 DEF c
<1>8. SumFunctionOnSet(none, bars) = 0 * s /\ SumFunctionOnSet(all, bars) = c * s
  <2>1. SumFunctionOnSet(none, bars) = 0 * Cardinality(bars)
    <3>1. 0 \in Int /\ \A i \in bars : none[i] = 0
      BY <1>5
    <3> QED
      BY <1>1, <3>1, SumOfConstant
  <2>2. SumFunctionOnSet(all, bars) = c * Cardinality(bars)
    <3>1. c \in Int /\ \A i \in bars : all[i] = c
      BY <1>5, <1>6
    <3> QED
      BY <1>1, <3>1, SumOfConstant
  <2> QED
    BY <2>1, <2>2 DEF s
<1>9. SumFunctionOnSet(none, bars) < SumFunctionOnSet(f, bars) /\ SumFunctionOnSet(f, bars) \in Int
  <2>1. \A i \in bars : none[i] \in Int /\ f[i] \in Int /\ none[i] <= f[i] /\ none[i] < f[i]
    BY <1>5, <1>7
  <2> QED
    BY <1>1, <1>4, <2>1, SumsOrdered
<1>10. SumFunctionOnSet(f, bars) <= SumFunctionOnSet(all, bars)
  <2>1. \A i \in bars : all[i] \in Int /\ f[i] \in Int /\ f[i] <= all[i]
    BY <1>5, <1>6, <1>7
  <2> QED
    BY <1>1, <2>1, SumsOrdered
<1>11. 0 * s = 0
  BY <1>1
<1> QED
  BY <1>1, <1>3, <1>6, <1>8, <1>9, <1>10, <1>11

\* Whatever a history brings, every label spans bars of the path, its uniqueness is a
\* positive part of the whole (concurrency.py:91-94), and every draw is of a label.
THEOREM WeightTypes == WeightSpec => []WeightTypeOK
<1>1. WeightInv => WeightTypeOK
  <2> SUFFICES ASSUME WeightInv
               PROVE  WeightTypeOK
    OBVIOUS
  <2>1. \A e \in Labelled : t1[e] \in e..Len(path) /\ tw[e] \in 1..Whole
    BY UniquenessIsAPart DEF WeightInv, SpansKept
  <2>2. DOMAIN tw = Labelled
    BY DEF WeightInv, WeightsBuilt, NothingYet
  <2> QED
    BY <2>1, <2>2 DEF WeightInv, LabelInv, WeightTypeOK
<1> QED
  BY <1>1, WeightInvariant, PTL

LEMMA AttributionIsNat ==
  ASSUME WeightInv, NEW e \in Labelled
  PROVE  Attribution(e) \in Nat
<1> DEFINE bars == e..t1[e]
           f == [i \in bars |-> (path[i] - path[i - 1]) * (Whole \div coEvents[i])]
<1>1. IsFiniteSet(bars)
  BY RowsOfLabel
<1>2. \A i \in bars : f[i] \in Int
  <2>1. \A i \in bars : Whole \div coEvents[i] \in Nat
    BY UniquenessIsNat
  <2>2. \A i \in bars : path[i] \in Int /\ path[i - 1] \in Int
    BY RowsOfLabel DEF WeightInv, LabelInv, LabelTypeOK
  <2>3. \A a, b \in Int : \A c \in Nat : (a - b) * c \in Int
    OBVIOUS
  <2> QED
    BY <2>1, <2>2, <2>3
<1>3. SumFunction(f) = SumFunctionOnSet(f, bars)
  <2>1. DOMAIN f = bars
    OBVIOUS
  <2> HIDE DEF f
  <2> QED
    BY <2>1, Zenon DEF SumFunction
<1>4. SumFunctionOnSet(f, bars) \in Int
  <2> HIDE DEF f, bars
  <2> QED
    BY <1>1, <1>2, SumIsInt
<1>5. Attribution(e) = IF SumFunction(f) < 0 THEN -SumFunction(f) ELSE SumFunction(f)
  BY DEF Attribution
<1> QED
  BY <1>3, <1>4, <1>5

LEMMA CumulativeGrows ==
  ASSUME WeightInv, NEW e \in Labelled
  PROVE  /\ TotalUniqueness \in Nat /\ Cumulative(e) \in Nat /\ Cumulative(e) <= TotalUniqueness
         /\ \A d \in Labelled : d <= e => Cumulative(d) <= Cumulative(e)
         /\ (\A d \in Labelled : d <= e) => Cumulative(e) = TotalUniqueness
<1> DEFINE upTo(d) == {x \in Labelled : x <= d}
<1>1. IsFiniteSet(Labelled) /\ DOMAIN tw = Labelled /\ \A x \in Labelled : tw[x] \in Nat /\ x \in Nat
  <2>1. \A x \in Labelled : x \in 4..Len(path)
    BY DEF WeightInv, SpansKept
  <2>2. Labelled # {}
    OBVIOUS
  <2> QED
    BY <2>1, <2>2, UniquenessIsNat DEF WeightInv, SpansKept, WeightsBuilt
<1>2. TotalUniqueness = SumFunctionOnSet(tw, Labelled)
  BY <1>1, Zenon DEF TotalUniqueness, SumFunction
<1>3. \A d : Cumulative(d) = SumFunctionOnSet(tw, upTo(d))
  BY DEF Cumulative
<1>4. upTo(e) \in SUBSET Labelled /\ \A d \in Labelled : d <= e => upTo(d) \in SUBSET upTo(e)
  BY <1>1
<1>5. (\A d \in Labelled : d <= e) => upTo(e) = Labelled
  OBVIOUS
<1> HIDE DEF upTo
<1>6. /\ SumFunctionOnSet(tw, upTo(e)) <= SumFunctionOnSet(tw, Labelled)
      /\ SumFunctionOnSet(tw, Labelled) \in Nat
  BY <1>1, <1>4, SumGrows
<1>7. IsFiniteSet(upTo(e)) /\ \A x \in upTo(e) : tw[x] \in Nat
  BY <1>1, <1>4, FS_Subset
<1>8. \A d \in Labelled : d <= e =>
        /\ SumFunctionOnSet(tw, upTo(d)) <= SumFunctionOnSet(tw, upTo(e))
  BY <1>4, <1>7, SumGrows
<1>9. SumFunctionOnSet(tw, upTo(e)) \in Nat
  <2>1. \A T \in SUBSET upTo(e) : SumFunctionOnSet(tw, upTo(e)) \in Nat
    BY <1>7, SumGrows
  <2> QED
    BY <2>1
<1> QED
  BY <1>2, <1>3, <1>5, <1>6, <1>8, <1>9

LEMMA MaxWithZero ==
  ASSUME NEW x \in Int
  PROVE  Max({0, x}) = IF x > 0 THEN x ELSE 0
<1> DEFINE m == IF x > 0 THEN x ELSE 0
           S == {0, x}
<1>1. m \in S /\ \A y \in S : m >= y
  OBVIOUS
<1>2. Max(S) \in S /\ \A y \in S : Max(S) >= y
  BY <1>1 DEF Max
<1> QED
  BY <1>1, <1>2

\* Every label has some uniqueness.
LEMMA CumulativeIsPositive ==
  ASSUME WeightInv, NEW e \in Labelled
  PROVE  Cumulative(e) \in Nat \ {0}
<1> DEFINE upTo == {x \in Labelled : x <= e}
<1>1. IsFiniteSet(Labelled) /\ \A x \in Labelled : tw[x] \in 1..Whole /\ x \in Nat
  <2>1. \A x \in Labelled : x \in 4..Len(path)
    BY DEF WeightInv, SpansKept
  <2> QED
    BY <2>1, UniquenessIsAPart DEF WeightInv, SpansKept
<1>2. upTo \in SUBSET Labelled /\ e \in upTo
  BY <1>1
<1>3. Cumulative(e) = SumFunctionOnSet(tw, upTo)
  BY DEF Cumulative
<1> HIDE DEF upTo
<1>4. IsFiniteSet(upTo) /\ (\A x \in upTo : tw[x] \in Nat) /\ tw[e] \in Nat \ {0}
  BY <1>1, <1>2, FS_Subset, WeightAssumption
<1>5. SumFunctionOnSet(tw, upTo) = tw[e] + SumFunctionOnSet(tw, upTo \ {e})
  BY <1>2, <1>4, SumSplits
<1>6. SumFunctionOnSet(tw, upTo \ {e}) \in Nat
  <2>1. IsFiniteSet(upTo \ {e}) /\ \A x \in upTo \ {e} : tw[x] \in Nat
    BY <1>4, FS_Subset
  <2>2. \A T \in SUBSET (upTo \ {e}) : SumFunctionOnSet(tw, upTo \ {e}) \in Nat
    BY <2>1, SumGrows
  <2> QED
    BY <2>2
<1> QED
  BY <1>3, <1>4, <1>5, <1>6

\* A product grows with its second factor.
LEMMA TimesGrows ==
  ASSUME NEW k \in Nat, NEW u \in Int, NEW v \in Int, u <= v
  PROVE  k * u <= k * v
OBVIOUS

\* What the rate does to the factors of two labels that have x and y, out of total,
\* behind them.
LinearDecay(c, total, x) == 4 * total - (4 - c) * (total - x)
LEMMA LinearDecayGrows ==
  ASSUME NEW c \in 0..4, NEW total \in Nat, NEW x \in 1..total, NEW y \in x..total
  PROVE  /\ LinearDecay(c, total, x) \in Nat \ {0}
         /\ LinearDecay(c, total, y) \in Nat
         /\ LinearDecay(c, total, x) <= LinearDecay(c, total, y)
         /\ LinearDecay(c, total, total) = 4 * total
<1>1. \/ c = 0 \/ c = 1 \/ c = 2 \/ c = 3 \/ c = 4
  OBVIOUS
<1> QED
  BY <1>1 DEF LinearDecay

\* What each rate does to the labels' decay: WeightConfig admits every c <= 1, and
\* the code behaves differently above -1, at -1 and below (decay.py:66-79).
THEOREM DecayFollowsItsRate == WeightSpec => []DecayByRegime
<1>1. WeightInv => DecayByRegime
  <2> SUFFICES ASSUME WeightInv, NEW c \in DecayQuarters, NEW e \in Labelled
               PROVE  /\ TimeDecay(c, e).den = 0 <=> c = -4
                      /\ c # -4 =>
                           /\ (\A d \in Labelled : d <= e) => TimeDecay(c, e).num = TimeDecay(c, e).den
                           /\ TimeDecay(c, e).num = 0
                                <=> c \in -3..-1 /\ 4 * Cumulative(e) <= -c * TotalUniqueness
                      /\ \A d \in Labelled : d <= e /\ Attribution(d) = Attribution(e) =>
                           /\ c > -4 => Weight(c, d) <= Weight(c, e)
                           /\ c < -4 => Weight(c, d) >= Weight(c, e)
    BY DEF DecayByRegime
  <2> DEFINE total == TotalUniqueness
             scale == (4 + c) * total
             newest == \A d \in Labelled : d <= e
             num(d) == TimeDecay(c, d).num
             x(d) == Cumulative(d)
  <2>1. c \in Int /\ c <= 4
    BY WeightAssumption
  <2>2. /\ total \in Nat \ {0} /\ x(e) \in 1..total /\ (newest => x(e) = total)
        /\ \A d \in Labelled : d <= e => x(d) \in 1..x(e)
    BY CumulativeGrows, CumulativeIsPositive
  <2>3. /\ c >= 0 => /\ TimeDecay(c, e).den = 4 * total
                     /\ \A d \in Labelled : num(d) = LinearDecay(c, total, x(d))
        /\ c < 0 /\ c >= -4 => /\ TimeDecay(c, e).den = scale
                               /\ \A d \in Labelled : num(d) = Max({0, scale - 4 * (total - x(d))})
        /\ c < -4 => /\ TimeDecay(c, e).den = -scale
                     /\ \A d \in Labelled : num(d) = 4 * (total - x(d)) - scale
    BY <2>1 DEF TimeDecay, LinearDecay
  <2>4. ASSUME NEW d \in Labelled, Attribution(d) = Attribution(e),
               num(d) \in Int, num(e) \in Int
        PROVE  /\ num(d) <= num(e) => Weight(c, d) <= Weight(c, e)
               /\ num(d) >= num(e) => Weight(c, d) >= Weight(c, e)
    <3> DEFINE N == NormalizedWeight(e)
               a == num(d)
               b == num(e)
    <3>1. N \in Nat
      <4>1. Cardinality(Labelled) \in Nat /\ Attribution(e) \in Nat
        BY AttributionIsNat, FS_CardinalityType DEF WeightInv, SpansKept
      <4> QED
        BY <4>1 DEF NormalizedWeight
    <3>2. Weight(c, d) = N * a /\ Weight(c, e) = N * b /\ a \in Int /\ b \in Int
      BY <2>4 DEF Weight, NormalizedWeight
    <3> HIDE DEF N, a, b
    <3>3. (a <= b => N * a <= N * b) /\ (b <= a => N * b <= N * a) /\ N * a \in Int /\ N * b \in Int
      BY <3>1, <3>2, TimesGrows
    <3>4. (a <= b => Weight(c, d) <= Weight(c, e)) /\ (b <= a => Weight(c, e) <= Weight(c, d))
      BY <3>2, <3>3
    <3>5. (b <= a <=> a >= b) /\ (Weight(c, e) <= Weight(c, d) <=> Weight(c, d) >= Weight(c, e))
      BY <3>2, <3>3
    <3> QED
      BY <3>4, <3>5 DEF a, b
  <2> HIDE DEF total, num, x, newest
  <2>5. \A k \in Int : \A t \in Nat \ {0} :
          k * t \in Int /\ (k > 0 => k * t > 0) /\ (k < 0 => k * t < 0) /\ (k = 0 => k * t = 0)
    OBVIOUS
  <2>6. scale \in Int /\ (c = -4 => scale = 0) /\ (c > -4 => scale > 0) /\ (c < -4 => scale < 0)
    <3>1. 4 + c \in Int /\ (c = -4 <=> 4 + c = 0) /\ (c > -4 <=> 4 + c > 0) /\ (c < -4 <=> 4 + c < 0)
      BY <2>1
    <3> HIDE DEF scale
    <3>2. scale = (4 + c) * total
      BY DEF scale
    <3> QED
      BY <2>2, <2>5, <3>1, <3>2
  <2>7. c * total \in Int /\ scale = 4 * total + c * total /\ -c * total = -(c * total)
    <3>1. \A k, u \in Int : k * u \in Int /\ (4 + k) * u = 4 * u + k * u /\ -k * u = -(k * u)
      OBVIOUS
    <3> QED
      BY <2>1, <2>2, <3>1
  <2> HIDE DEF scale
  <2>8. CASE c \in 0..4
    <3>1. \A u \in 1..total : \A v \in u..total :
            /\ LinearDecay(c, total, u) \in Nat \ {0} /\ LinearDecay(c, total, v) \in Nat
            /\ LinearDecay(c, total, u) <= LinearDecay(c, total, v)
            /\ LinearDecay(c, total, total) = 4 * total
      BY <2>2, <2>8, LinearDecayGrows
    <3>2. /\ TimeDecay(c, e).den = 4 * total /\ c # -4 /\ c \notin -3..-1 /\ ~(c < -4) /\ c > -4
          /\ \A d \in Labelled : num(d) = LinearDecay(c, total, x(d))
      BY <2>3, <2>8
    <3>3. ASSUME NEW d \in Labelled, d <= e
          PROVE  num(d) \in Int /\ num(e) \in Int /\ num(d) <= num(e)
      <4>1. x(d) \in 1..total /\ x(e) \in x(d)..total
        BY <2>2, <3>3
      <4> QED
        BY <3>1, <3>2, <4>1
    <3>4. num(e) \in Nat \ {0} /\ (newest => num(e) = 4 * total)
      <4>1. total \in x(e)..total
        BY <2>2
      <4> QED
        BY <2>2, <3>1, <3>2, <4>1
    <3>5. TimeDecay(c, e).den # 0
      BY <2>2, <3>2
    <3> QED
      BY <2>4, <3>2, <3>3, <3>4, <3>5 DEF num, newest
  <2>9. CASE c \in -3..-1
    <3>1. /\ TimeDecay(c, e).den = scale /\ c # -4 /\ ~(c < -4) /\ c > -4 /\ scale > 0
          /\ \A d \in Labelled : num(d) = Max({0, scale - 4 * (total - x(d))})
      BY <2>3, <2>6, <2>9
    <3>2. ASSUME NEW d \in Labelled, d <= e
          PROVE  num(d) = IF scale - 4 * (total - x(d)) > 0 THEN scale - 4 * (total - x(d)) ELSE 0
      <4>1. scale - 4 * (total - x(d)) \in Int
        BY <2>2, <2>6, <3>2
      <4> QED
        BY <3>1, <3>2, <4>1, MaxWithZero
    <3>3. ASSUME NEW d \in Labelled, d <= e
          PROVE  num(d) \in Int /\ num(e) \in Int /\ num(d) <= num(e)
      <4>1. e <= e
        BY DEF WeightInv, SpansKept
      <4> QED
        BY <2>2, <2>6, <3>2, <3>3, <4>1
    <3>4. /\ newest => num(e) = scale
          /\ num(e) = 0 <=> 4 * x(e) <= -c * total
      <4>1. e <= e
        BY DEF WeightInv, SpansKept
      <4>2. num(e) = IF scale - 4 * (total - x(e)) > 0 THEN scale - 4 * (total - x(e)) ELSE 0
        BY <3>2, <4>1
      <4> QED
        BY <2>2, <2>6, <2>7, <3>1, <4>2
    <3>5. TimeDecay(c, e).den # 0
      BY <2>6, <3>1
    <3> QED
      BY <2>4, <2>9, <3>1, <3>3, <3>4, <3>5 DEF num, newest, total, x
  <2>10. CASE c = -4
    <3>1. TimeDecay(c, e).den = 0 /\ ~(c > -4) /\ ~(c < -4)
      BY <2>3, <2>6, <2>10
    <3> QED
      BY <2>10, <3>1
  <2>11. CASE c < -4
    <3>1. /\ TimeDecay(c, e).den = -scale /\ c # -4 /\ c \notin -3..-1 /\ ~(c > -4) /\ scale < 0
          /\ \A d \in Labelled : num(d) = 4 * (total - x(d)) - scale
      BY <2>1, <2>3, <2>6, <2>11
    <3>2. ASSUME NEW d \in Labelled, d <= e
          PROVE  num(d) \in Int /\ num(e) \in Int /\ num(d) >= num(e)
      BY <2>2, <2>6, <3>1, <3>2
    <3>3. (newest => num(e) = -scale) /\ num(e) # 0 /\ TimeDecay(c, e).den # 0
      BY <2>2, <2>6, <3>1
    <3> QED
      BY <2>4, <3>1, <3>2, <3>3 DEF num, newest
  <2> QED
    BY <2>1, <2>8, <2>9, <2>10, <2>11
<1> QED
  BY <1>1, WeightInvariant, PTL

-----------------------------------------------------------------------------
(* The stores (RecipeStore).                                               *)

\* A node has two parts.
Node(frame, attrs) == [frame |-> frame, attrs |-> attrs]
NodesWhole == \A k \in DOMAIN nodes : /\ nodes[k] = Node(nodes[k].frame, nodes[k].attrs)
                                      /\ \A a \in nodes[k].attrs : a.n = nodes[k].frame

\* The call under way: its frame lies under its key once it was put, and no recipe
\* with that key is known to be stored.
CallUnderWay ==
  writing.step # "none" =>
    /\ writing = Writing(writing.step, writing.recipe, writing.frame)
    /\ writing.recipe \in Recipes /\ writing.frame \in 1..stores
    /\ \A r \in DOMAIN known : Key(r) # Key(writing.recipe)
    /\ writing.step = "attrs" => /\ Key(writing.recipe) \in DOMAIN nodes
                                 /\ nodes[Key(writing.recipe)].frame = writing.frame

\* What is known to be stored lies under its key, described by its own attributes.
KnownStored ==
  \A r \in DOMAIN known :
    /\ Key(r) \in DOMAIN nodes
    /\ nodes[Key(r)] = Node(known[r], {[recipe |-> r, n |-> known[r]]})

StoreInv == StoreTypeOK /\ NodesWhole /\ CallUnderWay /\ KnownStored

-----------------------------------------------------------------------------

\* What a store replaces are the recipes with its key.
LEMMA ReplacedHasTheKey ==
  ASSUME NEW r, NEW q \in DOMAIN known, q \notin Replaced(r)
  PROVE  Key(q) # Key(r)
BY DEF Replaced, Key

LEMMA StoreInitInv == StoreInit => StoreInv
<1> SUFFICES ASSUME StoreInit PROVE StoreInv
  OBVIOUS
<1>1. nodes = <<>> /\ known = <<>> /\ writing.step = "none" /\ stores = 0
  BY DEF StoreInit, Done
<1> QED
  BY <1>1, StoreAssumption
     DEF StoreAssumption, StoreInv, StoreTypeOK, NodesWhole, CallUnderWay, KnownStored

LEMMA BeginStoreInv ==
  ASSUME StoreInv, NEW r \in Recipes, NEW overwrite, BeginStore(r, overwrite)
  PROVE  StoreInv'
<1> DEFINE key == Key(r)
<1>1. /\ writing.step = "none" /\ stores < MaxStores /\ stores' = stores + 1
      /\ stores \in Nat /\ stores' \in 0..MaxStores
  BY StoreAssumption DEF BeginStore, StoreInv, StoreTypeOK, StoreAssumption
<1>2. CASE UNCHANGED <<nodes, writing, known>>
  <2>1. StoreTypeOK'
    BY <1>1, <1>2 DEF StoreInv, StoreTypeOK
  <2>2. NodesWhole' /\ CallUnderWay' /\ KnownStored'
    BY <1>1, <1>2 DEF StoreInv, NodesWhole, CallUnderWay, KnownStored
  <2> QED
    BY <2>1, <2>2 DEF StoreInv
<1>3. CASE /\ nodes' = Without(nodes, {key})
           /\ writing' = Writing("put", r, stores')
           /\ known' = Without(known, Replaced(r))
  <2>1. /\ DOMAIN nodes' = DOMAIN nodes \ {key}
        /\ \A k \in DOMAIN nodes' : nodes'[k] = nodes[k]
    BY <1>3 DEF Without
  <2>2. /\ DOMAIN known' = DOMAIN known \ Replaced(r)
        /\ \A q \in DOMAIN known' : known'[q] = known[q] /\ Key(q) # key
    BY <1>3, ReplacedHasTheKey DEF Without
  <2>3. writing'.step = "put" /\ writing'.recipe = r /\ writing'.frame = stores'
    BY <1>3 DEF Writing
  <2>4. StoreTypeOK'
    BY <1>1, <2>1, <2>2, <2>3 DEF StoreInv, StoreTypeOK
  <2>5. NodesWhole'
    BY <2>1 DEF StoreInv, NodesWhole
  <2>6. CallUnderWay'
    BY <1>1, <1>3, <2>2, <2>3 DEF CallUnderWay
  <2>7. KnownStored'
    BY <2>1, <2>2 DEF StoreInv, KnownStored
  <2> QED
    BY <2>4, <2>5, <2>6, <2>7 DEF StoreInv
<1> QED
  BY <1>2, <1>3 DEF BeginStore

LEMMA PutFrameInv ==
  ASSUME StoreInv, PutFrame
  PROVE  StoreInv'
<1> DEFINE r == writing.recipe
           key == Key(r)
<1>1. /\ nodes' = Put(nodes, key, Node(writing.frame, NoAttrs))
      /\ writing' = [writing EXCEPT !.step = "attrs"]
      /\ writing.step = "put" /\ UNCHANGED <<known, stores>>
  BY DEF PutFrame, Node
<1>2. /\ writing = Writing(writing.step, r, writing.frame)
      /\ r \in Recipes /\ writing.frame \in 1..stores
      /\ \A q \in DOMAIN known : Key(q) # key
  BY <1>1 DEF StoreInv, CallUnderWay
<1>3. writing' = Writing("attrs", r, writing.frame)
  BY <1>1, <1>2 DEF Writing
<1>4. writing'.step = "attrs" /\ writing'.recipe = r /\ writing'.frame = writing.frame
  BY <1>3 DEF Writing
<1>5. /\ DOMAIN nodes' = DOMAIN nodes \cup {key}
      /\ nodes'[key] = Node(writing.frame, NoAttrs)
      /\ \A k \in DOMAIN nodes : k # key => nodes'[k] = nodes[k]
  BY <1>1 DEF Put
<1>6. nodes'[key].frame = writing.frame /\ nodes'[key].attrs = {}
  BY <1>5 DEF Node, NoAttrs
<1>7. StoreTypeOK'
  BY <1>1, <1>2, <1>4, <1>5, <1>6 DEF StoreInv, StoreTypeOK
<1>8. NodesWhole'
  BY <1>5, <1>6 DEF StoreInv, NodesWhole, NoAttrs
<1>9. CallUnderWay'
  BY <1>1, <1>2, <1>3, <1>4, <1>5, <1>6 DEF CallUnderWay
<1>10. KnownStored'
  BY <1>1, <1>2, <1>5 DEF StoreInv, KnownStored
<1> QED
  BY <1>7, <1>8, <1>9, <1>10 DEF StoreInv

LEMMA PutAttrsInv ==
  ASSUME StoreInv, PutAttrs
  PROVE  StoreInv'
<1> DEFINE r == writing.recipe
           key == Key(r)
           row == {[recipe |-> r, n |-> writing.frame]}
<1>1. /\ nodes' = [nodes EXCEPT ![key].attrs = row]
      /\ known' = Put(known, r, writing.frame)
      /\ writing' = Done /\ writing.step = "attrs" /\ UNCHANGED stores
  BY DEF PutAttrs
<1>2. /\ r \in Recipes /\ writing.frame \in 1..stores
      /\ \A q \in DOMAIN known : Key(q) # key
      /\ key \in DOMAIN nodes /\ nodes[key].frame = writing.frame
  BY <1>1 DEF StoreInv, CallUnderWay
<1>3. nodes[key] = Node(writing.frame, nodes[key].attrs)
  BY <1>2 DEF StoreInv, NodesWhole
<1>4. /\ DOMAIN nodes' = DOMAIN nodes
      /\ nodes'[key] = Node(writing.frame, row)
      /\ \A k \in DOMAIN nodes : k # key => nodes'[k] = nodes[k]
  BY <1>1, <1>2, <1>3 DEF Node
<1>5. nodes'[key].frame = writing.frame /\ nodes'[key].attrs = row
  BY <1>4 DEF Node
<1>6. /\ DOMAIN known' = DOMAIN known \cup {r} /\ known'[r] = writing.frame
      /\ \A q \in DOMAIN known : q # r => known'[q] = known[q]
  BY <1>1 DEF Put
<1>7. writing'.step = "none"
  BY <1>1 DEF Done
<1>8. StoreTypeOK'
  BY <1>1, <1>2, <1>4, <1>5, <1>6, <1>7 DEF StoreInv, StoreTypeOK
<1>9. NodesWhole'
  <2>1. ASSUME NEW k \in DOMAIN nodes, k # key
        PROVE  /\ nodes'[k] = Node(nodes'[k].frame, nodes'[k].attrs)
               /\ \A a \in nodes'[k].attrs : a.n = nodes'[k].frame
    BY <1>4, <2>1 DEF StoreInv, NodesWhole
  <2>2. \A a \in row : a.n = writing.frame
    OBVIOUS
  <2>3. /\ nodes'[key] = Node(nodes'[key].frame, nodes'[key].attrs)
        /\ \A a \in nodes'[key].attrs : a.n = nodes'[key].frame
    BY <1>4, <1>5, <2>2
  <2> QED
    BY <1>4, <2>1, <2>3 DEF NodesWhole
<1>10. CallUnderWay'
  BY <1>7 DEF CallUnderWay
<1>11. KnownStored'
  BY <1>2, <1>4, <1>6 DEF StoreInv, KnownStored
<1> QED
  BY <1>8, <1>9, <1>10, <1>11 DEF StoreInv

LEMMA StoreStepInv == StoreInv /\ [StoreNext]_storeVars => StoreInv'
<1> SUFFICES ASSUME StoreInv, [StoreNext]_storeVars
             PROVE  StoreInv'
  OBVIOUS
<1>1. CASE UNCHANGED storeVars
  BY <1>1 DEF StoreInv, StoreTypeOK, NodesWhole, CallUnderWay, KnownStored, storeVars
<1>2. CASE StoreAborted
  <2>1. writing'.step = "none" /\ UNCHANGED <<nodes, known, stores>>
    BY <1>2 DEF StoreAborted, Done
  <2> QED
    BY <2>1 DEF StoreInv, StoreTypeOK, NodesWhole, CallUnderWay, KnownStored
<1> QED
  BY <1>1, <1>2, BeginStoreInv, PutFrameInv, PutAttrsInv DEF StoreNext

\* The inductive invariant.
THEOREM StoreInvariant == StoreSpec => []StoreInv
BY StoreInitInv, StoreStepInv, PTL DEF StoreSpec

\* What a store returned for is what a load gives, whatever calls were aborted since,
\* until a call with the same key began; and a listing has the recipe's own row, unless
\* the same weight recipe is stored for another label set (labels/storage.py:79-92,
\* weights/storage.py:103-117, 186-197).
THEOREM StoreKeeps == StoreSpec => []KeepsWhatWasStored
<1>1. StoreInv => KeepsWhatWasStored
  <2> SUFFICES ASSUME StoreInv PROVE KeepsWhatWasStored
    OBVIOUS
  <2>1. ASSUME NEW r \in DOMAIN known
        PROVE  /\ Load(r) = {known[r]}
               /\ nodes[Key(r)].attrs = {[recipe |-> r, n |-> known[r]]}
    <3> DEFINE row == {[recipe |-> r, n |-> known[r]]}
    <3>1. Key(r) \in DOMAIN nodes /\ nodes[Key(r)] = Node(known[r], row)
      BY DEF StoreInv, KnownStored
    <3>2. nodes[Key(r)].frame = known[r] /\ nodes[Key(r)].attrs = row
      BY <3>1 DEF Node
    <3> QED
      BY <3>1, <3>2 DEF Load
  <2>2. ASSUME NEW r \in DOMAIN known
        PROVE  /\ Contested(r) => r.weight # ForLabels
               /\ Hash(Key(r)) \in DOMAIN RowsListed(r, r.weight)
               /\ ~Contested(r) => RowsListed(r, r.weight)[Hash(Key(r))] = {ListingRow(r, known[r])}
    <3> DEFINE listed == Listed(r, r.weight)
               h == Hash(Key(r))
               last == CHOOSE k \in listed : Hash(k) = h
               rowOf(k) == {ListingRow(a.recipe, a.n) : a \in nodes[k].attrs}
    <3>1. Key(r) \in DOMAIN nodes
      BY DEF StoreInv, KnownStored
    <3>2. /\ Key(r).group = Symbols[r.symbol] /\ Key(r).thr = ThresholdKey(r.threshold)
          /\ Key(r).label = r.label /\ Key(r).weight = r.weight
      BY DEF Key
    <3>3. Key(r) \in listed
      BY <3>1, <3>2 DEF Listed
    <3>4. h \in DOMAIN RowsListed(r, r.weight) /\ RowsListed(r, r.weight)[h] = rowOf(last)
      BY <3>3 DEF RowsListed
    <3>5. last \in listed /\ Hash(last) = h
      BY <3>3
    <3>6. ~Contested(r) => last = Key(r)
      BY <3>5, Zenon DEF Contested
    <3>7. rowOf(Key(r)) = {ListingRow(r, known[r])}
      <4>1. nodes[Key(r)].attrs = {[recipe |-> r, n |-> known[r]]}
        BY <2>1
      <4> QED
        BY <4>1
    <3>8. ASSUME r.weight = ForLabels, NEW k \in listed, Hash(k) = h
          PROVE  k = Key(r)
      <4>1. PICK q \in Recipes : k = Key(q)
        BY DEF Listed, StoreInv, StoreTypeOK
      <4>2. /\ Symbols[q.symbol] = Symbols[r.symbol]
            /\ ThresholdKey(q.threshold) = ThresholdKey(r.threshold)
            /\ q.weight = ForLabels /\ q.label = r.label
        BY <3>2, <3>8, <4>1 DEF Listed, Key, Hash
      <4> QED
        BY <3>8, <4>1, <4>2 DEF Key
    <3>9. Contested(r) => r.weight # ForLabels
      BY <3>8 DEF Contested
    <3> HIDE DEF last, rowOf
    <3> QED
      BY <3>4, <3>6, <3>7, <3>9
  <2>3. \A k \in DOMAIN nodes : \A a \in nodes[k].attrs : a.n = nodes[k].frame
    BY DEF StoreInv, NodesWhole
  <2> QED
    BY <2>1, <2>2, <2>3 DEF KeepsWhatWasStored
<1> QED
  BY <1>1, StoreInvariant, PTL

-----------------------------------------------------------------------------
(* The parallel engine: the batches laid end to end are the sequential order. *)

\* A sequence of sequences is flattened from the left.
LEMMA FlattenUnrolls ==
  ASSUME NEW V, NEW seqs \in Seq(Seq(V)), seqs # <<>>
  PROVE  \E f : /\ \A i \in 1..Len(seqs) : f[i] \in Seq(V)
                /\ f[1] = seqs[1]
                /\ \A i \in 2..Len(seqs) : f[i] = f[i - 1] \o seqs[i]
                /\ FlattenSeq(seqs) = f[Len(seqs)]
<1> DEFINE n == Len(seqs)
           first == seqs[1]
           body(f) == [i \in 1..n |-> IF i = 1 THEN seqs[i] ELSE f[i - 1] \o seqs[i]]
           flatten == CHOOSE f : f = body(f)
           Join == [i \in 2..n |-> [v \in Seq(V) |-> v \o seqs[i]]]
<1>1. n \in Nat \ {0} /\ \A i \in 1..n : seqs[i] \in Seq(V)
  OBVIOUS
<1>2. first \in Seq(V)
  BY <1>1
<1>3. /\ 2 \in Nat \ {0} /\ 2 <= n + 1 /\ 2 - 1 = 1
      /\ \A i \in 2..n : i \in 1..n /\ i # 1 /\ i - 1 \in 1..n
      /\ \A i \in 1..n : i = 1 \/ i \in 2..n
      /\ 1 \in 1..n /\ n \in 1..n
  BY <1>1
<1> HIDE DEF n, first
<1>4. /\ Join \in StepsFrom(2, n, Seq(V))
      /\ \A i \in 2..n : \A v \in Seq(V) : Join[i][v] = v \o seqs[i]
  <2> DEFINE Row(i) == [v \in Seq(V) |-> v \o seqs[i]]
  <2>1. \A i \in 2..n : Row(i) \in [Seq(V) -> Seq(V)] /\ \A v \in Seq(V) : Row(i)[v] = v \o seqs[i]
    <3>1. \A u, v \in Seq(V) : u \o v \in Seq(V)
      OBVIOUS
    <3> QED
      BY <1>1, <1>3, <3>1
  <2>2. \A i \in 2..n : Join[i] = Row(i)
    OBVIOUS
  <2>3. Join = [i \in 2..n |-> Row(i)]
    OBVIOUS
  <2> HIDE DEF Join, Row
  <2>4. Join \in [2..n -> [Seq(V) -> Seq(V)]]
    BY <2>1, <2>3
  <2> QED
    BY <2>1, <2>2, <2>4, Zenon DEF StepsFrom
<1> HIDE DEF Join
<1>5. PICK g : Follows(g, 2, n, Seq(V), first, Join)
  BY <1>1, <1>2, <1>3, <1>4, RecursionFrom
<1>6. g \in [1..n -> Seq(V)] /\ g[1] = first /\ \A i \in 2..n : g[i] = Join[i][g[i - 1]]
  BY <1>3, <1>5, Zenon DEF Follows
<1>7. g = body(g)
  <2>1. \A i \in 2..n : g[i] = g[i - 1] \o seqs[i]
    BY <1>3, <1>4, <1>6
  <2> QED
    BY <1>3, <1>6, <2>1 DEF first
<1>8. flatten = body(flatten)
  <2> HIDE DEF body
  <2> QED
    BY <1>7
<1>9. FlattenSeq(seqs) = flatten[n]
  <2>1. Len(seqs) # 0
    BY <1>1 DEF n
  <2> QED
    BY <2>1, Zenon DEF FlattenSeq, n
<1> HIDE DEF flatten
<1>10. \A i \in 1..n : flatten[i] = IF i = 1 THEN seqs[i] ELSE flatten[i - 1] \o seqs[i]
  BY <1>8, Zenon
<1>11. flatten[1] = seqs[1] /\ \A i \in 2..n : flatten[i] = flatten[i - 1] \o seqs[i]
  BY <1>3, <1>10
<1> DEFINE G == {i \in 1..n : flatten[i] \in Seq(V)}
<1>12. 1 \in G /\ \A i \in 2..n : i - 1 \in G => i \in G
  <2>1. \A u, v \in Seq(V) : u \o v \in Seq(V)
    OBVIOUS
  <2> QED
    BY <1>1, <1>3, <1>11, <2>1
<1>13. \A i \in 1..n : i \in G
  <2>1. CASE n = 1
    BY <1>12, <2>1
  <2>2. CASE n # 1
    <3>1. 2 <= n
      BY <1>1, <2>2
    <3> HIDE DEF G
    <3>2. \A i \in 2 - 1..n : i \in G
      BY <1>1, <1>3, <1>12, <3>1, InductionFrom
    <3> QED
      BY <1>3, <3>2
  <2> QED
    BY <2>1, <2>2
<1> QED
  BY <1>9, <1>11, <1>13 DEF n

InBatchOrder(s, m, batches) == \A i, j \in 1..m : i < j => Ahead(batches, s[i], s[j])
Meets(s, m, n) == \A a \in 1..n : \E k \in 1..m : s[k] = a
\* s lists the atoms of batch i.
ListsBatch(s, n, batches, i) ==
  /\ s \in Seq(1..n)
  /\ InBatchOrder(s, Len(s), batches)
  /\ \A k \in 1..Len(s) : (s[k] - 1) % batches = i - 1
  /\ \A a \in 1..n : (a - 1) % batches = i - 1 => \E k \in 1..Len(s) : s[k] = a
\* s lists the atoms of the first m batches.
ListsBatches(s, n, batches, m) ==
  /\ s \in Seq(1..n)
  /\ InBatchOrder(s, Len(s), batches)
  /\ \A k \in 1..Len(s) : (s[k] - 1) % batches < m
  /\ \A a \in 1..n : (a - 1) % batches < m => \E k \in 1..Len(s) : s[k] = a

LEMMA AheadIsTotal ==
  ASSUME NEW batches \in Nat \ {0}, NEW a \in Nat \ {0}, NEW b \in Nat \ {0}
  PROVE  /\ ~Ahead(batches, a, a)
         /\ a # b => Ahead(batches, a, b) \/ Ahead(batches, b, a)
         /\ Ahead(batches, a, b) => ~Ahead(batches, b, a)
<1>1. (a - 1) % batches \in Int /\ (b - 1) % batches \in Int
  BY Division
<1> QED
  BY <1>1 DEF Ahead

\* A batch is every batches-th atom.
LEMMA PartLists ==
  ASSUME NEW n \in Nat, NEW batches \in Nat \ {0}, NEW i \in 1..batches, i <= n
  PROVE  ListsBatch(Part(n, batches, i), n, batches, i)
<1> DEFINE q == (n - i) \div batches
           part == [k \in 1..q + 1 |-> i + (k - 1) * batches]
<1>1. q \in Nat /\ n - i >= batches * q /\ n - i < batches * (q + 1)
  <2> DEFINE r == (n - i) % batches
  <2>1. n - i \in Nat
    OBVIOUS
  <2>2. q \in Int /\ r \in 0..batches - 1 /\ n - i = batches * q + r
    <3>1. \A d \in Int : /\ d \div batches \in Int /\ d % batches \in 0..batches - 1
                         /\ d = batches * (d \div batches) + (d % batches)
      BY Division
    <3>2. n - i \in Int
      BY <2>1
    <3> QED
      BY <3>1, <3>2
  <2> HIDE DEF q, r
  <2>3. batches * (q + 1) = batches * q + batches /\ batches * q \in Int
    BY <2>2
  <2>4. q >= 0
    <3> SUFFICES ASSUME q + 1 <= 0 PROVE FALSE
      BY <2>2
    <3>1. batches * (q + 1) <= 0
      <4>1. \A x \in Nat : \A y \in Int : y <= 0 => x * y <= 0
        OBVIOUS
      <4> QED
        BY <2>2, <4>1
    <3> QED
      BY <2>1, <2>2, <2>3, <3>1
  <2> QED
    BY <2>2, <2>3, <2>4
<1> HIDE DEF q
<1>2. part \in Seq(Int) /\ Len(part) = q + 1 /\ \A k \in 1..q + 1 : part[k] = i + (k - 1) * batches
  BY <1>1
<1>3. Part(n, batches, i) = part
  BY DEF Part, q
<1> HIDE DEF part
<1>4. ASSUME NEW k \in 1..q + 1
      PROVE  part[k] \in 1..n /\ (part[k] - 1) % batches = i - 1
  <2> DEFINE m == k - 1
  <2>1. m \in Nat /\ m <= q
    BY <1>1
  <2>2. part[k] = i + m * batches
    BY <1>2
  <2> HIDE DEF m
  <2>3. m * batches \in Nat /\ m * batches <= batches * q /\ m * batches = batches * m
    <3>1. \A x, y, z \in Nat : x <= y => x * z \in Nat /\ x * z <= z * y /\ x * z = z * x
      OBVIOUS
    <3> QED
      BY <1>1, <2>1, <3>1
  <2>4. part[k] \in 1..n
    <3>1. batches * q \in Nat
      BY <1>1
    <3> QED
      BY <1>1, <2>2, <2>3, <3>1
  <2> DEFINE e == i - 1
  <2>5. part[k] - 1 = batches * m + e /\ e \in 0..batches - 1 /\ m \in Int
    BY <2>1, <2>2, <2>3
  <2> HIDE DEF e
  <2>6. (batches * m + e) % batches = e
    BY <2>5, QuotientIs
  <2>7. (part[k] - 1) % batches = e
    BY <2>5, <2>6
  <2> QED
    BY <2>4, <2>7 DEF e
<1>5. part \in Seq(1..n)
  <2>1. part \in [1..q + 1 -> 1..n]
    BY <1>4 DEF part
  <2>2. q + 1 \in Nat
    BY <1>1
  <2> QED
    BY <2>1, <2>2
<1>6. InBatchOrder(part, Len(part), batches)
  <2> SUFFICES ASSUME NEW k \in 1..q + 1, NEW l \in 1..q + 1, k < l
               PROVE  Ahead(batches, part[k], part[l])
    BY <1>2 DEF InBatchOrder
  <2>1. k - 1 \in Nat /\ l - 1 \in Nat /\ k - 1 < l - 1
    BY <1>1
  <2>2. (k - 1) * batches < (l - 1) * batches /\ (k - 1) * batches \in Int /\ (l - 1) * batches \in Int
    <3>1. \A x, y \in Nat : \A z \in Nat \ {0} : x < y => x * z < y * z /\ x * z \in Int /\ y * z \in Int
      OBVIOUS
    <3> QED
      BY <2>1, <3>1
  <2>3. part[k] < part[l]
    BY <1>2, <2>2
  <2> QED
    BY <1>4, <2>3 DEF Ahead
<1>7. ASSUME NEW a \in 1..n, (a - 1) % batches = i - 1
      PROVE  \E k \in 1..q + 1 : part[k] = a
  <2> DEFINE m == (a - 1) \div batches
  <2>1. a - 1 \in Nat
    OBVIOUS
  <2>2. m \in Int /\ a - 1 = batches * m + (i - 1)
    BY <1>7, <2>1, Division
  <2> HIDE DEF m
  <2>3. batches * m \in Int /\ m * batches = batches * m /\ batches * q \in Int
        /\ batches * (q + 1) \in Int
    BY <1>1, <2>2
  <2>4. m <= q
    <3> SUFFICES ASSUME m >= q + 1 PROVE FALSE
      BY <1>1, <2>2
    <3>1. batches * (q + 1) <= batches * m
      <4>1. \A z \in Nat : \A x, y \in Int : x <= y => z * x <= z * y
        OBVIOUS
      <4> QED
        BY <1>1, <2>2, <4>1
    <3> QED
      BY <1>1, <2>2, <2>3, <3>1
  <2>5. m >= 0
    <3> SUFFICES ASSUME m <= -1 PROVE FALSE
      BY <2>2
    <3>1. batches * m <= batches * (-1)
      <4>1. \A z \in Nat : \A x, y \in Int : x <= y => z * x <= z * y
        OBVIOUS
      <4> QED
        BY <2>2, <4>1
    <3> QED
      BY <2>2, <2>3, <3>1
  <2>6. m + 1 \in 1..q + 1 /\ m + 1 - 1 = m
    BY <1>1, <2>2, <2>4, <2>5
  <2>7. part[m + 1] = a
    BY <1>2, <2>2, <2>3, <2>6
  <2> QED
    BY <2>6, <2>7
<1> QED
  BY <1>2, <1>3, <1>4, <1>5, <1>6, <1>7 DEF ListsBatch

\* One more batch at the end of those before it.
LEMMA BatchAppended ==
  ASSUME NEW n \in Nat, NEW batches \in Nat \ {0}, NEW i \in 1..batches, i <= n,
         NEW s, ListsBatches(s, n, batches, i - 1)
  PROVE  ListsBatches(s \o Part(n, batches, i), n, batches, i)
<1> DEFINE p == Part(n, batches, i)
           t == s \o p
           u == Len(s)
           v == Len(p)
           batch(a) == (a - 1) % batches
<1>0. ListsBatch(p, n, batches, i)
  BY PartLists
<1> HIDE DEF p
<1>1. /\ p \in Seq(1..n) /\ InBatchOrder(p, v, batches)
      /\ \A k \in 1..v : batch(p[k]) = i - 1
      /\ \A a \in 1..n : batch(a) = i - 1 => \E k \in 1..v : p[k] = a
  BY <1>0 DEF ListsBatch
<1>2. /\ s \in Seq(1..n) /\ InBatchOrder(s, u, batches)
      /\ \A k \in 1..u : batch(s[k]) < i - 1
      /\ \A a \in 1..n : batch(a) < i - 1 => \E k \in 1..u : s[k] = a
  BY DEF ListsBatches
<1>3. /\ u \in Nat /\ v \in Nat /\ t \in Seq(1..n) /\ Len(t) = u + v
      /\ \A k \in 1..u : t[k] = s[k]
      /\ \A k \in 1..v : t[u + k] = p[k]
      /\ \A k \in 1..u : s[k] \in 1..n
      /\ \A k \in 1..v : p[k] \in 1..n
  <2> DEFINE V == 1..n
  <2>1. s \in Seq(V) /\ p \in Seq(V)
    BY <1>1, <1>2
  <2> HIDE DEF V
  <2>2. /\ u \in Nat /\ v \in Nat /\ t \in Seq(V) /\ Len(t) = u + v
        /\ \A k \in 1..u : t[k] = s[k]
        /\ \A k \in 1..v : t[u + k] = p[k]
        /\ \A k \in 1..u : s[k] \in V
        /\ \A k \in 1..v : p[k] \in V
    <3>1. u \in Nat /\ v \in Nat /\ (\A k \in 1..u : s[k] \in V) /\ \A k \in 1..v : p[k] \in V
      BY <2>1
    <3>2. t \in Seq(V) /\ Len(t) = u + v
      BY <2>1
    <3>3. \A k \in 1..u : t[k] = s[k]
      BY <2>1
    <3>4. \A k \in 1..v : t[u + k] = p[k]
      <4> SUFFICES ASSUME NEW k \in 1..v
                   PROVE  t[u + k] = p[k]
        OBVIOUS
      <4>1. u + k \in 1..u + v /\ u + k > u /\ u + k - u = k
        BY <3>1
      <4> QED
        BY <2>1, <4>1
    <3> QED
      BY <3>1, <3>2, <3>3, <3>4
  <2> HIDE DEF t, u, v
  <2> QED
    BY <2>2 DEF V
<1>4. \A a \in 1..n : batch(a) \in Nat
  <2>1. \A d \in Nat : d % batches \in Nat
    BY Division
  <2>2. \A a \in 1..n : a - 1 \in Nat
    OBVIOUS
  <2> QED
    BY <2>1, <2>2
<1> HIDE DEF t, u, v
<1>5. \A k \in 1..u + v : k \in 1..u \/ (k - u \in 1..v /\ u + (k - u) = k)
  BY <1>3
<1>6. \A k \in 1..u + v : \/ k \in 1..u /\ t[k] = s[k]
                          \/ k - u \in 1..v /\ t[k] = p[k - u]
  BY <1>3, <1>5
<1>7. ASSUME NEW k \in 1..u + v, NEW l \in 1..u + v, k < l
      PROVE  Ahead(batches, t[k], t[l])
  <2>1. CASE l \in 1..u
    <3>1. k \in 1..u
      BY <1>3, <1>7, <2>1
    <3> QED
      BY <1>2, <1>3, <1>7, <2>1, <3>1 DEF InBatchOrder, u
  <2>2. CASE l - u \in 1..v /\ k \in 1..u
    <3>1. batch(t[k]) < i - 1 /\ batch(t[l]) = i - 1
      <4>1. t[k] = s[k]
        BY <1>3, <2>2
      <4>2. t[l] = p[l - u]
        BY <1>3, <1>5, <2>2
      <4> HIDE DEF batch
      <4> QED
        BY <1>1, <1>2, <2>2, <4>1, <4>2
    <3>2. t[k] \in 1..n /\ t[l] \in 1..n
      BY <1>3, <1>6
    <3> QED
      BY <1>4, <3>1, <3>2 DEF Ahead
  <2>3. CASE l - u \in 1..v /\ k - u \in 1..v
    <3>1. t[k] = p[k - u] /\ t[l] = p[l - u] /\ k - u < l - u
      BY <1>3, <1>5, <1>7, <2>3
    <3> QED
      BY <1>1, <2>3, <3>1 DEF InBatchOrder, v
  <2> QED
    BY <1>5, <2>1, <2>2, <2>3
<1>8. \A k \in 1..u + v : batch(t[k]) < i
  <2> SUFFICES ASSUME NEW k \in 1..u + v
               PROVE  batch(t[k]) < i
    OBVIOUS
  <2>1. t[k] \in 1..n /\ (batch(t[k]) < i - 1 \/ batch(t[k]) = i - 1)
    <3> HIDE DEF batch
    <3>1. CASE k \in 1..u /\ t[k] = s[k]
      BY <1>2, <1>3, <3>1
    <3>2. CASE k - u \in 1..v /\ t[k] = p[k - u]
      BY <1>1, <1>3, <3>2
    <3> QED
      BY <1>6, <3>1, <3>2
  <2>2. batch(t[k]) \in Nat
    BY <1>4, <2>1
  <2> HIDE DEF batch
  <2> QED
    BY <2>1, <2>2
<1>9. ASSUME NEW a \in 1..n, batch(a) < i
      PROVE  \E k \in 1..u + v : t[k] = a
  <2>1. batch(a) \in Nat
    BY <1>4
  <2>2. batch(a) < i - 1 \/ batch(a) = i - 1
    <3> HIDE DEF batch
    <3> QED
      BY <1>9, <2>1
  <2> HIDE DEF batch
  <2>3. CASE batch(a) < i - 1
    <3>1. PICK k \in 1..u : s[k] = a
      BY <1>2, <2>3
    <3>2. k \in 1..u + v
      BY <1>3
    <3> QED
      BY <1>3, <3>1, <3>2
  <2>4. CASE batch(a) = i - 1
    <3>1. PICK k \in 1..v : p[k] = a
      BY <1>1, <2>4
    <3>2. u + k \in 1..u + v
      BY <1>3
    <3> QED
      BY <1>3, <3>1, <3>2
  <2> QED
    BY <2>2, <2>3, <2>4
<1> QED
  BY <1>3, <1>7, <1>8, <1>9 DEF ListsBatches, InBatchOrder, t, p

\* There is one way to put the atoms in order.
LEMMA OneBatchOrder ==
  ASSUME NEW n \in Nat, NEW batches \in Nat \ {0},
         NEW s \in [1..n -> 1..n], NEW t \in [1..n -> 1..n],
         InBatchOrder(s, n, batches), InBatchOrder(t, n, batches), Meets(s, n, n), Meets(t, n, n)
  PROVE  s = t
<1> SUFFICES ASSUME NEW e \in 1..n, s[e] # t[e] PROVE FALSE
  OBVIOUS
<1> DEFINE Differ == {i \in 1..n : s[i] # t[i]}
<1>1. PICK k \in Differ : \A i \in Differ : k <= i
  <2>1. Differ \in SUBSET (1..n) /\ Differ # {}
    OBVIOUS
  <2> HIDE DEF Differ
  <2> QED
    BY <2>1, LeastExists
<1>2. \A i \in 1..n : i < k => s[i] = t[i]
  BY <1>1
<1>3. \A a, b \in 1..n : /\ ~Ahead(batches, a, a)
                         /\ a # b => Ahead(batches, a, b) \/ Ahead(batches, b, a)
                         /\ Ahead(batches, a, b) => ~Ahead(batches, b, a)
  <2>1. \A a \in 1..n : a \in Nat \ {0}
    OBVIOUS
  <2> QED
    BY <2>1, AheadIsTotal
<1>4. CASE Ahead(batches, s[k], t[k])
  <2>1. PICK l \in 1..n : t[l] = s[k]
    BY <1>1 DEF Meets
  <2>2. l < k \/ l = k \/ k < l
    OBVIOUS
  <2>3. CASE l < k
    BY <1>1, <1>2, <1>3, <2>1, <2>3 DEF InBatchOrder
  <2>4. CASE k < l
    BY <1>1, <1>3, <1>4, <2>1, <2>4 DEF InBatchOrder
  <2> QED
    BY <1>1, <2>1, <2>2, <2>3, <2>4
<1>5. CASE Ahead(batches, t[k], s[k])
  <2>1. PICK l \in 1..n : s[l] = t[k]
    BY <1>1 DEF Meets
  <2>2. l < k \/ l = k \/ k < l
    OBVIOUS
  <2>3. CASE l < k
    BY <1>1, <1>2, <1>3, <2>1, <2>3 DEF InBatchOrder
  <2>4. CASE k < l
    BY <1>1, <1>3, <1>5, <2>1, <2>4 DEF InBatchOrder
  <2> QED
    BY <1>1, <2>1, <2>2, <2>3, <2>4
<1> QED
  BY <1>1, <1>3, <1>4, <1>5

\* Putting the atoms in order meets each of them.
LEMMA OrderMeetsAll ==
  ASSUME NEW n \in Nat, NEW batches \in Nat \ {0}, NEW m \in Nat, NEW s \in [1..m -> 1..n],
         InBatchOrder(s, m, batches)
  PROVE  Meets(s, m, n) <=> m = n
<1>1. ASSUME NEW i \in 1..m, NEW j \in 1..m, i # j
      PROVE  s[i] # s[j]
  <2>1. \A a \in 1..n : ~Ahead(batches, a, a)
    BY AheadIsTotal
  <2>2. i < j \/ j < i
    BY <1>1
  <2> QED
    BY <2>1, <2>2 DEF InBatchOrder
<1>2. IsFiniteSet(1..m) /\ Cardinality(1..m) = m /\ IsFiniteSet(1..n) /\ Cardinality(1..n) = n
  BY FS_Interval
<1> DEFINE image == Image(s, 1..m)
<1>3. IsFiniteSet(image) /\ Cardinality(image) = m
  BY <1>1, <1>2, ImageSize
<1>4. image \subseteq 1..n
  BY DEF Image
<1>5. Meets(s, m, n) <=> 1..n \subseteq image
  BY DEF Image, Meets
<1> HIDE DEF image
<1>6. image = 1..n <=> m = n
  <2>1. Cardinality(image) = Cardinality(1..n) => image = 1..n
    BY <1>2, <1>4, FS_Subset
  <2> QED
    BY <1>2, <1>3, <2>1
<1> QED
  BY <1>1, <1>4, <1>5, <1>6

SomeBatchHas(parts, n) ==
  \A a \in 1..n : \E i \in 1..Len(parts) : \E k \in 1..Len(parts[i]) : parts[i][k] = a

\* Laid end to end, the batches are the sequential order.
LEMMA BatchesInOrder ==
  ASSUME NEW n \in Nat \ {0}, NEW batches \in Nat \ {0}
  PROVE  /\ Parts(n, batches) \in Seq(Seq(1..n))
         /\ SomeBatchHas(Parts(n, batches), n)
         /\ FlattenSeq(Parts(n, batches)) = BatchOrder(n, batches)
<1> DEFINE m == IF batches < n THEN batches ELSE n
           parts == Parts(n, batches)
<1>1. m \in Nat \ {0} /\ 1 \in 1..m /\ m \in 1..m /\ \A i \in 1..m : i \in 1..batches /\ i <= n
  OBVIOUS
<1>2. \A i \in 1..m : ListsBatch(Part(n, batches, i), n, batches, i) /\ Part(n, batches, i) \in Seq(1..n)
  <2>1. \A i \in 1..m : ListsBatch(Part(n, batches, i), n, batches, i)
    BY <1>1, PartLists
  <2> QED
    BY <2>1, Zenon DEF ListsBatch
<1>3. parts = [i \in 1..m |-> Part(n, batches, i)]
  BY DEF Parts
<1> HIDE DEF m, parts
<1>4. parts \in Seq(Seq(1..n)) /\ Len(parts) = m /\ parts # <<>> /\ \A i \in 1..m : parts[i] = Part(n, batches, i)
  <2> DEFINE V == Seq(1..n)
             part(i) == Part(n, batches, i)
  <2>1. m \in Nat /\ m # 0 /\ parts = [i \in 1..m |-> part(i)] /\ \A i \in 1..m : part(i) \in V
    BY <1>1, <1>2, <1>3
  <2> HIDE DEF V, part
  <2>2. parts \in Seq(V) /\ Len(parts) = m /\ parts # <<>> /\ \A i \in 1..m : parts[i] = part(i)
    BY <2>1
  <2> QED
    BY <2>2 DEF V, part
<1>5. PICK f : /\ \A i \in 1..m : f[i] \in Seq(1..n)
               /\ f[1] = parts[1]
               /\ \A i \in 2..m : f[i] = f[i - 1] \o parts[i]
               /\ FlattenSeq(parts) = f[m]
  <2> DEFINE V == 1..n
  <2>1. parts \in Seq(Seq(V)) /\ parts # <<>>
    BY <1>4
  <2> HIDE DEF V
  <2>2. \E f : /\ \A i \in 1..Len(parts) : f[i] \in Seq(V)
               /\ f[1] = parts[1]
               /\ \A i \in 2..Len(parts) : f[i] = f[i - 1] \o parts[i]
               /\ FlattenSeq(parts) = f[Len(parts)]
    BY <2>1, FlattenUnrolls
  <2> QED
    BY <1>4, <2>2 DEF V
<1>6. \A a \in 1..n : (a - 1) % batches \in Nat /\ (a - 1) % batches < m
  <2> SUFFICES ASSUME NEW a \in 1..n
               PROVE  (a - 1) % batches \in Nat /\ (a - 1) % batches < m
    OBVIOUS
  <2> DEFINE d == a - 1
  <2>1. d \in Nat /\ d < n
    OBVIOUS
  <2> HIDE DEF d
  <2>2. d % batches \in 0..d /\ d % batches \in 0..batches - 1
    <3>1. d % batches \in 0..d
      BY <2>1, ModBound
    <3>2. \A x \in Int : x % batches \in 0..batches - 1
      BY Division
    <3> QED
      BY <2>1, <3>1, <3>2
  <2>3. d % batches \in Nat /\ d % batches < m
    BY <2>1, <2>2 DEF m
  <2> QED
    BY <2>3 DEF d
<1> DEFINE G == {i \in 1..m : ListsBatches(f[i], n, batches, i)}
<1>7. 1 \in G
  <2>1. ListsBatch(f[1], n, batches, 1)
    BY <1>1, <1>2, <1>4, <1>5
  <2> DEFINE p == f[1]
  <2>2. /\ p \in Seq(1..n) /\ InBatchOrder(p, Len(p), batches)
        /\ \A k \in 1..Len(p) : (p[k] - 1) % batches = 0
        /\ \A a \in 1..n : (a - 1) % batches = 0 => \E k \in 1..Len(p) : p[k] = a
    <3>1. 1 - 1 = 0
      OBVIOUS
    <3> QED
      BY <2>1, <3>1 DEF ListsBatch
  <2> HIDE DEF p
  <2>3. \A k \in 1..Len(p) : (p[k] - 1) % batches < 1
    BY <2>2
  <2>4. \A a \in 1..n : (a - 1) % batches < 1 => (a - 1) % batches = 0
    BY <1>6
  <2>5. ListsBatches(p, n, batches, 1)
    BY <2>2, <2>3, <2>4 DEF ListsBatches
  <2> QED
    BY <1>1, <2>5 DEF p
<1>8. ASSUME NEW i \in 2..m, i - 1 \in G
      PROVE  i \in G
  <2>1. i \in 1..m /\ i \in 1..batches /\ i <= n
    BY <1>1
  <2>2. f[i] = f[i - 1] \o Part(n, batches, i)
    BY <1>4, <1>5, <2>1
  <2>3. ListsBatches(f[i - 1], n, batches, i - 1)
    BY <1>8
  <2>4. ListsBatches(f[i - 1] \o Part(n, batches, i), n, batches, i)
    BY <2>1, <2>3, BatchAppended
  <2> QED
    BY <2>1, <2>2, <2>4
<1>9. ListsBatches(f[m], n, batches, m)
  <2>1. CASE m = 1
    BY <1>7, <2>1
  <2>2. CASE m # 1
    <3>1. 2 <= m /\ 2 \in Nat \ {0} /\ 2 - 1 = 1 /\ m \in Nat
      BY <1>1, <2>2
    <3> HIDE DEF G
    <3>2. \A i \in 2 - 1..m : i \in G
      BY <1>7, <1>8, <3>1, InductionFrom
    <3> QED
      BY <1>1, <3>1, <3>2 DEF G
  <2> QED
    BY <2>1, <2>2
<1> DEFINE t == f[m]
<1>10. t \in Seq(1..n) /\ InBatchOrder(t, Len(t), batches) /\ Meets(t, Len(t), n)
  BY <1>6, <1>9 DEF ListsBatches, Meets
<1> HIDE DEF t
<1>11. t \in [1..n -> 1..n] /\ InBatchOrder(t, n, batches) /\ Meets(t, n, n)
  <2> DEFINE V == 1..n
             l == Len(t)
  <2>1. t \in Seq(V)
    BY <1>10
  <2> HIDE DEF V
  <2>2. l \in Nat /\ t \in [1..l -> V]
    BY <2>1
  <2>3. InBatchOrder(t, l, batches) /\ Meets(t, l, n)
    BY <1>10
  <2> HIDE DEF l
  <2>4. l = n
    <3>1. t \in [1..l -> 1..n]
      BY <2>2 DEF V
    <3> QED
      BY <2>2, <2>3, <3>1, OrderMeetsAll
  <2> QED
    BY <2>2, <2>3, <2>4 DEF V
<1>12. \A s \in [1..n -> 1..n] : InBatchOrder(s, n, batches) => s = t
  <2> SUFFICES ASSUME NEW s \in [1..n -> 1..n], InBatchOrder(s, n, batches)
               PROVE  s = t
    OBVIOUS
  <2>1. Meets(s, n, n)
    BY OrderMeetsAll
  <2> QED
    BY <1>11, <2>1, OneBatchOrder
<1>13. BatchOrder(n, batches) = t
  BY <1>11, <1>12 DEF BatchOrder, InBatchOrder
<1>14. \A a \in 1..n : \E i \in 1..m : \E k \in 1..Len(parts[i]) : parts[i][k] = a
  <2> SUFFICES ASSUME NEW a \in 1..n
               PROVE  \E i \in 1..m : \E k \in 1..Len(parts[i]) : parts[i][k] = a
    OBVIOUS
  <2> DEFINE i == ((a - 1) % batches) + 1
  <2>1. i \in 1..m /\ (a - 1) % batches = i - 1
    BY <1>1, <1>6
  <2> HIDE DEF i
  <2>2. i \in 1..batches /\ i <= n
    BY <1>1, <2>1
  <2>3. \E k \in 1..Len(Part(n, batches, i)) : Part(n, batches, i)[k] = a
    BY <1>2, <2>1 DEF ListsBatch
  <2> QED
    BY <1>4, <2>1, <2>3
<1> QED
  BY <1>4, <1>5, <1>13, <1>14 DEF parts, t, SomeBatchHas

-----------------------------------------------------------------------------
(* The engine implements the sequential map (MpEngine, ParallelMap).       *)

\* While a call is worked on, what has been collected is the first batches, none
\* of which failed.
CollectedInOrder ==
  /\ results \in Seq(Seq(1..call.atoms)) /\ Len(results) <= Len(jobs)
  /\ \A i \in 1..Len(results) : results[i] = jobs[i] /\ ~Fails(i)
EngineInv ==
  /\ call \in Calls
  /\ call = NoCall => results = <<>>
  /\ Working => /\ call.atoms # 0 /\ ~Refused(call)
                /\ jobs = Parts(call.atoms, call.batches)
                /\ CollectedInOrder

LEMMA EngineInitInv == EngineInit => EngineInv
<1> SUFFICES ASSUME EngineInit PROVE EngineInv
  OBVIOUS
<1>1. NoCall \in Calls
  <2>1. IsFiniteSet({}) /\ Cardinality({}) = 0
    BY FS_EmptySet
  <2>2. {} \in {s \in SUBSET (1..MaxAtoms) : Cardinality(s) <= 1}
    BY <2>1
  <2>3. 0 \in 0..MaxAtoms /\ 0 \in 0..MaxBatches /\ 0 \in 0..MaxThreads
    BY EngineAssumption
  <2> QED
    BY <2>2, <2>3 DEF NoCall, Calls
<1> QED
  BY <1>1 DEF EngineInit, MapInit, EngineInv, Working

LEMMA CallFacts ==
  ASSUME NEW c \in Calls
  PROVE  /\ c.atoms \in Nat /\ c.batches \in Nat /\ c.threads \in Nat
         /\ c.picklable \in BOOLEAN
BY EngineAssumption DEF Calls

\* A call is refused as the sequential one would be, or its batches are submitted.
LEMMA SubmitMaps ==
  ASSUME EngineInv, NEW c \in Calls \ {NoCall}, SubmitJobs(c)
  PROVE  EngineInv' /\ Call
<1>1. c.atoms \in Nat /\ c.batches \in Nat /\ c.threads \in Nat /\ c.picklable \in BOOLEAN
  BY CallFacts
<1>2. /\ call = NoCall /\ call' = c /\ c # NoCall /\ lost' = lost /\ results' = <<>>
      /\ outcome' = IF Refused(c) THEN Raised ELSE IF c.atoms = 0 THEN Nothing ELSE <<>>
      /\ jobs' = IF outcome' = <<>> THEN Parts(c.atoms, c.batches) ELSE <<>>
  BY DEF SubmitJobs, EngineInv
<1>3. Raised # <<>> /\ Nothing # <<>>
  BY DEF Raised, Nothing
<1>4. outcome' \in {<<>>, Sequential(c)}
  <2>1. CASE Refused(c)
    <3>1. Sequential(c) = Raised
      BY <1>1, <2>1 DEF Sequential, Refused
    <3> QED
      BY <1>2, <2>1, <3>1
  <2>2. CASE ~Refused(c) /\ c.atoms = 0
    <3>1. Sequential(c) = Nothing
      BY <1>1, <2>2 DEF Sequential, Refused
    <3> QED
      BY <1>2, <2>2, <3>1
  <2>3. CASE ~Refused(c) /\ c.atoms # 0
    BY <1>2, <2>3
  <2> QED
    BY <2>1, <2>2, <2>3
<1>5. Call
  BY <1>2, <1>4 DEF Call
<1>6. ASSUME Working'
      PROVE  /\ c.atoms # 0 /\ ~Refused(c) /\ jobs' = Parts(c.atoms, c.batches)
  <2>1. outcome' = <<>>
    BY <1>6 DEF Working
  <2> QED
    BY <1>2, <1>3, <2>1
<1>7. ASSUME Working' PROVE CollectedInOrder'
  <2>1. c.atoms \in Nat \ {0} /\ c.batches \in Nat \ {0}
    BY <1>1, <1>6, <1>7 DEF Refused
  <2>2. Parts(c.atoms, c.batches) \in Seq(Seq(1..c.atoms))
    BY <2>1, BatchesInOrder
  <2>3. Len(Parts(c.atoms, c.batches)) \in Nat /\ Len(<<>>) = 0
    BY <2>2
  <2>4. <<>> \in Seq(Seq(1..c.atoms)) /\ 1..0 = {}
    OBVIOUS
  <2> QED
    BY <1>2, <1>6, <1>7, <2>3, <2>4 DEF CollectedInOrder
<1> QED
  BY <1>2, <1>5, <1>6, <1>7 DEF EngineInv

\* What a step of the pool changes is not what has been collected.
LEMMA PoolMaps ==
  ASSUME EngineInv, NEW j \in DOMAIN jobs, TakeJob(j) \/ EndJob(j) \/ WorkerDies(j)
  PROVE  EngineInv' /\ (Lose \/ UNCHANGED mapVars)
<1>1. UNCHANGED <<call, outcome, jobs, results>> /\ Working
  BY DEF TakeJob, EndJob, WorkerDies
<1>2. EngineInv'
  BY <1>1 DEF EngineInv, Working, CollectedInOrder, Fails
<1>3. lost' = lost \/ lost' = TRUE
  BY Zenon DEF TakeJob, EndJob, WorkerDies
<1> QED
  BY <1>1, <1>2, <1>3 DEF Lose, Working, mapVars

\* The atoms that a failing batch fails for are atoms of the call.
LEMMA FailureIsSequential ==
  ASSUME EngineInv, Working, NEW j \in DOMAIN jobs, Fails(j)
  PROVE  Sequential(call) = Raised
<1>1. call.atoms \in Nat \ {0} /\ call.batches \in Nat \ {0} /\ jobs = Parts(call.atoms, call.batches)
      /\ ~(call.threads < 1) /\ ~(call.batches < 1)
  BY CallFacts DEF EngineInv, Refused
<1> DEFINE V == 1..call.atoms
<1>2. jobs \in Seq(Seq(V))
  BY <1>1, BatchesInOrder
<1>3. PICK k \in DOMAIN jobs[j] : jobs[j][k] \in call.failing
  BY DEF Fails
<1> HIDE DEF V
<1>4. jobs[j][k] \in V
  <2>1. jobs[j] \in Seq(V)
    BY <1>2
  <2> QED
    BY <1>3, <2>1
<1>5. call.failing \cap V # {}
  BY <1>3, <1>4
<1> QED
  BY <1>1, <1>5 DEF Sequential, V

LEMMA CollectMaps ==
  ASSUME EngineInv, Working, NEW j \in DOMAIN jobs, j = Len(results) + 1, Collect(j),
         UNCHANGED <<call, lost, jobs>>
  PROVE  EngineInv' /\ (Answer \/ UNCHANGED mapVars)
<1>1. CASE Fails(j)
  <2>1. outcome' = Raised /\ results' = results
    BY <1>1 DEF Collect
  <2>2. Sequential(call) = Raised
    BY <1>1, FailureIsSequential
  <2>3. Answer
    BY <2>1, <2>2 DEF Answer, Working
  <2>4. ~Working'
    BY <2>1 DEF Working, Raised
  <2>5. EngineInv'
    BY <2>1, <2>4 DEF EngineInv
  <2> QED
    BY <2>3, <2>5
<1>2. CASE ~Fails(j)
  <2>1. outcome' = outcome /\ results' = Append(results, jobs[j])
    BY <1>2 DEF Collect
  <2>2. CollectedInOrder /\ jobs = Parts(call.atoms, call.batches) /\ call.atoms # 0 /\ ~Refused(call)
        /\ call \in Calls /\ call # NoCall
    BY DEF EngineInv, Working
  <2> DEFINE V == Seq(1..call.atoms)
             n == Len(results)
  <2>3. call.atoms \in Nat \ {0} /\ call.batches \in Nat \ {0}
    BY <2>2, CallFacts DEF Refused
  <2>4. jobs \in Seq(V) /\ results \in Seq(V) /\ n <= Len(jobs)
    BY <2>2, <2>3, BatchesInOrder DEF CollectedInOrder
  <2> HIDE DEF V
  <2>5. /\ results' \in Seq(V) /\ Len(results') = n + 1 /\ n + 1 <= Len(jobs) /\ n \in Nat
        /\ results'[n + 1] = jobs[j] /\ \A i \in 1..n : results'[i] = results[i]
    BY <2>1, <2>4
  <2>6. \A i \in 1..n + 1 : i \in 1..n \/ i = n + 1
    BY <2>5
  <2>7. \A i \in 1..n : results[i] = jobs[i] /\ ~Fails(i)
    BY <2>2 DEF CollectedInOrder
  <2> HIDE DEF n
  <2>8. \A i \in 1..n + 1 : results'[i] = jobs[i] /\ ~Fails(i)
    <3>1. j = n + 1
      BY DEF n
    <3> QED
      BY <1>2, <2>5, <2>6, <2>7, <3>1
  <2>9. \A i : Fails(i)' <=> Fails(i)
    BY DEF Fails
  <2>10. CollectedInOrder'
    BY <2>5, <2>8, <2>9 DEF CollectedInOrder, V
  <2>11. EngineInv'
    BY <2>2, <2>10 DEF EngineInv
  <2> QED
    BY <2>1, <2>11 DEF mapVars
<1> QED
  BY <1>1, <1>2

\* When everything has been collected nothing failed, and the lists end to end are
\* what the sequential call returns.
LEMMA ReduceMaps ==
  ASSUME EngineInv, Reduce
  PROVE  EngineInv' /\ Answer
<1>1. /\ Working /\ Len(results) = Len(jobs) /\ outcome' = <<"returned", ReduceResults>>
      /\ UNCHANGED <<call, lost, jobs, job, results>>
  BY DEF Reduce
<1>2. CollectedInOrder /\ jobs = Parts(call.atoms, call.batches) /\ call.atoms # 0 /\ ~Refused(call)
      /\ call \in Calls
  BY <1>1 DEF EngineInv
<1> DEFINE n == call.atoms
           b == call.batches
<1>3. n \in Nat \ {0} /\ b \in Nat \ {0} /\ call.threads \in Nat /\ call.picklable \in BOOLEAN
  BY <1>2, CallFacts DEF Refused
<1>4. jobs \in Seq(Seq(1..n)) /\ SomeBatchHas(jobs, n) /\ FlattenSeq(jobs) = BatchOrder(n, b)
  <2> HIDE DEF n, b
  <2>1. jobs = Parts(n, b)
    BY <1>2 DEF n, b
  <2> QED
    BY <1>3, <2>1, BatchesInOrder
<1>5. results = jobs
  <2> DEFINE V == Seq(1..n)
  <2>1. results \in Seq(V) /\ jobs \in Seq(V) /\ \A i \in 1..Len(results) : results[i] = jobs[i]
    BY <1>2, <1>4 DEF CollectedInOrder
  <2> HIDE DEF V
  <2> QED
    BY <1>1, <2>1
<1>6. call.failing \cap 1..n = {}
  <2> SUFFICES ASSUME NEW a \in call.failing, a \in 1..n PROVE FALSE
    OBVIOUS
  <2>1. PICK i \in 1..Len(jobs) : \E k \in 1..Len(jobs[i]) : jobs[i][k] = a
    BY <1>4 DEF SomeBatchHas
  <2>2. ~Fails(i)
    BY <1>1, <1>2, <2>1 DEF CollectedInOrder
  <2>3. DOMAIN jobs[i] = 1..Len(jobs[i])
    <3> DEFINE V == 1..n
    <3>1. jobs[i] \in Seq(V)
      BY <1>4
    <3> HIDE DEF V
    <3> QED
      BY <3>1
  <2> QED
    BY <2>1, <2>2, <2>3 DEF Fails
<1>7. Sequential(call) = <<"returned", BatchOrder(n, b)>>
  <2>1. ~(call.threads < 1) /\ ~(b < 1) /\ n # 0 /\ ~(call.threads > 1 /\ ~call.picklable)
    BY <1>2, <1>3 DEF Refused
  <2> QED
    BY <1>6, <2>1 DEF Sequential
<1>8. outcome' = Sequential(call)
  BY <1>1, <1>4, <1>5, <1>7 DEF ReduceResults
<1>9. Answer
  BY <1>1, <1>8 DEF Answer, Working
<1>10. ~Working'
  <2>1. outcome' # <<>>
    BY <1>1
  <2> QED
    BY <2>1 DEF Working
<1>11. EngineInv'
  BY <1>1, <1>2, <1>10 DEF EngineInv
<1> QED
  BY <1>9, <1>11

LEMMA EngineStepMaps ==
  ASSUME EngineInv, EngineNext
  PROVE  EngineInv' /\ (MapNext \/ UNCHANGED mapVars)
<1>1. CASE \E c \in Calls \ {NoCall} : SubmitJobs(c)
  BY <1>1, SubmitMaps DEF MapNext
<1>2. CASE Reduce
  BY <1>2, ReduceMaps DEF MapNext
<1>3. ASSUME NEW j \in DOMAIN jobs, RunInline(j) \/ GetFuture(j)
      PROVE  EngineInv' /\ (MapNext \/ UNCHANGED mapVars)
  <2>1. Working /\ j = Len(results) + 1 /\ Collect(j) /\ UNCHANGED <<call, lost, jobs>>
    BY <1>3 DEF RunInline, GetFuture, Turn
  <2> QED
    BY <2>1, CollectMaps DEF MapNext
<1>4. ASSUME NEW j \in DOMAIN jobs, TakeJob(j) \/ EndJob(j) \/ WorkerDies(j)
      PROVE  EngineInv' /\ (MapNext \/ UNCHANGED mapVars)
  BY <1>4, PoolMaps DEF MapNext
<1> QED
  BY <1>1, <1>2, <1>3, <1>4 DEF EngineNext, EngineStep

\* However the workers take turns, fail or die, every step of the engine is one of
\* the sequential map, or none: a call that returns has the results of all atoms in
\* the sequential order, and one that raises would have raised (mp_engine.py:192).
THEOREM EngineImplementsMap == EngineSpec => MapSafety
<1>1. EngineInit => MapInit
  BY DEF EngineInit
<1>2. EngineInv /\ [EngineNext]_engineVars => EngineInv' /\ [MapNext]_mapVars
  <2> SUFFICES ASSUME EngineInv, [EngineNext]_engineVars
               PROVE  EngineInv' /\ [MapNext]_mapVars
    OBVIOUS
  <2>1. CASE EngineNext
    BY <2>1, EngineStepMaps
  <2>2. CASE UNCHANGED engineVars
    <3>1. UNCHANGED <<call, outcome, lost, jobs, job, results>>
      BY <2>2 DEF engineVars
    <3>2. EngineInv'
      BY <3>1 DEF EngineInv, Working, CollectedInOrder, Fails
    <3> QED
      BY <3>1, <3>2 DEF mapVars
  <2> QED
    BY <2>1, <2>2
<1> QED
  BY <1>1, <1>2, EngineInitInv, PTL DEF EngineSpec, MapSafety

-----------------------------------------------------------------------------
(* The engine's call ends: why (MpEngine).                                 *)

Statuses == {"queued", "running", "done", "lost", "collected"}

\* What has been collected is the first jobs; a job is lost only with a worker, and
\* a call with one thread has no pool.
JobsInv ==
  /\ EngineInv
  /\ lost \in BOOLEAN
  /\ jobs \in Seq(Seq(Nat)) /\ results \in Seq(Seq(Nat))
  /\ job \in [DOMAIN jobs -> Statuses]
  /\ Len(results) <= Len(jobs)
  /\ \A j \in DOMAIN jobs : job[j] = "collected" <=> j <= Len(results)
  /\ ~lost => \A j \in DOMAIN jobs : job[j] # "lost"
  /\ Working /\ call.threads = 1 => \A j \in DOMAIN jobs : job[j] \in {"queued", "collected"}

LEMMA JobsInitInv == EngineInit => JobsInv
<1> SUFFICES ASSUME EngineInit PROVE JobsInv
  OBVIOUS
<1>1. EngineInv
  BY EngineInitInv
<1>2. jobs = <<>> /\ job = <<>> /\ results = <<>> /\ lost = FALSE
  BY DEF EngineInit, MapInit
<1>3. <<>> \in Seq(Seq(Nat)) /\ DOMAIN <<>> = {} /\ Len(<<>>) = 0
  OBVIOUS
<1>4. <<>> \in [{} -> Statuses]
  OBVIOUS
<1>5. job \in [DOMAIN jobs -> Statuses] /\ DOMAIN jobs = {}
  BY <1>2, <1>3, <1>4
<1>6. jobs \in Seq(Seq(Nat)) /\ results \in Seq(Seq(Nat)) /\ Len(results) = 0 /\ Len(jobs) = 0
  BY <1>2, <1>3
<1>7. lost \in BOOLEAN
  BY <1>2, Zenon
<1>8. \A j \in DOMAIN jobs : FALSE
  BY <1>5
<1>9. Len(results) <= Len(jobs)
  BY <1>6
<1> QED
  BY <1>1, <1>5, <1>6, <1>7, <1>8, <1>9, Zenon DEF JobsInv

LEMMA SubmitJobsInv ==
  ASSUME JobsInv, NEW c \in Calls \ {NoCall}, SubmitJobs(c)
  PROVE  JobsInv'
<1>1. EngineInv'
  BY SubmitMaps DEF JobsInv
<1>2. /\ call = NoCall /\ call' = c /\ lost' = lost /\ results' = <<>>
      /\ jobs' = IF outcome' = <<>> THEN Parts(c.atoms, c.batches) ELSE <<>>
      /\ job' = [j \in DOMAIN jobs' |-> "queued"]
  BY DEF SubmitJobs, JobsInv, EngineInv
<1>3. jobs' \in Seq(Seq(Nat))
  <2>1. CASE outcome' = <<>>
    <3>1. c # NoCall /\ Working'
      BY <1>2, <2>1 DEF Working
    <3>2. c.atoms \in Nat \ {0} /\ c.batches \in Nat \ {0}
      BY <1>1, <1>2, <3>1, CallFacts DEF EngineInv, Refused
    <3>3. Parts(c.atoms, c.batches) \in Seq(Seq(1..c.atoms))
      BY <3>2, BatchesInOrder
    <3> DEFINE V == Seq(1..c.atoms)
               W == Seq(Nat)
    <3>4. V \subseteq W
      BY <3>2
    <3> HIDE DEF V, W
    <3>5. Seq(V) \subseteq Seq(W)
      BY <3>4
    <3> QED
      BY <1>2, <2>1, <3>3, <3>5 DEF V, W
  <2>2. CASE outcome' # <<>>
    BY <1>2, <2>2
  <2> QED
    BY <2>1, <2>2
<1>4. job' \in [DOMAIN jobs' -> Statuses] /\ \A j \in DOMAIN jobs' : job'[j] = "queued"
  BY <1>2 DEF Statuses
<1>5. Len(results') = 0 /\ results' \in Seq(Seq(Nat)) /\ Len(jobs') \in Nat
      /\ DOMAIN jobs' = 1..Len(jobs')
  BY <1>2, <1>3
<1> QED
  BY <1>1, <1>2, <1>3, <1>4, <1>5 DEF JobsInv

\* A step that changes what one job does, and collects nothing.
LEMMA PoolInv ==
  ASSUME JobsInv, NEW j \in DOMAIN jobs, TakeJob(j) \/ EndJob(j) \/ WorkerDies(j)
  PROVE  JobsInv'
<1>1. EngineInv'
  BY PoolMaps DEF JobsInv
<1>2. PICK s \in {"running", "done", "lost"} :
        /\ UNCHANGED <<call, outcome, jobs, results>> /\ Working /\ call.threads # 1
        /\ job[j] \in {"queued", "running"} /\ job' = [job EXCEPT ![j] = s]
        /\ lost' \in BOOLEAN /\ (~lost' => ~lost /\ s # "lost")
  <2>1. CASE TakeJob(j)
    <3>1. call.threads # 1
      <4>1. call.threads \in Nat /\ call.threads > 1
        BY <2>1, CallFacts DEF TakeJob, JobsInv, EngineInv
      <4> QED
        BY <4>1
    <3> QED
      BY <2>1, <3>1 DEF TakeJob, JobsInv
  <2>2. CASE EndJob(j)
    BY <2>2 DEF EndJob, JobsInv
  <2>3. CASE WorkerDies(j)
    BY <2>3 DEF WorkerDies, JobsInv
  <2> QED
    BY <2>1, <2>2, <2>3
<1>3. job' \in [DOMAIN jobs -> Statuses] /\ job'[j] = s /\ s \in Statuses
      /\ \A i \in DOMAIN jobs : i # j => job'[i] = job[i]
  BY <1>2 DEF JobsInv, Statuses
<1>4. \A i \in DOMAIN jobs : job'[i] = "collected" <=> i <= Len(results)
  BY <1>2, <1>3 DEF JobsInv
<1>5. ~lost' => \A i \in DOMAIN jobs : job'[i] # "lost"
  BY <1>2, <1>3 DEF JobsInv
<1> QED
  BY <1>1, <1>2, <1>3, <1>4, <1>5 DEF JobsInv, Working

LEMMA CollectInv ==
  ASSUME JobsInv, Working, NEW j \in DOMAIN jobs, j = Len(results) + 1, Collect(j),
         job[j] # "collected", UNCHANGED <<call, lost, jobs>>
  PROVE  JobsInv'
<1>1. EngineInv'
  BY CollectMaps DEF JobsInv
<1>2. CASE Fails(j)
  <2>1. outcome' = Raised /\ UNCHANGED <<job, results>>
    BY <1>2 DEF Collect
  <2>2. ~Working'
    BY <2>1 DEF Working, Raised
  <2> QED
    BY <1>1, <2>1, <2>2 DEF JobsInv
<1>3. CASE ~Fails(j)
  <2>1. /\ job' = [job EXCEPT ![j] = "collected"] /\ results' = Append(results, jobs[j])
        /\ outcome' = outcome
    BY <1>3 DEF Collect
  <2> DEFINE W == Seq(Nat)
  <2>2. jobs \in Seq(W) /\ results \in Seq(W)
    BY DEF JobsInv
  <2> HIDE DEF W
  <2>3. /\ results' \in Seq(W) /\ Len(results') = Len(results) + 1 /\ Len(results) \in Nat
        /\ DOMAIN jobs = 1..Len(jobs) /\ Len(jobs) \in Nat
    BY <2>1, <2>2
  <2>4. job' \in [DOMAIN jobs -> Statuses] /\ job'[j] = "collected"
        /\ \A i \in DOMAIN jobs : i # j => job'[i] = job[i]
    BY <2>1 DEF JobsInv, Statuses
  <2>5. \A i \in DOMAIN jobs : job'[i] = "collected" <=> i <= Len(results')
    <3> SUFFICES ASSUME NEW i \in DOMAIN jobs
                 PROVE  job'[i] = "collected" <=> i <= Len(results')
      OBVIOUS
    <3>1. CASE i = j
      BY <2>3, <2>4, <3>1
    <3>2. CASE i # j
      <4>1. job[i] = "collected" <=> i <= Len(results)
        BY DEF JobsInv
      <4>2. i <= Len(results) <=> i <= Len(results) + 1
        BY <2>3, <3>2
      <4> QED
        BY <2>3, <2>4, <3>2, <4>1, <4>2
    <3> QED
      BY <3>1, <3>2
  <2>6. Len(results') <= Len(jobs)
    BY <2>3
  <2>7. ~lost' => \A i \in DOMAIN jobs' : job'[i] # "lost"
    BY <2>4 DEF JobsInv
  <2>8. Working' /\ call'.threads = 1 => \A i \in DOMAIN jobs' : job'[i] \in {"queued", "collected"}
    BY <2>4 DEF JobsInv
  <2> QED
    BY <1>1, <2>2, <2>3, <2>4, <2>5, <2>6, <2>7, <2>8 DEF JobsInv, W
<1> QED
  BY <1>2, <1>3

LEMMA JobsStepInv == JobsInv /\ [EngineNext]_engineVars => JobsInv'
<1> SUFFICES ASSUME JobsInv, [EngineNext]_engineVars PROVE JobsInv'
  OBVIOUS
<1>1. CASE \E c \in Calls \ {NoCall} : SubmitJobs(c)
  BY <1>1, SubmitJobsInv
<1>2. CASE Reduce
  <2>1. UNCHANGED <<call, lost, jobs, job, results>> /\ Working
    BY <1>2 DEF Reduce
  <2>2. EngineInv'
    BY <1>2, ReduceMaps DEF JobsInv
  <2> QED
    BY <2>1, <2>2 DEF JobsInv, Working
<1>3. ASSUME NEW j \in DOMAIN jobs, RunInline(j) \/ GetFuture(j)
      PROVE  JobsInv'
  <2>1. Working /\ j = Len(results) + 1 /\ Collect(j) /\ UNCHANGED <<call, lost, jobs>>
        /\ job[j] # "collected"
    BY <1>3 DEF RunInline, GetFuture, Turn
  <2> QED
    BY <2>1, CollectInv
<1>4. ASSUME NEW j \in DOMAIN jobs, TakeJob(j) \/ EndJob(j) \/ WorkerDies(j)
      PROVE  JobsInv'
  BY <1>4, PoolInv
<1>5. CASE UNCHANGED engineVars
  <2>1. UNCHANGED <<call, outcome, lost, jobs, job, results>>
    BY <1>5 DEF engineVars
  <2> QED
    BY <2>1 DEF JobsInv, EngineInv, Working, CollectedInOrder, Fails
<1> QED
  BY <1>1, <1>2, <1>3, <1>4, <1>5 DEF EngineNext, EngineStep

LEMMA JobsInvariant == EngineSpec => []JobsInv
BY JobsInitInv, JobsStepInv, PTL DEF EngineSpec

LEMMA JobsAreTyped == JobsInv => EngineTypeOK
<1> SUFFICES ASSUME JobsInv PROVE EngineTypeOK
  OBVIOUS
<1>1. DOMAIN job = DOMAIN jobs /\ \A j \in DOMAIN job : job[j] \in Statuses
  BY DEF JobsInv
<1> QED
  BY <1>1 DEF JobsInv, EngineInv, EngineTypeOK, Statuses

\* The engine's variables keep their types, and no more is collected than was
\* submitted.
THEOREM EngineTypes == EngineSpec => []EngineTypeOK
BY JobsAreTyped, JobsInvariant, PTL

\* How many steps a call can take at most before it returns or raises: each of its
\* jobs is taken, ended and collected, and the results are reduced.
EngineLeft ==
  IF Working
  THEN 3 * Cardinality(InState("queued")) + 2 * Cardinality(InState("running"))
       + Cardinality(InState("done")) + 1
  ELSE 0

LEMMA JobsFinite ==
  ASSUME JobsInv, NEW s
  PROVE  IsFiniteSet(InState(s)) /\ Cardinality(InState(s)) \in Nat /\ InState(s) \subseteq DOMAIN jobs
<1>1. DOMAIN jobs = 1..Len(jobs) /\ Len(jobs) \in Nat
  BY DEF JobsInv
<1>2. IsFiniteSet(1..Len(jobs))
  BY <1>1, FS_Interval
<1>3. InState(s) \subseteq DOMAIN jobs
  BY DEF InState
<1> QED
  BY <1>1, <1>2, <1>3, FS_Subset, FS_CardinalityType

LEMMA LeftIsNat == JobsInv => EngineLeft \in Nat
<1> SUFFICES ASSUME JobsInv PROVE EngineLeft \in Nat
  OBVIOUS
<1> DEFINE a == Cardinality(InState("queued"))
           b == Cardinality(InState("running"))
           c == Cardinality(InState("done"))
<1>1. a \in Nat /\ b \in Nat /\ c \in Nat
  BY JobsFinite
<1> HIDE DEF a, b, c
<1>2. 3 * a + 2 * b + c + 1 \in Nat
  BY <1>1
<1> QED
  BY <1>2 DEF EngineLeft, a, b, c

\* A job that changes leaves one set and joins another.
LEMMA JobMoves ==
  ASSUME JobsInv, JobsInv', NEW j \in DOMAIN jobs, NEW s \in Statuses,
         jobs' = jobs, job' = [job EXCEPT ![j] = s], job[j] # s
  PROVE  \A q \in Statuses :
           Cardinality(InState(q))' = Cardinality(InState(q)) + (IF q = s THEN 1 ELSE 0)
                                                             - (IF q = job[j] THEN 1 ELSE 0)
<1> SUFFICES ASSUME NEW q \in Statuses
             PROVE  Cardinality(InState(q))' = Cardinality(InState(q)) + (IF q = s THEN 1 ELSE 0)
                                                                       - (IF q = job[j] THEN 1 ELSE 0)
  OBVIOUS
<1>1. job'[j] = s /\ \A i \in DOMAIN jobs : i # j => job'[i] = job[i]
  BY DEF JobsInv
<1>2. IsFiniteSet(InState(q)) /\ Cardinality(InState(q)) \in Nat
  BY JobsFinite
<1> DEFINE now == InState(q)
           then == {i \in DOMAIN jobs : job'[i] = q}
<1>3. InState(q)' = then
  BY DEF InState
<1>4. CASE q = s
  <2>1. then = now \union {j} /\ j \notin now
    BY <1>1, <1>4 DEF InState
  <2>2. Cardinality(then) = Cardinality(now) + 1
    BY <1>2, <2>1, FS_AddElement
  <2> QED
    BY <1>2, <1>3, <1>4, <2>2
<1>5. CASE q = job[j]
  <2>1. then = now \ {j} /\ j \in now
    BY <1>1, <1>5 DEF InState
  <2>2. Cardinality(then) = Cardinality(now) - 1
    BY <1>2, <2>1, FS_RemoveElement
  <2> QED
    BY <1>2, <1>3, <1>5, <2>2
<1>6. CASE q # s /\ q # job[j]
  <2>1. then = now
    BY <1>1, <1>6 DEF InState
  <2>2. Cardinality(InState(q))' = Cardinality(InState(q))
    BY <1>3, <2>1
  <2> HIDE DEF now, then
  <2> QED
    BY <1>2, <1>6, <2>2
<1> QED
  BY <1>4, <1>5, <1>6

\* Moving a job onwards leaves less to do.
LEMMA MoveShortens ==
  ASSUME JobsInv, JobsInv', Working, NEW j \in DOMAIN jobs, NEW s \in Statuses,
         jobs' = jobs, job' = [job EXCEPT ![j] = s],
         \/ job[j] = "queued" /\ s \in {"running", "collected"}
         \/ job[j] = "running" /\ s \in {"done", "lost"}
         \/ job[j] = "done" /\ s = "collected"
  PROVE  EngineLeft' < EngineLeft
<1> DEFINE a == Cardinality(InState("queued"))
           b == Cardinality(InState("running"))
           c == Cardinality(InState("done"))
           r == job[j]
<1>1. a \in Nat /\ b \in Nat /\ c \in Nat
  BY JobsFinite
<1>2. /\ a' = a + (IF "queued" = s THEN 1 ELSE 0) - (IF "queued" = r THEN 1 ELSE 0)
      /\ b' = b + (IF "running" = s THEN 1 ELSE 0) - (IF "running" = r THEN 1 ELSE 0)
      /\ c' = c + (IF "done" = s THEN 1 ELSE 0) - (IF "done" = r THEN 1 ELSE 0)
  BY JobMoves DEF Statuses
<1> HIDE DEF a, b, c, r
<1>3. 3 * a' + 2 * b' + c' < 3 * a + 2 * b + c
  BY <1>1, <1>2 DEF r
<1>4. a' \in Int /\ b' \in Int /\ c' \in Int
  BY <1>1, <1>2
<1>5. EngineLeft = 3 * a + 2 * b + c + 1
  BY DEF EngineLeft, a, b, c
<1>6. EngineLeft' = (IF Working' THEN 3 * a' + 2 * b' + c' + 1 ELSE 0)
  BY DEF EngineLeft, a, b, c
<1>7. CASE Working'
  <2>1. EngineLeft' = 3 * a' + 2 * b' + c' + 1
    BY <1>6, <1>7
  <2>2. 3 * a' + 2 * b' + c' + 1 < 3 * a + 2 * b + c + 1
    <3>1. 3 * a' + 2 * b' + c' \in Int /\ 3 * a + 2 * b + c \in Int
      BY <1>1, <1>4
    <3>2. \A x, y \in Int : x < y => x + 1 < y + 1
      OBVIOUS
    <3> QED
      BY <1>3, <3>1, <3>2
  <2> QED
    BY <1>5, <2>1, <2>2
<1>8. CASE ~Working'
  <2>1. EngineLeft' = 0
    BY <1>6, <1>8
  <2> QED
    BY <1>1, <1>5, <2>1
<1> QED
  BY <1>7, <1>8

LEMMA EndShortens ==
  ASSUME JobsInv, Working, ~Working'
  PROVE  EngineLeft' < EngineLeft
<1> DEFINE a == Cardinality(InState("queued"))
           b == Cardinality(InState("running"))
           c == Cardinality(InState("done"))
<1>1. a \in Nat /\ b \in Nat /\ c \in Nat
  BY JobsFinite
<1> HIDE DEF a, b, c
<1>2. 0 < 3 * a + 2 * b + c + 1
  BY <1>1
<1> QED
  BY <1>2 DEF EngineLeft, a, b, c

LEMMA CollectShortens ==
  ASSUME JobsInv, JobsInv', Working, NEW j \in DOMAIN jobs, Collect(j), jobs' = jobs,
         job[j] \in {"queued", "done"}
  PROVE  EngineLeft' < EngineLeft
<1>1. CASE Fails(j)
  <2>1. ~Working'
    BY <1>1 DEF Collect, Working, Raised
  <2> QED
    BY <2>1, EndShortens
<1>2. CASE ~Fails(j)
  <2>1. job' = [job EXCEPT ![j] = "collected"]
    BY <1>2 DEF Collect
  <2> QED
    BY <2>1, MoveShortens DEF Statuses
<1> QED
  BY <1>1, <1>2

\* A call under way takes finitely many steps, whatever its workers do: each one of
\* the engine or the pool, a worker's death included, leaves less to do
\* (mp_engine.py:192-213). That it takes them is up to fairness.
EngineRunsOut ==
  [][EngineStep \/ (\E j \in DOMAIN jobs : WorkerDies(j))
       => EngineLeft' \in Nat /\ EngineLeft' < EngineLeft]_engineVars

\* Every step of a call counts down, for any jobs, threads and deaths.
THEOREM CallsRunOut == EngineSpec => EngineRunsOut
<1>1. ASSUME JobsInv, JobsInv', EngineStep \/ (\E j \in DOMAIN jobs : WorkerDies(j))
      PROVE  EngineLeft' \in Nat /\ EngineLeft' < EngineLeft
  <2>1. EngineLeft' \in Nat
    <3>1. JobsInv' => (EngineLeft \in Nat)'
      BY LeftIsNat, PTL
    <3> QED
      BY <1>1, <3>1
  <2>2. CASE Reduce
    <3>1. Working /\ ~Working'
      BY <2>2 DEF Reduce, Working
    <3> QED
      BY <1>1, <2>1, <3>1, EndShortens
  <2>3. ASSUME NEW j \in DOMAIN jobs, RunInline(j) \/ GetFuture(j)
        PROVE  EngineLeft' < EngineLeft
    <3>1. Working /\ Collect(j) /\ jobs' = jobs /\ job[j] \in {"queued", "done"}
      BY <2>3 DEF RunInline, GetFuture
    <3> QED
      BY <1>1, <3>1, CollectShortens
  <2>4. ASSUME NEW j \in DOMAIN jobs, TakeJob(j) \/ EndJob(j) \/ WorkerDies(j)
        PROVE  EngineLeft' < EngineLeft
    <3>1. PICK s \in Statuses :
            /\ Working /\ jobs' = jobs /\ job' = [job EXCEPT ![j] = s]
            /\ \/ job[j] = "queued" /\ s \in {"running", "collected"}
               \/ job[j] = "running" /\ s \in {"done", "lost"}
      BY <2>4 DEF TakeJob, EndJob, WorkerDies, Statuses
    <3> QED
      BY <1>1, <3>1, MoveShortens
  <2> QED
    BY <1>1, <2>1, <2>2, <2>3, <2>4 DEF EngineStep
<1>2. JobsInv /\ JobsInv' =>
        [EngineStep \/ (\E j \in DOMAIN jobs : WorkerDies(j))
           => EngineLeft' \in Nat /\ EngineLeft' < EngineLeft]_engineVars
  BY <1>1
<1> QED
  BY <1>2, JobsInvariant, PTL DEF EngineRunsOut

\* What one of the engine's steps waits for: everything is collected, a worker is
\* busy, the next job is done, or a queued one can be taken.
EngineReady ==
  \/ Len(results) = Len(jobs)
  \/ InState("running") # {}
  \/ \E j \in InState("done") : call.threads > 1 /\ Turn(j)
  \/ \E j \in InState("queued") :
       IF call.threads = 1 THEN j = Len(results) + 1
       ELSE (\A i \in InState("queued") : j <= i) /\ Cardinality(InState("running")) < call.threads

\* While a call is under way and no worker has been lost, never do all wait for one
\* another: asking the futures in the order of submission waits for a job that is
\* done, running, or queued behind jobs that run (mp_engine.py:197-213).
EngineNeverStuck == Working /\ ~lost => EngineReady

\* A call always has a next step, for any jobs, threads and failures.
THEOREM CallsNeverStick == EngineSpec => []EngineNeverStuck
<1>1. JobsInv => EngineNeverStuck
  <2> SUFFICES ASSUME JobsInv, Working, ~lost, Len(results) # Len(jobs), InState("running") = {}
               PROVE  \/ \E j \in InState("done") : call.threads > 1 /\ Turn(j)
                      \/ \E j \in InState("queued") :
                           IF call.threads = 1 THEN j = Len(results) + 1
                           ELSE /\ \A i \in InState("queued") : j <= i
                                /\ Cardinality(InState("running")) < call.threads
    BY DEF EngineNeverStuck, EngineReady
  <2> DEFINE next == Len(results) + 1
  <2>1. /\ Len(results) \in Nat /\ Len(jobs) \in Nat /\ DOMAIN jobs = 1..Len(jobs)
        /\ next \in DOMAIN jobs /\ ~(next <= Len(results))
    BY DEF JobsInv
  <2>2. job[next] \in {"queued", "done"}
    <3>1. job[next] \in Statuses /\ job[next] # "collected" /\ job[next] # "lost"
      BY <2>1 DEF JobsInv
    <3>2. job[next] # "running"
      BY <2>1 DEF InState
    <3> QED
      BY <3>1, <3>2 DEF Statuses
  <2>3. call.threads \in Nat /\ call.threads >= 1
    BY CallFacts DEF JobsInv, EngineInv, Refused
  <2>4. CASE call.threads = 1
    <3>1. job[next] = "queued"
      BY <2>1, <2>2, <2>4 DEF JobsInv
    <3>2. next \in InState("queued")
      BY <2>1, <3>1 DEF InState
    <3> QED
      BY <2>4, <3>2
  <2>5. CASE call.threads # 1 /\ job[next] = "done"
    <3>1. next \in InState("done")
      BY <2>1, <2>5 DEF InState
    <3> QED
      BY <2>3, <2>5, <3>1 DEF Turn
  <2>6. CASE call.threads # 1 /\ job[next] = "queued"
    <3>1. next \in InState("queued")
      BY <2>1, <2>6 DEF InState
    <3>2. InState("queued") \in SUBSET (1..Len(jobs))
      BY <2>1 DEF InState
    <3>3. PICK j \in InState("queued") : \A i \in InState("queued") : j <= i
      BY <2>1, <3>1, <3>2, LeastExists
    <3>4. Cardinality(InState("running")) = 0
      BY FS_EmptySet
    <3> QED
      BY <2>3, <2>6, <3>3, <3>4
  <2> QED
    BY <2>2, <2>4, <2>5, <2>6
<1> QED
  BY <1>1, JobsInvariant, PTL

=============================================================================
