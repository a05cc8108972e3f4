------------------------ MODULE SignalPipelineProofs ------------------------
(***************************************************************************)
(* Proofs about SignalPipeline for every list of symbols, every price,     *)
(* distance, P&L and capital: the two limits that must survive the stale   *)
(* snapshot a run works from, and the risk of what a run clears. What a    *)
(* run under way may still add is made part of the counts, and the         *)
(* snapshot decides how much that is.                                      *)
(***************************************************************************)
EXTENDS SignalPipeline, DataFacts

-----------------------------------------------------------------------------
(* What the operators return.                                              *)

\* Only a state that is neither halted nor full gets a signal approved, and
\* only for a signal whose stop is away from its entry.
LEMMA ApprovalNeedsRoom ==
  ASSUME NEW signal, NEW state, Validate(signal, state) = "approved"
  PROVE  ~Halted(state) /\ ~Full(state) /\ RiskDistance(signal) # 0
BY DEF Validate, Invalid, FlatStop

\* Closing a trade leaves a sequence that is one shorter.
LEMMA OneLess ==
  ASSUME NEW s \in Seq(Int), NEW i \in DOMAIN s
  PROVE  RemoveAt(s, i) \in Seq(Int) /\ Len(RemoveAt(s, i)) = Len(s) - 1
<1>1. i \in 1 .. Len(s) /\ Len(s) \in Nat /\ \A j \in 1 .. Len(s) : s[j] \in Int
  BY LenProperties, ElementOfSeq
<1>2. SubSeq(s, 1, i - 1) \in Seq(Int) /\ Len(SubSeq(s, 1, i - 1)) = i - 1
  <2>1. \A j \in 1 .. i - 1 : s[j] \in Int
    BY <1>1
  <2> QED
    BY <1>1, <2>1, SubSeqProperties
<1>3. /\ SubSeq(s, i + 1, Len(s)) \in Seq(Int)
      /\ Len(SubSeq(s, i + 1, Len(s))) = Len(s) - i
  <2>1. \A j \in i + 1 .. Len(s) : s[j] \in Int
    BY <1>1
  <2> QED
    BY <1>1, <2>1, SubSeqProperties
<1> DEFINE before == SubSeq(s, 1, i - 1)
           after == SubSeq(s, i + 1, Len(s))
<1>4. before \o after \in Seq(Int) /\ Len(before \o after) = Len(before) + Len(after)
  <2> HIDE DEF before, after
  <2>1. before \in Seq(Int) /\ after \in Seq(Int)
    BY <1>2, <1>3 DEF before, after
  <2> QED
    BY <2>1, ConcatProperties
<1>5. RemoveAt(s, i) = before \o after
  BY DEF RemoveAt
<1>6. Len(before) = i - 1 /\ Len(after) = Len(s) - i
  BY <1>2, <1>3
<1> HIDE DEF before, after
<1>7. Len(before \o after) = Len(s) - 1
  BY <1>1, <1>4, <1>6
<1> QED
  BY <1>4, <1>5, <1>7

\* Division of naturals, and the two products that rounding compares.
LEMMA Euclid ==
  ASSUME NEW num \in Nat, NEW den \in Nat \ {0}
  PROVE  /\ num \div den \in Nat
         /\ num % den \in 0 .. den - 1
         /\ num = den * (num \div den) + (num % den)
         /\ den * (num \div den + 1) = den * (num \div den) + den
<1>1. num \div den \in Nat
  BY SMT
<1>2. num % den \in 0 .. den - 1
  BY SMT
<1>3. num = den * (num \div den) + (num % den)
  BY SMT
<1> QED
  BY <1>1, <1>2, <1>3, SMT

\* Quantize returns the nearest integer: it is off by half a unit at most.
LEMMA QuantizeNearest ==
  ASSUME NEW num \in Nat, NEW den \in Nat \ {0}
  PROVE  /\ Quantize(num, den) \in Nat
         /\ 2 * Distance(den * Quantize(num, den), num) <= den
<1> DEFINE down == num \div den
           rest == num % den
<1>1. /\ down \in Nat /\ rest \in 0 .. den - 1
      /\ num = den * down + rest
      /\ den * (down + 1) = den * down + den
      /\ den * down \in Nat
  <2>1. den * (num \div den) \in Nat
    BY Euclid, SMT
  <2> QED
    BY <2>1, Euclid
<1>2. \/ Quantize(num, den) = down /\ 2 * rest <= den
      \/ Quantize(num, den) = down + 1 /\ 2 * rest >= den
  BY <1>1 DEF Quantize
<1> HIDE DEF down, rest
<1>3. CASE Quantize(num, den) = down /\ 2 * rest <= den
  <2>1. Distance(den * down, num) = rest
    BY <1>1 DEF Distance
  <2> QED
    BY <1>1, <1>3, <2>1
<1>4. CASE Quantize(num, den) = down + 1 /\ 2 * rest >= den
  <2>1. den * Quantize(num, den) = den * down + den
    BY <1>1, <1>4
  <2>2. Distance(den * down + den, num) = den - rest
    BY <1>1 DEF Distance
  <2> QED
    BY <1>1, <1>4, <2>1, <2>2
<1> QED
  BY <1>2, <1>3, <1>4

-----------------------------------------------------------------------------
(* The inductive invariant, in parts.                                      *)

\* What a signal from technical.py and an approval are made of.
AnySignals == [direction : {"long", "short"}, entry_price : Nat,
               stop_loss : Int, take_profit : Int]
AnyApprovals == [signal : AnySignals, size : Nat]

\* The types the counts need.
CountsInv ==
  /\ todo \in Seq(STRING) /\ cleared \in Seq(AnyApprovals) /\ trades \in Seq(Int)
  /\ Len(todo) + Len(cleared) <= Len(Symbols)
  /\ pnl \in Int /\ killed \in BOOLEAN /\ sinceHalt \in Nat
  /\ snapshot.total = Capital /\ snapshot.open \in Nat
  /\ snapshot.pnl \in Int /\ snapshot.killed \in BOOLEAN

\* The positions a run under way can still add, besides what it has cleared,
\* and the trades it can still clear once the halt is in force.
MayYetOpen == IF Full(snapshot) THEN 0 ELSE Len(todo)
MayYetTrade == IF snapshot.killed THEN 0 ELSE Len(todo)

PositionsInv ==
  Len(trades) + Len(cleared) + MayYetOpen <= MaxConcurrentPositions - 1 + Len(Symbols)

HaltInv ==
  /\ sinceHalt + Len(cleared) + MayYetTrade <= Len(Symbols)
  /\ sinceHalt > 0 => killed

PipelineInv == CountsInv /\ PositionsInv /\ HaltInv /\ RiskWithinShare

-----------------------------------------------------------------------------
(* The steps that take a symbol or an approval from its list.              *)

\* A list of symbols or approvals that is not empty loses its head.
LEMMA TakeHead ==
  ASSUME NEW S, NEW s \in Seq(S), s # <<>>
  PROVE  /\ Head(s) \in S /\ Tail(s) \in Seq(S)
         /\ Len(s) \in Nat \ {0} /\ Len(Tail(s)) = Len(s) - 1
         /\ \A i \in DOMAIN Tail(s) : i + 1 \in DOMAIN s /\ Tail(s)[i] = s[i + 1]
<1>1. /\ Head(s) \in S /\ Tail(s) \in Seq(S) /\ Len(Tail(s)) = Len(s) - 1
      /\ \A i \in 1 .. Len(Tail(s)) : Tail(s)[i] = s[i + 1]
  BY HeadTailProperties
<1>2. /\ Len(s) \in Nat /\ DOMAIN s = 1 .. Len(s)
      /\ Len(Tail(s)) \in Nat /\ DOMAIN Tail(s) = 1 .. Len(Tail(s))
  BY <1>1, LenProperties
<1>3. \A i \in DOMAIN Tail(s) : i + 1 \in DOMAIN s /\ Tail(s)[i] = s[i + 1]
  BY <1>1, <1>2
<1> QED
  BY <1>1, <1>2, <1>3

\* The levels of a signal are integers, and its risk is the distance it was given.
LEMMA LevelsType ==
  ASSUME NEW direction \in {"long", "short"}, NEW entry \in Nat, NEW distance \in Nat
  PROVE  /\ Levels(direction, entry, distance) \in AnySignals
         /\ RiskDistance(Levels(direction, entry, distance)) = distance
<1>1. CASE direction = "long"
  <2>1. Levels(direction, entry, distance) =
          [direction |-> direction, entry_price |-> entry,
           stop_loss |-> entry - 1 * distance, take_profit |-> entry + 1 * 2 * distance]
    BY <1>1 DEF Levels, RewardOverRisk
  <2> QED
    BY <2>1 DEF AnySignals, RiskDistance, Distance
<1>2. CASE direction = "short"
  <2>1. Levels(direction, entry, distance) =
          [direction |-> direction, entry_price |-> entry,
           stop_loss |-> entry - (-1) * distance,
           take_profit |-> entry + (-1) * 2 * distance]
    BY <1>2 DEF Levels, RewardOverRisk
  <2> QED
    BY <2>1 DEF AnySignals, RiskDistance, Distance
<1> QED
  BY <1>1, <1>2

\* An approved signal is sized within the share of the capital it may risk.
LEMMA SizeWithinShare ==
  ASSUME NEW signal, NEW state, state.total = Capital,
         RiskDistance(signal) \in Nat \ {0}
  PROVE  /\ PositionSize(signal, state) \in Nat
         /\ 2 * Distance(RiskShare * PositionSize(signal, state) * RiskDistance(signal), Capital)
              <= RiskShare * RiskDistance(signal)
<1> DEFINE distance == RiskDistance(signal)
           den == RiskShare * distance
           size == PositionSize(signal, state)
<1>1. den \in Nat \ {0} /\ Capital \in Nat
  BY PipelineAssumption DEF RiskShare
<1>2. size = Quantize(Capital, den)
  BY DEF PositionSize
<1> HIDE DEF den
<1>3. Quantize(Capital, den) \in Nat /\ 2 * Distance(den * Quantize(Capital, den), Capital) <= den
  BY <1>1, QuantizeNearest
<1>4. size \in Nat /\ 2 * Distance(den * size, Capital) <= den
  BY <1>2, <1>3
<1>5. den * size = RiskShare * size * distance
  <2> HIDE DEF size, distance
  <2>1. size \in Nat /\ distance \in Nat /\ den = 100 * distance
    BY <1>4 DEF distance, size, den, RiskShare
  <2> QED
    BY <2>1, SMT DEF RiskShare
<1> QED
  BY <1>4, <1>5 DEF den

-----------------------------------------------------------------------------
(* The invariant is inductive.                                             *)

LEMMA PipelineInit == Init => PipelineInv
<1> SUFFICES ASSUME Init PROVE PipelineInv
  OBVIOUS
<1>1. /\ trades = <<>> /\ pnl = 0 /\ killed = FALSE /\ sinceHalt = 0
      /\ todo = <<>> /\ cleared = <<>>
      /\ snapshot.total = Capital /\ snapshot.open = 0
      /\ snapshot.pnl = 0 /\ snapshot.killed = FALSE
  BY DEF Init, Ledger
<1>2. Len(Symbols) \in Nat \ {0}
  BY PipelineAssumption, EmptySeq, LenProperties
<1>3. /\ todo \in Seq(STRING) /\ cleared \in Seq(AnyApprovals) /\ trades \in Seq(Int)
      /\ Len(todo) = 0 /\ Len(cleared) = 0 /\ Len(trades) = 0 /\ DOMAIN cleared = {}
  BY <1>1, EmptySeq
<1>4. MayYetOpen = 0 /\ MayYetTrade = 0
  BY <1>3 DEF MayYetOpen, MayYetTrade
<1>5. CountsInv
  <2>1. Capital \in Nat /\ Len(todo) + Len(cleared) <= Len(Symbols)
    BY <1>2, <1>3, PipelineAssumption
  <2>2. /\ pnl \in Int /\ sinceHalt \in Nat
        /\ snapshot.total = Capital /\ snapshot.open \in Nat /\ snapshot.pnl \in Int
    BY <1>1, SMT
  <2>3. killed \in BOOLEAN /\ snapshot.killed \in BOOLEAN
    BY <1>1, Zenon
  <2> QED
    BY <1>3, <2>1, <2>2, <2>3 DEF CountsInv
<1>6. PositionsInv /\ HaltInv
  BY <1>1, <1>2, <1>3, <1>4 DEF PositionsInv, HaltInv, MaxConcurrentPositions
<1>7. RiskWithinShare
  BY <1>3 DEF RiskWithinShare
<1> QED
  BY <1>5, <1>6, <1>7 DEF PipelineInv

\* The head of the list of symbols is dealt with and nothing is cleared.
LEMMA NothingCleared ==
  ASSUME PipelineInv, todo # <<>>, todo' = Tail(todo), cleared' = cleared,
         UNCHANGED <<snapshot, callerVars>>
  PROVE  PipelineInv'
<1>1. todo' \in Seq(STRING) /\ Len(todo) \in Nat /\ Len(todo') = Len(todo) - 1
  BY TakeHead DEF PipelineInv, CountsInv
<1>2. Len(Symbols) \in Nat /\ Len(cleared) \in Nat /\ Len(trades) \in Nat
  BY PipelineAssumption, LenProperties DEF PipelineInv, CountsInv
<1>3. CountsInv'
  BY <1>1, <1>2 DEF PipelineInv, CountsInv, callerVars
<1>4. /\ MayYetOpen \in Int /\ MayYetOpen' \in Int /\ MayYetOpen' <= MayYetOpen
      /\ MayYetTrade \in Int /\ MayYetTrade' \in Int /\ MayYetTrade' <= MayYetTrade
  <2>1. Full(snapshot)' = Full(snapshot) /\ snapshot.killed' = snapshot.killed
    BY DEF Full
  <2> QED
    BY <1>1, <2>1 DEF MayYetOpen, MayYetTrade
<1>5. PositionsInv'
  <2>1. Len(trades) + Len(cleared) + MayYetOpen' <= MaxConcurrentPositions - 1 + Len(Symbols)
    BY <1>2, <1>4 DEF PipelineInv, PositionsInv, MaxConcurrentPositions
  <2> QED
    BY <2>1 DEF PositionsInv, callerVars
<1>6. HaltInv'
  <2>1. sinceHalt + Len(cleared) + MayYetTrade' <= Len(Symbols)
    BY <1>2, <1>4 DEF PipelineInv, CountsInv, HaltInv
  <2> QED
    BY <2>1 DEF PipelineInv, HaltInv, callerVars
<1>7. RiskWithinShare'
  BY DEF PipelineInv, RiskWithinShare
<1> QED
  BY <1>3, <1>5, <1>6, <1>7 DEF PipelineInv

\* A signal is approved: the snapshot had room and no halt, so the symbol that
\* was counted as one that may yet be cleared now counts as cleared.
LEMMA SignalCleared ==
  ASSUME PipelineInv, todo # <<>>, todo' = Tail(todo),
         NEW signal \in AnySignals, RiskDistance(signal) \in Nat,
         Validate(signal, snapshot) = "approved",
         cleared' = Append(cleared, [signal |-> signal, size |-> PositionSize(signal, snapshot)]),
         UNCHANGED <<snapshot, callerVars>>
  PROVE  PipelineInv'
<1> DEFINE approval == [signal |-> signal, size |-> PositionSize(signal, snapshot)]
<1>1. todo' \in Seq(STRING) /\ Len(todo) \in Nat /\ Len(todo') = Len(todo) - 1
  BY TakeHead DEF PipelineInv, CountsInv
<1>2. ~Halted(snapshot) /\ ~Full(snapshot) /\ RiskDistance(signal) # 0
  BY ApprovalNeedsRoom
<1>3. /\ PositionSize(signal, snapshot) \in Nat
      /\ 2 * Distance(RiskShare * PositionSize(signal, snapshot) * RiskDistance(signal), Capital)
           <= RiskShare * RiskDistance(signal)
  <2>1. snapshot.total = Capital /\ RiskDistance(signal) \in Nat \ {0}
    BY <1>2 DEF PipelineInv, CountsInv
  <2> QED
    BY <2>1, SizeWithinShare
<1>4. /\ cleared' \in Seq(AnyApprovals) /\ Len(cleared') = Len(cleared) + 1
      /\ \A i \in 1 .. Len(cleared) : cleared'[i] = cleared[i]
      /\ cleared'[Len(cleared) + 1] = approval
  <2>1. approval \in AnyApprovals
    BY <1>3 DEF AnyApprovals
  <2> HIDE DEF approval
  <2>2. cleared \in Seq(AnyApprovals) /\ cleared' = Append(cleared, approval)
    BY DEF PipelineInv, CountsInv, approval
  <2> QED
    BY <2>1, <2>2, AppendProperties
<1>5. Len(Symbols) \in Nat /\ Len(cleared) \in Nat /\ Len(trades) \in Nat
  BY PipelineAssumption, LenProperties DEF PipelineInv, CountsInv
<1>6. CountsInv'
  BY <1>1, <1>4, <1>5 DEF PipelineInv, CountsInv, callerVars
<1>7. PositionsInv'
  <2>1. ~Full(snapshot)'
    BY <1>2 DEF Full
  <2> QED
    BY <1>1, <1>2, <1>4, <1>5, <2>1
       DEF PipelineInv, PositionsInv, MayYetOpen, callerVars, MaxConcurrentPositions
<1>8. HaltInv'
  BY <1>1, <1>2, <1>4, <1>5 DEF PipelineInv, CountsInv, HaltInv, MayYetTrade, Halted, callerVars
<1>9. RiskWithinShare'
  <2>0. DOMAIN cleared' = 1 .. Len(cleared) + 1
    BY <1>4, <1>5, LenProperties
  <2> SUFFICES ASSUME NEW i \in DOMAIN cleared'
               PROVE  2 * Distance(RiskShare * cleared'[i].size * RiskDistance(cleared'[i].signal), Capital)
                        <= RiskShare * RiskDistance(cleared'[i].signal)
    BY DEF RiskWithinShare
  <2>1. i \in 1 .. Len(cleared) \/ i = Len(cleared) + 1
    BY <2>0, <1>5
  <2>2. CASE i \in 1 .. Len(cleared)
    <3>1. i \in DOMAIN cleared /\ cleared'[i] = cleared[i]
      BY <1>4, <2>2, LenProperties DEF PipelineInv, CountsInv
    <3> QED
      BY <3>1 DEF PipelineInv, RiskWithinShare
  <2>3. CASE i = Len(cleared) + 1
    BY <1>3, <1>4, <2>3
  <2> QED
    BY <2>1, <2>2, <2>3
<1> QED
  BY <1>6, <1>7, <1>8, <1>9 DEF PipelineInv

\* The caller takes the next approval, and trades it or not.
LEMMA ApprovalTaken ==
  ASSUME PipelineInv, todo = <<>>, cleared # <<>>, cleared' = Tail(cleared),
         UNCHANGED <<snapshot, todo, pnl, killed>>,
         \/ UNCHANGED <<trades, sinceHalt>>
         \/ /\ \E cost \in Int : trades' = Append(trades, cost)
            /\ sinceHalt' = IF killed THEN sinceHalt + 1 ELSE sinceHalt
  PROVE  PipelineInv'
<1>1. /\ cleared' \in Seq(AnyApprovals)
      /\ Len(cleared) \in Nat \ {0} /\ Len(cleared)' = Len(cleared) - 1
      /\ \A i \in DOMAIN cleared' : i + 1 \in DOMAIN cleared /\ cleared'[i] = cleared[i + 1]
  BY TakeHead DEF PipelineInv, CountsInv
<1>2. /\ trades' \in Seq(Int) /\ Len(trades) \in Nat
      /\ Len(trades)' \in {Len(trades), Len(trades) + 1}
  <2>1. trades \in Seq(Int) /\ Len(trades) \in Nat
    BY LenProperties DEF PipelineInv, CountsInv
  <2>2. \A cost \in Int : /\ Append(trades, cost) \in Seq(Int)
                         /\ Len(Append(trades, cost)) = Len(trades) + 1
    BY <2>1, AppendProperties
  <2> QED
    BY <2>1, <2>2
<1>3. /\ sinceHalt \in Nat /\ sinceHalt' \in {sinceHalt, sinceHalt + 1}
      /\ sinceHalt' > 0 => killed
  BY DEF PipelineInv, CountsInv, HaltInv
<1>4. /\ Len(Symbols) \in Nat
      /\ Len(todo) = 0 /\ Len(todo)' = 0
      /\ MayYetOpen = 0 /\ MayYetOpen' = 0 /\ MayYetTrade = 0 /\ MayYetTrade' = 0
  BY PipelineAssumption, EmptySeq, LenProperties DEF MayYetOpen, MayYetTrade
<1>5. CountsInv'
  BY <1>1, <1>2, <1>3, <1>4 DEF PipelineInv, CountsInv
<1>6. PositionsInv'
  BY <1>1, <1>2, <1>4 DEF PipelineInv, PositionsInv, MaxConcurrentPositions
<1>7. HaltInv'
  BY <1>1, <1>3, <1>4 DEF PipelineInv, HaltInv
<1>8. RiskWithinShare'
  BY <1>1 DEF PipelineInv, RiskWithinShare
<1> QED
  BY <1>5, <1>6, <1>7, <1>8 DEF PipelineInv

\* Steps that leave the coordinator alone and add no trade.
LEMMA LedgerMoves ==
  ASSUME PipelineInv, UNCHANGED coordinatorVars,
         trades' \in Seq(Int), Len(trades') <= Len(trades),
         pnl' \in Int, killed' \in BOOLEAN,
         \/ sinceHalt' = 0
         \/ sinceHalt' = sinceHalt /\ (killed => killed')
  PROVE  PipelineInv'
<1>1. /\ Len(Symbols) \in Nat /\ Len(trades) \in Nat /\ Len(trades') \in Nat
      /\ Len(cleared) \in Nat /\ Len(todo) \in Nat /\ sinceHalt \in Nat
  BY PipelineAssumption, LenProperties DEF PipelineInv, CountsInv
<1>2. snapshot' = snapshot /\ todo' = todo /\ cleared' = cleared
  BY DEF coordinatorVars
<1>3. /\ MayYetOpen' = MayYetOpen /\ MayYetOpen \in Int
      /\ MayYetTrade' = MayYetTrade /\ MayYetTrade \in Int
  BY <1>1, <1>2 DEF MayYetOpen, MayYetTrade, Full
<1>4. CountsInv'
  BY <1>1, <1>2 DEF PipelineInv, CountsInv
<1>5. PositionsInv'
  BY <1>1, <1>2, <1>3 DEF PipelineInv, PositionsInv, MaxConcurrentPositions
<1>6. HaltInv'
  BY <1>1, <1>2, <1>3 DEF PipelineInv, HaltInv
<1>7. RiskWithinShare'
  BY <1>2 DEF PipelineInv, RiskWithinShare
<1> QED
  BY <1>4, <1>5, <1>6, <1>7 DEF PipelineInv

\* Between runs the snapshot may be replaced by the ledger, and a run started
\* on a snapshot that is the ledger.
LEMMA RunsStart ==
  ASSUME PipelineInv, Idle, snapshot' = Ledger, cleared' = cleared, UNCHANGED callerVars,
         todo' = todo \/ todo' = Symbols
  PROVE  PipelineInv'
<1>1. /\ Len(Symbols) \in Nat \ {0} /\ Len(trades) \in Nat /\ sinceHalt \in Nat
      /\ Len(cleared) = 0 /\ Len(todo) = 0
  BY PipelineAssumption, EmptySeq, LenProperties DEF PipelineInv, CountsInv, Idle
<1>2. /\ trades' = trades /\ cleared' = cleared /\ sinceHalt' = sinceHalt
      /\ pnl' = pnl /\ killed' = killed
  BY DEF callerVars
<1>3. /\ snapshot.total' = Capital /\ snapshot.open' = Len(trades)
      /\ snapshot.pnl' = pnl /\ snapshot.killed' = killed
  BY DEF Ledger
<1>4. todo' \in Seq(STRING) /\ Len(todo') \in {0, Len(Symbols)}
  BY <1>1, PipelineAssumption DEF PipelineInv, CountsInv
<1>5. CountsInv'
  BY <1>1, <1>2, <1>3, <1>4 DEF PipelineInv, CountsInv
<1>6. PositionsInv'
  <2>1. CASE Full(snapshot)'
    <3>1. MayYetOpen' = 0 /\ MayYetOpen \in {0, Len(todo)}
      BY <2>1 DEF MayYetOpen
    <3> QED
      BY <1>1, <1>2, <3>1 DEF PipelineInv, PositionsInv, MaxConcurrentPositions
  <2>2. CASE ~Full(snapshot)'
    <3>1. Len(trades) < 3
      BY <1>1, <1>3, <2>2 DEF Full, MaxConcurrentPositions
    <3>2. MayYetOpen' \in {0, Len(Symbols)}
      BY <1>4, <2>2 DEF MayYetOpen
    <3> QED
      BY <1>1, <1>2, <3>1, <3>2 DEF PositionsInv, MaxConcurrentPositions
  <2> QED
    BY <2>1, <2>2
<1>7. HaltInv'
  <2>1. MayYetTrade' = IF killed THEN 0 ELSE Len(todo')
    BY <1>3 DEF MayYetTrade
  <2>2. MayYetTrade \in {0, Len(todo)}
    BY DEF MayYetTrade
  <2> QED
    BY <1>1, <1>2, <1>4, <2>1, <2>2 DEF PipelineInv, HaltInv
<1>8. RiskWithinShare'
  BY <1>2 DEF PipelineInv, RiskWithinShare
<1> QED
  BY <1>5, <1>6, <1>7, <1>8 DEF PipelineInv

-----------------------------------------------------------------------------
\* Each action is one of the steps above.
LEMMA PipelineStep == PipelineInv /\ [Next]_vars => PipelineInv'
<1> SUFFICES ASSUME PipelineInv, [Next]_vars PROVE PipelineInv'
  OBVIOUS
<1>1. trades \in Seq(Int) /\ Len(trades) \in Nat /\ pnl \in Int /\ killed \in BOOLEAN
  BY LenProperties DEF PipelineInv, CountsInv
<1>2. CASE UpdateSystemState
  BY <1>2, RunsStart DEF UpdateSystemState
<1>3. CASE RunPipeline
  BY <1>3, RunsStart DEF RunPipeline
<1>4. CASE NoVerdict
  BY <1>4, NothingCleared DEF NoVerdict
<1>5. CASE Judge
  <2>1. PICK direction \in {"long", "short"}, entry \in Entries, distance \in Distances :
          LET signal == Levels(direction, entry, distance)
          IN  IF Validate(signal, snapshot) = "approved"
              THEN cleared' = Append(cleared, [signal |-> signal,
                                               size |-> PositionSize(signal, snapshot)])
              ELSE cleared' = cleared
    BY <1>5 DEF Judge
  <2> DEFINE signal == Levels(direction, entry, distance)
  <2>2. signal \in AnySignals /\ RiskDistance(signal) \in Nat
    BY LevelsType, PipelineAssumption
  <2>3. todo # <<>> /\ todo' = Tail(todo) /\ UNCHANGED <<snapshot, callerVars>>
    BY <1>5 DEF Judge
  <2> HIDE DEF signal
  <2>4. CASE Validate(signal, snapshot) = "approved"
    <3>1. cleared' = Append(cleared, [signal |-> signal,
                                      size |-> PositionSize(signal, snapshot)])
      BY <2>1, <2>4 DEF signal
    <3> QED
      BY <2>2, <2>3, <2>4, <3>1, SignalCleared
  <2>5. CASE Validate(signal, snapshot) # "approved"
    <3>1. cleared' = cleared
      BY <2>1, <2>5 DEF signal
    <3> QED
      BY <2>3, <3>1, NothingCleared
  <2> QED
    BY <2>4, <2>5
<1>6. CASE Execute
  <2>1. cleared \in Seq(AnyApprovals) /\ cleared # <<>>
    BY <1>6 DEF Execute, PipelineInv, CountsInv
  <2>2. Head(cleared).size * Head(cleared).signal.entry_price \in Int
    <3>1. Head(cleared) \in AnyApprovals
      BY <2>1, TakeHead
    <3>2. Head(cleared).size \in Nat /\ Head(cleared).signal \in AnySignals
      BY <3>1 DEF AnyApprovals
    <3>3. Head(cleared).signal.entry_price \in Nat
      BY <3>2 DEF AnySignals
    <3> QED
      BY <3>2, <3>3
  <2>3. \E cost \in Int : trades' = Append(trades, cost)
    BY <1>6, <2>2 DEF Execute
  <2>4. /\ todo = <<>> /\ cleared' = Tail(cleared) /\ UNCHANGED <<snapshot, todo, pnl, killed>>
        /\ sinceHalt' = IF killed THEN sinceHalt + 1 ELSE sinceHalt
    BY <1>6 DEF Execute
  <2> QED
    BY <2>1, <2>3, <2>4, ApprovalTaken
<1>7. CASE Cancel
  BY <1>7, ApprovalTaken DEF Cancel, callerVars
<1>8. CASE PositionCloses
  <2>1. trades' \in Seq(Int) /\ Len(trades') = Len(trades) - 1
    BY <1>1, <1>8, OneLess DEF PositionCloses
  <2> QED
    BY <1>1, <1>8, <2>1, LedgerMoves DEF PositionCloses
<1>9. CASE PnlMoves
  <2>1. /\ pnl' \in Int /\ killed' \in BOOLEAN /\ (killed => killed')
        /\ trades' = trades /\ sinceHalt' = sinceHalt /\ UNCHANGED coordinatorVars
    BY <1>1, <1>9, PipelineAssumption DEF PnlMoves, CheckKillSwitch
  <2> QED
    BY <1>1, <2>1, LedgerMoves
<1>10. CASE ManualReset
  <2>1. /\ pnl' \in Int /\ sinceHalt' = 0 /\ trades' = trades /\ UNCHANGED coordinatorVars
    BY <1>10 DEF ManualReset
  <2>2. killed' \in BOOLEAN
    BY <1>10, Zenon DEF ManualReset
  <2> QED
    BY <1>1, <2>1, <2>2, LedgerMoves
<1>11. CASE UNCHANGED vars
  BY <1>1, <1>11, LedgerMoves DEF vars, coordinatorVars
<1> QED
  BY <1>2, <1>3, <1>4, <1>5, <1>6, <1>7, <1>8, <1>9, <1>10, <1>11 DEF Next

LEMMA PipelineInvariant == Spec => []PipelineInv
BY PipelineInit, PipelineStep, PTL DEF Spec

\* A run that works from a stale snapshot exceeds the limit on open positions by
\* no more than its other symbols, however runs, decisions and closings interleave
\* (coordinator.py:180-184, risk.py:93).
THEOREM PositionsStayBounded == Spec => []OpenBounded
<1>1. PipelineInv => OpenBounded
  <2> SUFFICES ASSUME PipelineInv PROVE OpenBounded
    OBVIOUS
  <2>1. /\ Len(Symbols) \in Nat /\ Len(trades) \in Nat /\ Len(cleared) \in Nat
        /\ MayYetOpen \in Nat
    BY PipelineAssumption, LenProperties DEF PipelineInv, CountsInv, MayYetOpen
  <2> QED
    BY <2>1 DEF PipelineInv, PositionsInv, OpenBounded, MaxConcurrentPositions
<1> QED
  BY <1>1, PipelineInvariant, PTL

\* The boundary of the finding about PositionsWithinLimit: it takes two symbols to
\* exceed the limit. A coordinator of one symbol keeps to it (risk.py:93).
THEOREM OneSymbolKeepsLimit ==
  ASSUME Len(Symbols) = 1
  PROVE  Spec => []PositionsWithinLimit
<1>1. PipelineInv /\ OpenBounded => PositionsWithinLimit
  BY LenProperties DEF PipelineInv, CountsInv, OpenBounded, PositionsWithinLimit, MaxConcurrentPositions
<1> QED
  BY <1>1, PipelineInvariant, PositionsStayBounded, PTL

\* After the daily loss limit is hit the run under way is the last one to have
\* signals traded before the manual reset (risk.py:73-90).
THEOREM HaltIsFinal == Spec => []HaltTakesHold
<1>1. PipelineInv => HaltTakesHold
  <2> SUFFICES ASSUME PipelineInv PROVE HaltTakesHold
    OBVIOUS
  <2>1. /\ Len(Symbols) \in Nat /\ sinceHalt \in Nat /\ Len(cleared) \in Nat
        /\ MayYetTrade \in Nat
    BY PipelineAssumption, LenProperties DEF PipelineInv, CountsInv, MayYetTrade
  <2> QED
    BY <2>1 DEF PipelineInv, HaltInv, HaltTakesHold
<1> QED
  BY <1>1, PipelineInvariant, PTL

\* Every cleared position, whatever its prices, loses at its stop the allowed
\* share of the capital to within half a lot (risk.py:140-141, 158).
THEOREM SizedWithinShare == Spec => []RiskWithinShare
<1>1. PipelineInv => RiskWithinShare
  BY DEF PipelineInv
<1> QED
  BY <1>1, PipelineInvariant, PTL

-----------------------------------------------------------------------------
(* Types.                                                                  *)

\* What the gate lets through has its prices, and its stop on the right side of 0.
LEMMA ApprovedIsSignal ==
  ASSUME NEW direction \in {"long", "short"}, NEW entry \in Nat, NEW distance \in Nat,
         direction = "long" => distance <= entry,
         NEW state, Validate(Levels(direction, entry, distance), state) = "approved"
  PROVE  Levels(direction, entry, distance) \in Signals
<1> DEFINE signal == Levels(direction, entry, distance)
<1>1. ~Invalid(signal)
  BY DEF Validate
<1> HIDE DEF signal
<1>2. signal.entry_price # 0 /\ signal.stop_loss # 0 /\ signal.take_profit # 0
  BY <1>1, Zenon DEF Invalid
<1>3. CASE direction = "long"
  <2>1. signal = [direction |-> direction, entry_price |-> entry,
                  stop_loss |-> entry - distance, take_profit |-> entry + 2 * distance]
    BY <1>3 DEF Levels, RewardOverRisk, signal
  <2> QED
    BY <1>2, <1>3, <2>1 DEF Signals, Prices, signal
<1>4. CASE direction = "short"
  <2>1. signal = [direction |-> direction, entry_price |-> entry,
                  stop_loss |-> entry + distance, take_profit |-> entry - 2 * distance]
    BY <1>4 DEF Levels, RewardOverRisk, signal
  <2> QED
    BY <1>2, <1>4, <2>1 DEF Signals, Prices, signal
<1> QED
  BY <1>3, <1>4

LEMMA LedgerType ==
  ASSUME trades \in Seq(Nat), pnl \in PnLs, killed \in BOOLEAN
  PROVE  /\ Ledger \in SystemStates /\ TiedUp \in Nat
         /\ Ledger.available = Capital - TiedUp /\ Ledger.total = Capital
<1>1. trades \in Seq(Int) /\ Len(trades) \in Nat
  BY LenProperties, SeqDef
<1>2. TiedUp \in Nat
  BY <1>1, SumOfSequence DEF TiedUp
<1>3. Capital - TiedUp \in Int
  BY <1>2, PipelineAssumption
<1> QED
  BY <1>1, <1>2, <1>3 DEF Ledger, SystemStates

\* Closing a trade takes its cost out of the list.
LEMMA CostLeaves ==
  ASSUME NEW s \in Seq(Nat), NEW i \in DOMAIN s
  PROVE  /\ RemoveAt(s, i) \in Seq(Nat) /\ Len(RemoveAt(s, i)) = Len(s) - 1
         /\ SumFunction(RemoveAt(s, i)) <= SumFunction(s)
<1> DEFINE r == RemoveAt(s, i)
<1>1. i \in 1..Len(s) /\ Len(s) \in Nat /\ s \in Seq(Int) /\ s[i] \in Nat
  OBVIOUS
<1> DEFINE before == SubSeq(s, 1, i - 1)
           after == SubSeq(s, i + 1, Len(s))
<1>2. r = before \o after
  BY DEF RemoveAt
<1>9. /\ before \in Seq(Nat) /\ Len(before) = i - 1 /\ \A k \in 1..i - 1 : before[k] = s[k]
      /\ after \in Seq(Nat) /\ Len(after) = Len(s) - i
      /\ \A k \in 1..Len(s) - i : after[k] = s[i + k]
  <2>1. \A k \in 1..i - 1 : s[k] \in Nat
    BY <1>1
  <2>2. before \in Seq(Nat) /\ Len(before) = i - 1 /\ \A k \in 1..i - 1 : before[k] = s[k]
    BY <1>1, <2>1, SubSeqProperties
  <2>3. \A k \in i + 1..Len(s) : s[k] \in Nat
    BY <1>1
  <2>4. /\ after \in Seq(Nat) /\ Len(after) = Len(s) - i
        /\ \A k \in 1..Len(s) - i : after[k] = s[i + k]
    BY <1>1, <2>3, SubSeqProperties
  <2> QED
    BY <2>2, <2>4
<1> HIDE DEF before, after
<1>3. r \in Seq(Nat) /\ Len(r) = Len(s) - 1
  BY <1>1, <1>2, <1>9
<1>4. \A k \in 1..Len(r) : r[k] = IF k < i THEN s[k] ELSE s[k + 1]
  <2> SUFFICES ASSUME NEW k \in 1..Len(r)
               PROVE  r[k] = IF k < i THEN s[k] ELSE s[k + 1]
    OBVIOUS
  <2>1. k \in 1..Len(s) - 1
    BY <1>1, <1>3
  <2>2. CASE k < i
    BY <1>1, <1>2, <1>9, <2>1, <2>2
  <2>3. CASE ~(k < i)
    <3>1. k - (i - 1) \in 1..Len(s) - i /\ i + (k - (i - 1)) = k + 1 /\ k > i - 1
      <4>1. \A n, a, b \in Nat : b \in 1..n - 1 /\ ~(b < a) /\ a > 0 =>
              b - (a - 1) \in 1..n - a /\ a + (b - (a - 1)) = b + 1 /\ b > a - 1
        OBVIOUS
      <4>2. Len(s) \in Nat /\ i \in Nat /\ k \in Nat /\ i > 0
        BY <1>1, <2>1
      <4> QED
        BY <2>1, <2>3, <4>1, <4>2, Zenon
    <3>2. (before \o after)[k] = after[k - (i - 1)]
      <4>1. \A m \in 1..Len(before) + Len(after) :
              (before \o after)[m] = IF m <= Len(before) THEN before[m] ELSE after[m - Len(before)]
        BY <1>9, ConcatProperties
      <4>2. k \in 1..Len(before) + Len(after) /\ ~(k <= Len(before))
        <5>1. Len(before) = i - 1 /\ Len(after) = Len(s) - i
          BY <1>9
        <5>2. \A n, a, b, x, y \in Int : b \in 1..n - 1 /\ b > a - 1 /\ x = a - 1 /\ y = n - a =>
                b \in 1..x + y /\ ~(b <= x)
          OBVIOUS
        <5>3. Len(s) \in Int /\ i \in Int /\ k \in Int /\ Len(before) \in Int /\ Len(after) \in Int
          BY <1>1, <2>1, <5>1
        <5> QED
          BY <2>1, <3>1, <5>1, <5>2, <5>3, Zenon
      <4> QED
        BY <1>9, <4>1, <4>2
    <3>3. r[k] = after[k - (i - 1)]
      BY <1>2, <3>2, Zenon
    <3> QED
      BY <1>9, <2>3, <3>1, <3>3
  <2> QED
    BY <2>2, <2>3
<1> HIDE DEF r
<1>5. r \in Seq(Int)
  BY <1>3
<1>6. SumFunction(s) = SumFunction(r) + s[i]
  BY <1>1, <1>3, <1>4, <1>5, SumWithout
<1>7. SumFunction(r) \in Int
  BY <1>5, SumOfSequence
<1> QED
  BY <1>1, <1>3, <1>6, <1>7 DEF r

LEMMA TypesInit == Init => TypeOK
<1> SUFFICES ASSUME Init PROVE TypeOK
  OBVIOUS
<1>1. /\ trades = <<>> /\ pnl = 0 /\ killed = FALSE /\ sinceHalt = 0
      /\ todo = <<>> /\ cleared = <<>> /\ snapshot = Ledger
  BY DEF Init
<1>2. trades \in Seq(Nat) /\ pnl \in PnLs /\ killed \in BOOLEAN
  <2>1. trades \in Seq(Nat) /\ pnl \in PnLs
    BY <1>1, PipelineAssumption
  <2>2. killed \in BOOLEAN
    BY <1>1, Zenon
  <2> QED
    BY <2>1, <2>2
<1>3. Ledger \in SystemStates
  BY <1>2, LedgerType
<1>4. Len(Symbols) \in Nat
  BY PipelineAssumption
<1>5. /\ todo \in Seq(STRING) /\ Len(todo) = 0 /\ cleared \in Seq(Approvals) /\ Len(cleared) = 0
  BY <1>1
<1> QED
  BY <1>1, <1>2, <1>3, <1>4, <1>5 DEF TypeOK

LEMMA TypesStep == TypeOK /\ [Next]_vars => TypeOK'
<1> SUFFICES ASSUME TypeOK, [Next]_vars PROVE TypeOK'
  OBVIOUS
<1> USE DEF coordinatorVars, callerVars
<1>1. /\ snapshot \in SystemStates
      /\ todo \in Seq(STRING) /\ cleared \in Seq(Approvals) /\ trades \in Seq(Nat)
      /\ Len(todo) \in Nat /\ Len(cleared) \in Nat /\ Len(trades) \in Nat
      /\ Len(todo) <= Len(Symbols) /\ Len(cleared) + Len(todo) <= Len(Symbols)
      /\ pnl \in PnLs /\ killed \in BOOLEAN /\ sinceHalt \in Nat
  BY LenProperties DEF TypeOK
<1>2. Len(Symbols) \in Nat /\ Symbols \in Seq(STRING)
  BY PipelineAssumption
<1>3. Ledger \in SystemStates
  BY <1>1, LedgerType
<1>4. CASE UpdateSystemState
  BY <1>1, <1>2, <1>3, <1>4 DEF UpdateSystemState, TypeOK
<1>5. CASE RunPipeline
  BY <1>1, <1>2, <1>5 DEF RunPipeline, Idle, TypeOK
<1>6. CASE NoVerdict
  <2>1. Tail(todo) \in Seq(STRING) /\ Len(Tail(todo)) = Len(todo) - 1
    BY <1>1, <1>6, TakeHead DEF NoVerdict
  <2> QED
    BY <1>1, <1>2, <1>6, <2>1 DEF NoVerdict, TypeOK
<1>7. CASE Judge
  <2>1. /\ todo' \in Seq(STRING) /\ Len(todo') = Len(todo) - 1
        /\ UNCHANGED <<snapshot, trades, pnl, killed, sinceHalt>>
    BY <1>1, <1>7, TakeHead DEF Judge
  <2>2. PICK direction \in {"long", "short"}, entry \in Entries, distance \in Distances :
          /\ direction = "long" => distance <= entry
          /\ LET signal == Levels(direction, entry, distance)
             IN  IF Validate(signal, snapshot) = "approved"
                 THEN cleared' = Append(cleared, [signal |-> signal,
                                                  size |-> PositionSize(signal, snapshot)])
                 ELSE cleared' = cleared
    BY <1>7 DEF Judge
  <2> DEFINE signal == Levels(direction, entry, distance)
             approval == [signal |-> signal, size |-> PositionSize(signal, snapshot)]
  <2>3. entry \in Nat /\ distance \in Nat
    BY PipelineAssumption
  <2>4. CASE Validate(signal, snapshot) = "approved"
    <3>1. signal \in Signals
      BY <2>2, <2>3, <2>4, ApprovedIsSignal
    <3>2. RiskDistance(signal) \in Nat \ {0}
      BY <2>3, <2>4, LevelsType, ApprovalNeedsRoom
    <3>3. snapshot.total = Capital
      BY <1>1 DEF SystemStates
    <3>4. cleared' = Append(cleared, approval)
      BY <2>2, <2>4
    <3> HIDE DEF signal
    <3>5. PositionSize(signal, snapshot) \in Nat
      BY <3>2, <3>3, SizeWithinShare
    <3>6. approval \in Approvals
      BY <3>1, <3>5 DEF Approvals
    <3> HIDE DEF approval
    <3>7. cleared' \in Seq(Approvals) /\ Len(cleared') = Len(cleared) + 1
      BY <1>1, <3>4, <3>6, AppendProperties
    <3> QED
      BY <1>1, <1>2, <2>1, <3>7 DEF TypeOK
  <2>5. CASE Validate(signal, snapshot) # "approved"
    <3>1. cleared' = cleared
      BY <2>2, <2>5
    <3> QED
      BY <1>1, <1>2, <2>1, <3>1 DEF TypeOK
  <2> QED
    BY <2>4, <2>5
<1>8. CASE Execute
  <2>1. /\ Head(cleared) \in Approvals /\ Tail(cleared) \in Seq(Approvals)
        /\ Len(Tail(cleared)) = Len(cleared) - 1
    BY <1>1, <1>8, TakeHead DEF Execute
  <2>2. Head(cleared).size * Head(cleared).signal.entry_price \in Nat
    <3>1. Head(cleared).size \in Nat /\ Head(cleared).signal.entry_price \in Nat
      BY <2>1 DEF Approvals, Signals
    <3> QED
      BY <3>1
  <2>3. trades' \in Seq(Nat) /\ sinceHalt' \in Nat
    BY <1>1, <1>8, <2>2, AppendProperties DEF Execute
  <2> QED
    BY <1>1, <1>2, <1>8, <2>1, <2>3 DEF Execute, TypeOK
<1>9. CASE Cancel
  <2>1. /\ Tail(cleared) \in Seq(Approvals) /\ Len(Tail(cleared)) = Len(cleared) - 1
    BY <1>1, <1>9, TakeHead DEF Cancel
  <2> QED
    BY <1>1, <1>2, <1>9, <2>1 DEF Cancel, TypeOK
<1>10. CASE PositionCloses
  <2>1. trades' \in Seq(Nat)
    BY <1>1, <1>10, CostLeaves DEF PositionCloses
  <2> QED
    BY <1>1, <1>2, <1>10, <2>1 DEF PositionCloses, TypeOK
<1>11. CASE PnlMoves
  <2>1. pnl' \in PnLs /\ UNCHANGED <<snapshot, todo, cleared, trades, sinceHalt>>
    BY <1>11 DEF PnlMoves
  <2>2. killed' \in BOOLEAN
    BY <1>1, <1>11, Zenon DEF PnlMoves, CheckKillSwitch
  <2> QED
    BY <1>1, <1>2, <2>1, <2>2 DEF TypeOK
<1>12. CASE ManualReset
  <2>1. pnl' \in PnLs /\ sinceHalt' \in Nat /\ UNCHANGED <<snapshot, todo, cleared, trades>>
    BY <1>12, PipelineAssumption DEF ManualReset
  <2>2. killed' \in BOOLEAN
    BY <1>12, Zenon DEF ManualReset
  <2> QED
    BY <1>1, <1>2, <2>1, <2>2 DEF TypeOK
<1>13. CASE UNCHANGED vars
  BY <1>1, <1>2, <1>13 DEF vars, TypeOK
<1> QED
  BY <1>4, <1>5, <1>6, <1>7, <1>8, <1>9, <1>10, <1>11, <1>12, <1>13 DEF Next

\* Whatever the analyst finds, nothing leaves the gate that lacks a price or a size,
\* and a run never clears more signals than there are symbols (risk.py:109-130).
THEOREM PipelineTypes == Spec => []TypeOK
BY TypesInit, TypesStep, PTL DEF Spec

-----------------------------------------------------------------------------
(* What is tied up.                                                        *)

Cost(approval) == approval.size * approval.signal.entry_price
Costs == [i \in 1..Len(cleared) |-> Cost(cleared[i])]
\* What twice the cost of one more signal can come to under the snapshot.
Room(e) == IF snapshot.available >= 0 THEN 2 * snapshot.available + e ELSE 0

\* What the trades tie up, what the cleared signals would and what the symbols of
\* the run that are yet to be evaluated may add. (All twice, for the half lots.)
CommitFor(e) ==
  2 * TiedUp + 2 * SumFunction(Costs) + Len(todo) * Room(e) <= Len(Symbols) * (2 * Capital + e)

CommitInv == \A e \in Entries : (\A f \in Entries : f <= e) => CommitFor(e)

LEMMA Cancelled ==
  ASSUME NEW d \in Nat \ {0}, NEW x \in Int, NEW y \in Int, d * x <= d * y
  PROVE  x <= y
<1> SUFFICES ASSUME x >= y + 1
             PROVE  FALSE
  OBVIOUS
<1>1. d * x >= d * (y + 1)
  BY SMT
<1>2. d * (y + 1) = d * y + d
  BY SMT
<1>3. d * x \in Int /\ d * y \in Int
  OBVIOUS
<1> QED
  BY <1>1, <1>2, <1>3

\* A signal that the gate lets through costs no more than what is available, and
\* half a lot.
LEMMA Affordable ==
  ASSUME NEW signal \in AnySignals, NEW state, state.total = Capital, state.available \in Int,
         RiskDistance(signal) \in Nat, Validate(signal, state) = "approved",
         NEW e \in Nat, signal.entry_price <= e
  PROVE  /\ state.available >= 0
         /\ 2 * (PositionSize(signal, state) * signal.entry_price) <= 2 * state.available + e
<1> DEFINE d == RiskShare * RiskDistance(signal)
           x == signal.entry_price
           n == PositionSize(signal, state)
           a == state.available
<1>1. RiskDistance(signal) \in Nat \ {0} /\ ~TooExpensive(signal, state)
  BY ApprovalNeedsRoom DEF Validate
<1>2. d \in Nat \ {0} /\ x \in Nat /\ a \in Int /\ Capital \in Nat
  BY <1>1, PipelineAssumption DEF RiskShare, AnySignals
<1>3. Capital * x <= a * d
  <2>1. a * d = a * RiskShare * RiskDistance(signal)
    BY <1>1, <1>2, SMT DEF RiskShare
  <2>2. ~(Capital * x > a * RiskShare * RiskDistance(signal))
    BY <1>1 DEF TooExpensive
  <2>3. Capital * x \in Int /\ a * d \in Int
    BY <1>2
  <2> HIDE DEF a, d, x
  <2> QED
    BY <2>1, <2>2, <2>3
<1>4. n \in Nat /\ 2 * Distance(d * n, Capital) <= d
  <2>1. /\ n \in Nat
        /\ 2 * Distance(RiskShare * n * RiskDistance(signal), Capital) <= RiskShare * RiskDistance(signal)
    BY <1>1, SizeWithinShare
  <2>2. RiskShare * n * RiskDistance(signal) = d * n
    <3> HIDE DEF n
    <3> QED
      BY <1>1, <2>1, SMT DEF RiskShare
  <2> QED
    BY <2>1, <2>2, Zenon
<1> HIDE DEF d, x, n, a
<1>5. 2 * (d * n) <= 2 * Capital + d
  <2>1. d * n \in Int
    BY <1>2, <1>4
  <2> QED
    BY <1>2, <1>4, <2>1 DEF Distance
<1>6. a >= 0
  <2>1. Capital * x >= 0
    BY <1>2
  <2>2. d * 0 <= d * a
    BY <1>2, <1>3, <2>1
  <2> QED
    BY <1>2, <2>2, Cancelled
<1>7. (2 * (d * n)) * x <= (2 * Capital + d) * x
  <2>1. \A p, q \in Int : p <= q => p * x <= q * x
    BY <1>2, SMT
  <2> QED
    BY <1>2, <1>4, <1>5, <2>1
<1>8. d * (2 * (n * x)) <= d * (2 * a + x)
  <2>1. (2 * (d * n)) * x = d * (2 * (n * x))
    BY <1>2, <1>4, SMT
  <2>2. (2 * Capital + d) * x = 2 * (Capital * x) + d * x
    BY <1>2, SMT
  <2>3. d * (2 * a + x) = 2 * (a * d) + d * x
    BY <1>2, SMT
  <2> DEFINE l == d * (2 * (n * x))
             m == (2 * Capital + d) * x
             r == d * (2 * a + x)
             u == Capital * x
             v == a * d
             w == d * x
  <2>4. /\ l \in Int /\ m \in Int /\ r \in Int /\ u \in Int /\ v \in Int /\ w \in Int
    BY <1>2, <1>4
  <2>5. l <= m /\ m = 2 * u + w /\ r = 2 * v + w /\ u <= v
    BY <1>3, <1>7, <2>1, <2>2, <2>3, Zenon
  <2>6. l <= r
    <3> HIDE DEF l, m, r, u, v, w
    <3> QED
      BY <2>4, <2>5
  <2> QED
    BY <2>6
<1>9. 2 * (n * x) <= 2 * a + x
  <2>1. 2 * (n * x) \in Int /\ 2 * a + x \in Int
    BY <1>2, <1>4
  <2> QED
    BY <1>2, <1>8, <2>1, Cancelled
<1>10. 2 * (n * x) <= 2 * a + e
  <2>1. n * x \in Int /\ x <= e
    BY <1>2, <1>4 DEF x
  <2> QED
    BY <1>2, <1>9, <2>1
<1> QED
  BY <1>6, <1>10 DEF a, n, x

\* One symbol fewer.
LEMMA OneFewer ==
  ASSUME NEW n \in Nat \ {0}, NEW r \in Nat
  PROVE  n * r = (n - 1) * r + r /\ (n - 1) * r \in Nat
BY SMT

LEMMA CostsAdd ==
  ASSUME cleared \in Seq(Approvals)
  PROVE  /\ Costs \in Seq(Nat) /\ Len(Costs) = Len(cleared) /\ SumFunction(Costs) \in Nat
         /\ cleared = <<>> => SumFunction(Costs) = 0
<1>1. \A i \in 1..Len(cleared) : Cost(cleared[i]) \in Nat
  <2> SUFFICES ASSUME NEW i \in 1..Len(cleared)
               PROVE  Cost(cleared[i]) \in Nat
    OBVIOUS
  <2>1. cleared[i] \in Approvals
    OBVIOUS
  <2>2. cleared[i].size \in Nat /\ cleared[i].signal.entry_price \in Nat
    BY <2>1 DEF Approvals, Signals
  <2> QED
    BY <2>2 DEF Cost
<1>2. Len(cleared) \in Nat
  OBVIOUS
<1>3. Costs \in Seq(Nat) /\ Len(Costs) = Len(cleared)
  BY <1>1, <1>2 DEF Costs
<1>4. Costs \in Seq(Int) /\ (cleared = <<>> => Costs = <<>>)
  BY <1>3
<1> QED
  BY <1>3, <1>4, SumOfSequence

\* What each step does to the sum of the costs that are cleared.
LEMMA CostsStep ==
  ASSUME TypeOK
  PROVE  /\ \A a \in Approvals : cleared' = Append(cleared, a) =>
              SumFunction(Costs)' = SumFunction(Costs) + Cost(a) /\ Cost(a) \in Nat
         /\ cleared # <<>> /\ cleared' = Tail(cleared) =>
              /\ SumFunction(Costs) = SumFunction(Costs)' + Cost(Head(cleared))
              /\ Cost(Head(cleared)) \in Nat /\ SumFunction(Costs)' \in Nat
<1>1. cleared \in Seq(Approvals) /\ Len(cleared) \in Nat
  BY DEF TypeOK
<1>2. \A a \in Approvals : Cost(a) \in Nat
  <2>1. \A a \in Approvals : a.size \in Nat /\ a.signal.entry_price \in Nat
    BY DEF Approvals, Signals
  <2> QED
    BY <2>1 DEF Cost
<1>3. Costs' = [i \in 1..Len(cleared') |-> Cost(cleared'[i])]
  BY DEF Costs, Cost
<1>4. Costs \in Seq(Nat) /\ Costs \in Seq(Int) /\ Len(Costs) = Len(cleared)
  BY <1>1, CostsAdd
<1>5. ASSUME NEW a \in Approvals, cleared' = Append(cleared, a)
      PROVE  SumFunction(Costs)' = SumFunction(Costs) + Cost(a)
  <2>1. Len(cleared') = Len(cleared) + 1 /\ \A i \in 1..Len(cleared) + 1 :
          cleared'[i] = IF i <= Len(cleared) THEN cleared[i] ELSE a
    BY <1>1, <1>5
  <2> DEFINE n == Len(cleared)
             f == Costs
             g == Costs'
  <2>2. f = [i \in 1..n |-> Cost(cleared[i])] /\ \A i \in 1..n : f[i] \in Int
    BY <1>4 DEF Costs
  <2>3. g = [i \in 1..n + 1 |-> Cost(cleared'[i])]
    BY <1>3, <2>1
  <2>4. Cost(a) \in Int /\ n \in Nat /\ \A i \in 1..n : i \in 1..n + 1 /\ i <= n
    BY <1>1, <1>2
  <2> HIDE DEF f, g, n
  <2>5. DOMAIN f = 1..n /\ DOMAIN g = 1..n + 1
    BY <2>2, <2>3
  <2>6. g[n + 1] = Cost(a)
    BY <2>1, <2>3, <2>4 DEF n
  <2>7. \A i \in 1..n : g[i] = f[i] /\ f[i] \in Int
    BY <2>1, <2>2, <2>3, <2>4 DEF n
  <2>8. SumFunction(g) = SumFunction(f) + g[n + 1]
    BY <2>4, <2>5, <2>6, <2>7, SumOneMore
  <2> QED
    BY <2>6, <2>8 DEF f, g
<1>6. ASSUME cleared # <<>>, cleared' = Tail(cleared)
      PROVE  /\ SumFunction(Costs) = SumFunction(Costs)' + Cost(Head(cleared))
             /\ Cost(Head(cleared)) \in Nat /\ SumFunction(Costs)' \in Nat
  <2>1. /\ Tail(cleared) \in Seq(Approvals) /\ Len(Tail(cleared)) = Len(cleared) - 1
        /\ Head(cleared) = cleared[1] /\ cleared[1] \in Approvals /\ Len(cleared) >= 1
        /\ \A i \in 1..Len(cleared) - 1 : Tail(cleared)[i] = cleared[i + 1] /\ cleared[i + 1] \in Approvals
    BY <1>1, <1>6
  <2> DEFINE s == Costs
             r == Costs'
  <2>2. \A i \in 1..Len(cleared) : s[i] = Cost(cleared[i])
    BY DEF Costs
  <2>3. r = [i \in 1..Len(cleared) - 1 |-> Cost(cleared[i + 1])]
    BY <1>3, <1>6, <2>1
  <2>4. r \in Seq(Nat) /\ Len(r) = Len(cleared) - 1
        /\ \A i \in 1..Len(cleared) - 1 : r[i] = Cost(cleared[i + 1])
    <3>1. \A i \in 1..Len(cleared) - 1 : Cost(cleared[i + 1]) \in Nat
      BY <1>2, <2>1
    <3> HIDE DEF r
    <3> QED
      BY <1>1, <2>1, <2>3, <3>1
  <2> HIDE DEF r, s
  <2>5. s \in Seq(Int) /\ r \in Seq(Int) /\ 1 \in 1..Len(s) /\ Len(r) = Len(s) - 1
    BY <1>1, <1>4, <2>1, <2>4 DEF s
  <2>6. \A k \in 1..Len(r) : r[k] = IF k < 1 THEN s[k] ELSE s[k + 1]
    <3>1. \A k \in 1..Len(r) : k + 1 \in 1..Len(cleared) /\ ~(k < 1) /\ k \in 1..Len(cleared) - 1
      BY <1>1, <2>4
    <3> QED
      BY <2>2, <2>4, <3>1
  <2>7. SumFunction(s) = SumFunction(r) + s[1]
    BY <2>5, <2>6, SumWithout
  <2>8. s[1] = Cost(Head(cleared)) /\ Cost(Head(cleared)) \in Nat
    BY <1>1, <1>2, <2>1, <2>2
  <2>9. SumFunction(r) \in Nat
    BY <2>4, <2>5, SumOfSequence
  <2> QED
    BY <2>7, <2>8, <2>9 DEF r, s
<1> QED
  BY <1>2, <1>5, <1>6

\* The room a run has when its snapshot is the ledger.
LEMMA RoomForRun ==
  ASSUME NEW l \in Nat \ {0}, NEW c \in Nat, NEW t \in Nat, NEW e \in Nat,
         c - t >= 0
  PROVE  2 * t + l * (2 * (c - t) + e) <= l * (2 * c + e)
<1>1. l * (2 * (c - t) + e) = l * (2 * c + e) - 2 * (l * t)
  BY SMT
<1>2. l * t = (l - 1) * t + t /\ (l - 1) * t \in Nat
  BY OneFewer
<1>3. l * t \in Nat /\ l * (2 * c + e) \in Int
  OBVIOUS
<1> QED
  BY <1>1, <1>2, <1>3

LEMMA CommitStep ==
  ASSUME TypeOK, NEW e \in Entries, \A f \in Entries : f <= e, CommitFor(e), [Next]_vars
  PROVE  CommitFor(e)'
<1> DEFINE K == Len(Symbols) * (2 * Capital + e)
           P == Len(todo) * Room(e)
           S == SumFunction(Costs)
<1> USE DEF coordinatorVars, callerVars
<1>1. /\ e \in Nat /\ Capital \in Nat /\ Len(Symbols) \in Nat \ {0}
  <2>1. Len(Symbols) # 0
    BY PipelineAssumption, EmptySeq, LenProperties
  <2> QED
    BY <2>1, PipelineAssumption
<1>2. /\ snapshot.available \in Int /\ snapshot.total = Capital
      /\ todo \in Seq(STRING) /\ Len(todo) \in Nat
      /\ cleared \in Seq(Approvals) /\ trades \in Seq(Nat) /\ trades \in Seq(Int)
  BY LenProperties DEF TypeOK, SystemStates
<1>3. TiedUp \in Nat /\ S \in Nat /\ Room(e) \in Nat /\ P \in Nat /\ K \in Nat
  <2>1. TiedUp \in Nat /\ S \in Nat
    BY <1>2, SumOfSequence, CostsAdd DEF TiedUp
  <2>2. Room(e) \in Nat
    BY <1>1, <1>2 DEF Room
  <2> QED
    BY <1>1, <1>2, <2>1, <2>2
<1>4. 2 * TiedUp + 2 * S + P <= K
  BY DEF CommitFor
<1>5. TiedUp' = SumFunction(trades')
  BY DEF TiedUp
<1> SUFFICES 2 * TiedUp' + 2 * S' + P' <= K
  BY DEF CommitFor
<1>6. UNCHANGED cleared => S' = S
  BY DEF Costs, Cost
<1>7. UNCHANGED snapshot => Room(e)' = Room(e)
  BY DEF Room
<1>8. UNCHANGED <<snapshot, todo>> => P' = P
  BY <1>7
<1>9. ASSUME todo # <<>>, todo' = Tail(todo), UNCHANGED snapshot
      PROVE  P = P' + Room(e) /\ P' \in Nat
  <2>1. Len(todo) \in Nat \ {0} /\ Len(todo') = Len(todo) - 1
    BY <1>2, <1>9, TakeHead
  <2> QED
    BY <1>3, <1>7, <1>9, <2>1, OneFewer
<1>10. todo = <<>> => P = 0
  BY <1>3, EmptySeq
<1>11. UNCHANGED trades => TiedUp' = TiedUp
  BY DEF TiedUp
<1> HIDE DEF P, S, K
<1>12. CASE UpdateSystemState
  <2>1. todo = <<>> /\ UNCHANGED <<todo, cleared, trades>>
    BY <1>12 DEF UpdateSystemState, Idle
  <2>2. P' = 0
    <3>1. Len(todo') = 0 /\ Room(e)' \in Int
      <4>1. Ledger.available \in Int
        BY <1>1, <1>3, LedgerType DEF TypeOK
      <4>2. snapshot'.available \in Int
        BY <1>12, <4>1 DEF UpdateSystemState
      <4> QED
        BY <1>1, <2>1, <4>2, EmptySeq DEF Room
    <3> QED
      BY <3>1 DEF P
  <2> QED
    BY <1>3, <1>4, <1>6, <1>11, <2>1, <2>2
<1>13. CASE RunPipeline
  <2>1. /\ todo = <<>> /\ cleared = <<>> /\ snapshot = Ledger /\ todo' = Symbols
        /\ UNCHANGED <<snapshot, cleared, trades>>
    BY <1>13 DEF RunPipeline, Idle
  <2>2. S = 0 /\ P = 0
    BY <1>2, <1>10, <2>1, CostsAdd DEF S
  <2>3. snapshot.available = Capital - TiedUp
    BY <2>1, LedgerType DEF TypeOK
  <2>4. P' = Len(Symbols) * Room(e)
    BY <1>7, <2>1 DEF P
  <2>5. CASE snapshot.available >= 0
    <3>1. Room(e) = 2 * (Capital - TiedUp) + e
      BY <2>3, <2>5 DEF Room
    <3>2. 2 * TiedUp + Len(Symbols) * (2 * (Capital - TiedUp) + e) <= K
      BY <1>1, <1>3, <2>3, <2>5, RoomForRun DEF K
    <3>3. 2 * TiedUp + P' <= K
      BY <2>4, <3>1, <3>2
    <3> QED
      BY <1>3, <1>6, <1>11, <2>1, <2>2, <3>3
  <2>6. CASE ~(snapshot.available >= 0)
    <3>1. P' = 0
      BY <1>1, <2>4, <2>6 DEF Room
    <3> QED
      BY <1>3, <1>4, <1>6, <1>11, <2>1, <2>2, <3>1
  <2> QED
    BY <2>5, <2>6
<1>14. CASE NoVerdict
  <2>1. todo # <<>> /\ todo' = Tail(todo) /\ UNCHANGED <<snapshot, cleared, trades>>
    BY <1>14 DEF NoVerdict
  <2> QED
    BY <1>3, <1>4, <1>6, <1>9, <1>11, <2>1
<1>15. CASE Judge
  <2>1. todo # <<>> /\ todo' = Tail(todo) /\ UNCHANGED <<snapshot, trades>>
    BY <1>15 DEF Judge
  <2>2. PICK direction \in {"long", "short"}, entry \in Entries, distance \in Distances :
          /\ direction = "long" => distance <= entry
          /\ LET signal == Levels(direction, entry, distance)
             IN  IF Validate(signal, snapshot) = "approved"
                 THEN cleared' = Append(cleared, [signal |-> signal,
                                                  size |-> PositionSize(signal, snapshot)])
                 ELSE cleared' = cleared
    BY <1>15 DEF Judge
  <2> DEFINE signal == Levels(direction, entry, distance)
             approval == [signal |-> signal, size |-> PositionSize(signal, snapshot)]
  <2>3. entry \in Nat /\ distance \in Nat /\ entry <= e
    BY PipelineAssumption
  <2>4. CASE Validate(signal, snapshot) = "approved"
    <3>1. signal \in Signals /\ signal \in AnySignals /\ signal.entry_price = entry
      BY <2>2, <2>3, <2>4, ApprovedIsSignal, LevelsType DEF Levels
    <3>2. RiskDistance(signal) \in Nat \ {0}
      BY <2>3, <2>4, LevelsType, ApprovalNeedsRoom
    <3>3. cleared' = Append(cleared, approval)
      BY <2>2, <2>4
    <3>4. Validate(signal, snapshot) = "approved"
      BY <2>4
    <3> HIDE DEF signal
    <3>5. PositionSize(signal, snapshot) \in Nat
      BY <1>2, <3>2, SizeWithinShare
    <3>6. approval \in Approvals /\ Cost(approval) = PositionSize(signal, snapshot) * signal.entry_price
      BY <3>1, <3>5 DEF Approvals, Cost
    <3>7. /\ snapshot.available >= 0
          /\ 2 * (PositionSize(signal, snapshot) * signal.entry_price) <= 2 * snapshot.available + e
      BY <1>1, <1>2, <2>3, <3>1, <3>2, <3>4, Affordable
    <3>8. 2 * Cost(approval) <= Room(e)
      BY <3>6, <3>7 DEF Room
    <3> HIDE DEF approval
    <3>9. S' = S + Cost(approval) /\ Cost(approval) \in Nat
      BY <3>3, <3>6, CostsStep DEF S
    <3>10. P = P' + Room(e) /\ P' \in Nat /\ TiedUp' = TiedUp
      BY <1>9, <1>11, <2>1
    <3>11. Cost(approval) \in Nat /\ S' \in Nat
      BY <1>3, <3>9
    <3> QED
      BY <1>3, <1>4, <3>8, <3>9, <3>10, <3>11
  <2>5. CASE Validate(signal, snapshot) # "approved"
    <3>1. cleared' = cleared
      BY <2>2, <2>5
    <3> QED
      BY <1>3, <1>4, <1>6, <1>9, <1>11, <2>1, <3>1
  <2> QED
    BY <2>4, <2>5
<1>16. CASE Execute
  <2>1. /\ cleared # <<>> /\ cleared' = Tail(cleared) /\ UNCHANGED <<snapshot, todo>>
        /\ trades' = Append(trades, Cost(Head(cleared)))
    BY <1>16 DEF Execute, Cost
  <2>2. S = S' + Cost(Head(cleared)) /\ Cost(Head(cleared)) \in Nat /\ S' \in Nat
    BY <2>1, CostsStep DEF S
  <2>3. SumFunction(Append(trades, Cost(Head(cleared)))) = SumFunction(trades) + Cost(Head(cleared))
    BY <1>2, <2>2, SumOfAppend
  <2>4. TiedUp' = TiedUp + Cost(Head(cleared))
    BY <1>5, <2>1, <2>3, Zenon DEF TiedUp
  <2>5. P' = P
    BY <1>8, <2>1
  <2> QED
    BY <1>3, <1>4, <2>2, <2>4, <2>5
<1>17. CASE Cancel
  <2>1. cleared # <<>> /\ cleared' = Tail(cleared) /\ UNCHANGED <<snapshot, todo, trades>>
    BY <1>17 DEF Cancel
  <2>2. S = S' + Cost(Head(cleared)) /\ Cost(Head(cleared)) \in Nat /\ S' \in Nat
    BY <2>1, CostsStep DEF S
  <2>3. P' = P /\ TiedUp' = TiedUp
    BY <1>8, <1>11, <2>1
  <2>4. S' <= S
    BY <2>2
  <2>5. 2 * TiedUp + 2 * S' + P <= K
    <3>1. \A t, s, s1, p, k \in Int : s1 <= s /\ 2 * t + 2 * s + p <= k
                                  => 2 * t + 2 * s1 + p <= k
      OBVIOUS
    <3>2. TiedUp \in Int /\ S \in Int /\ S' \in Int /\ P \in Int /\ K \in Int
      BY <1>3, <2>2
    <3> QED
      BY <1>4, <2>4, <3>1, <3>2, Zenon
  <2> QED
    BY <2>3, <2>5
<1>18. CASE PositionCloses
  <2>1. PICK i \in DOMAIN trades : trades' = RemoveAt(trades, i)
    BY <1>18 DEF PositionCloses
  <2>2. UNCHANGED <<snapshot, todo, cleared>>
    BY <1>18 DEF PositionCloses
  <2>3. SumFunction(trades') <= SumFunction(trades) /\ trades' \in Seq(Nat)
    BY <1>2, <2>1, CostLeaves
  <2>4. TiedUp' <= TiedUp /\ TiedUp' \in Nat
    <3>1. trades' \in Seq(Int)
      BY <2>3
    <3>2. SumFunction(trades') \in Nat
      BY <2>3, <3>1, SumOfSequence
    <3> QED
      BY <1>5, <2>3, <3>2 DEF TiedUp
  <2>5. P' = P /\ S' = S
    BY <1>6, <1>8, <2>2
  <2>6. 2 * TiedUp' + 2 * S + P <= K
    <3>1. \A t, t1, s, p, k \in Int : t1 <= t /\ 2 * t + 2 * s + p <= k
                                  => 2 * t1 + 2 * s + p <= k
      OBVIOUS
    <3>2. TiedUp \in Int /\ TiedUp' \in Int /\ S \in Int /\ P \in Int /\ K \in Int
      BY <1>3, <2>4
    <3> QED
      BY <1>4, <2>4, <3>1, <3>2, Zenon
  <2> QED
    BY <2>5, <2>6
<1>19. CASE PnlMoves \/ ManualReset \/ UNCHANGED vars
  <2>1. UNCHANGED <<snapshot, todo, cleared, trades>>
    BY <1>19 DEF PnlMoves, ManualReset, vars
  <2> QED
    BY <1>4, <1>6, <1>8, <1>11, <2>1
<1> QED
  BY <1>12, <1>13, <1>14, <1>15, <1>16, <1>17, <1>18, <1>19 DEF Next

\* However runs overlap with decisions and closings, open trades never tie up more
\* than the capital once per symbol, and half a lot each (risk.py:144-145), whatever
\* the prices.
THEOREM MoneyStaysBounded == Spec => []CommitmentBounded
<1>1. Init => TypeOK /\ CommitInv
  <2> SUFFICES ASSUME Init PROVE CommitInv
    BY TypesInit
  <2>1. TypeOK /\ trades = <<>> /\ cleared = <<>> /\ todo = <<>> /\ snapshot = Ledger
    BY TypesInit DEF Init
  <2>2. TiedUp = 0
    BY <2>1, SumOfSequence, EmptySeq DEF TiedUp
  <2>3. SumFunction(Costs) = 0 /\ Len(todo) = 0
    BY <2>1, CostsAdd, EmptySeq DEF TypeOK
  <2>4. Len(Symbols) \in Nat /\ Capital \in Nat
    BY PipelineAssumption
  <2>5. ASSUME NEW e \in Entries
        PROVE  CommitFor(e)
    <3>1. e \in Nat
      BY PipelineAssumption
    <3>2. snapshot.available \in Int
      BY <2>1 DEF TypeOK, SystemStates
    <3>3. Room(e) \in Int
      BY <3>1, <3>2 DEF Room
    <3>4. Len(Symbols) * (2 * Capital + e) >= 0
      BY <2>4, <3>1
    <3> QED
      BY <2>2, <2>3, <3>3, <3>4 DEF CommitFor
  <2> QED
    BY <2>5 DEF CommitInv
<1>2. TypeOK /\ CommitInv /\ [Next]_vars => (TypeOK /\ CommitInv)'
  BY TypesStep, CommitStep DEF CommitInv
<1>3. TypeOK /\ CommitInv => CommitmentBounded
  <2> SUFFICES ASSUME TypeOK, NEW e \in Entries, CommitFor(e)
               PROVE  2 * TiedUp <= Len(Symbols) * (2 * Capital + e)
    BY DEF CommitInv, CommitmentBounded
  <2>1. SumFunction(Costs) \in Nat /\ Len(todo) \in Nat
    BY CostsAdd, LenProperties DEF TypeOK
  <2>2. Room(e) \in Nat
    BY PipelineAssumption DEF Room, TypeOK, SystemStates
  <2>3. TiedUp \in Nat
    BY LedgerType DEF TypeOK
  <2>4. Len(todo) * Room(e) \in Nat
    BY <2>1, <2>2
  <2>5. Len(Symbols) * (2 * Capital + e) \in Int
    BY PipelineAssumption
  <2> QED
    BY <2>1, <2>3, <2>4, <2>5 DEF CommitFor
<1> QED
  BY <1>1, <1>2, <1>3, PTL DEF Spec

=============================================================================
