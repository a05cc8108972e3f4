--------------------------- MODULE PurgedCVProofs ---------------------------
(***************************************************************************)
(* Proofs about PurgedCV, for every grid of bars, every set of events and  *)
(* every recipe: the purge is exact.                                       *)
(***************************************************************************)
EXTENDS PurgedCV, DataFacts, TLAPS

-----------------------------------------------------------------------------
(* The inductive invariant, in parts.                                      *)

\* What split() is called with.
InputInv ==
  /\ t0 \in Seq(Nat \ {0}) /\ t1 \in Seq(Nat \ {0}) /\ Len(t0) = Len(t1)
  /\ \A i, j \in Events : i < j => t0[i] < t0[j]
  /\ \A i \in Events : t0[i] <= t1[i]
  /\ pct \in 0 .. 99
  /\ groups \in Nat \ {0}

\* The row of test_times for a group.
Row(g) == [start |-> BlockStart(g), end |-> Embargoed(BlockEnd(g))]

Usable(c) == c \subseteq 0 .. groups - 1 /\ \A g \in c : Group(g) # {}

\* What is kept overlaps no block but those still to be purged, and what is not
\* kept overlaps some block.
Purged(c, kept, left) ==
  /\ kept \subseteq Events /\ left \subseteq {Row(g) : g \in c}
  /\ \A i \in kept, g \in c : Row(g) \in left \/ ~Overlaps(i, Row(g))
  /\ \A i \in Events \ kept : \E g \in c : Overlaps(i, Row(g))

FoldInv(fold) == Usable(fold.combo) /\ Purged(fold.combo, fold.train, {})
                 /\ fold.test = Tested(fold.combo)

PurgeInv ==
  /\ InputInv
  /\ ahead \subseteq SUBSET (0 .. groups - 1)
  /\ pc \in {"purging", "scoring"} => Usable(combo) /\ Purged(combo, trn, rows)
  /\ pc = "scoring" => rows = {}
  /\ DOMAIN folds = 1 .. Len(folds) /\ Len(folds) \in Nat
  /\ \A k \in DOMAIN folds : FoldInv(folds[k])

-----------------------------------------------------------------------------
(* The grid.                                                               *)

\* A later event starts no earlier.
LEMMA Ascending ==
  ASSUME InputInv, NEW i \in Events, NEW j \in Events, i <= j
  PROVE  t0[i] <= t0[j]
<1>1. t0[i] \in Nat /\ t0[j] \in Nat
  BY DEF InputInv, Events
<1>2. CASE i = j
  BY <1>1, <1>2
<1>3. CASE i # j
  <2>1. i < j
    BY <1>3 DEF InputInv, Events
  <2> QED
    BY <1>1, <2>1 DEF InputInv
<1> QED
  BY <1>2, <1>3

\* The embargo is a whole number of events.
LEMMA StepNat == ASSUME InputInv PROVE Step \in Nat
<1>1. Len(t0) \in Nat /\ pct \in Nat
  BY DEF InputInv
<1>2. \A a, b \in Nat : a * b \in Nat
  BY SMT
<1>3. \A a \in Nat : a \div 100 \in Nat
  BY SMT
<1> QED
  BY <1>1, <1>2, <1>3 DEF Step

\* np.array_split cuts the events into groups that lie within the list.
LEMMA GroupsInside ==
  ASSUME InputInv, NEW g \in 0 .. groups - 1
  PROVE  /\ Cut(g) \in Nat /\ Cut(g + 1) \in Nat
         /\ Group(g) \subseteq Events
<1> DEFINE n == Len(t0)
           size == n \div groups
           rest == n % groups
<1>1. n \in Nat /\ groups \in Nat \ {0} /\ Events = 1 .. n
  BY DEF InputInv, Events
<1>2. size \in Nat /\ rest \in Nat /\ n = groups * size + rest
  <2> HIDE DEF n
  <2>1. n \div groups \in Nat /\ n % groups \in Nat
    BY <1>1, SMT
  <2>2. n = groups * (n \div groups) + (n % groups)
    BY <1>1, SMT
  <2> QED
    BY <2>1, <2>2
<1>3. Cut(g) = g * size + Lesser(g, rest) /\ Cut(g + 1) = (g + 1) * size + Lesser(g + 1, rest)
  BY DEF Cut
<1> HIDE DEF n, size, rest
<1>4. g * size \in Nat /\ (g + 1) * size \in Nat /\ (g + 1) * size <= groups * size
  BY <1>1, <1>2, SMT
<1>5. Lesser(g, rest) \in Nat /\ Lesser(g + 1, rest) \in Nat /\ Lesser(g + 1, rest) <= rest
  BY <1>1, <1>2 DEF Lesser
<1>6. Cut(g) \in Nat /\ Cut(g + 1) \in Nat /\ Cut(g + 1) <= n
  <2>1. groups * size \in Nat
    BY <1>1, <1>2, SMT
  <2> QED
    BY <1>1, <1>2, <1>3, <1>4, <1>5, <2>1
<1> QED
  BY <1>1, <1>6 DEF Group

\* The end of a block is the latest end of its events.
LEMMA LatestEnd ==
  ASSUME InputInv, NEW g \in 0 .. groups - 1, Group(g) # {}
  PROVE  /\ BlockEnd(g) \in Nat \ {0}
         /\ \A i \in Group(g) : t1[i] <= BlockEnd(g)
<1> DEFINE Until(i) == {j \in Group(g) : t1[j] >= t1[i]}
           F == {Until(i) : i \in Group(g)}
<1>1. Group(g) \subseteq Events /\ IsFiniteSet(Group(g))
  <2>1. Cut(g) + 1 \in Int /\ Cut(g + 1) \in Int
    BY GroupsInside
  <2> QED
    BY <2>1, GroupsInside, FS_Interval DEF Group
<1>2. \A i \in Group(g) : t1[i] \in Nat \ {0}
  BY <1>1 DEF InputInv, Events
<1>3. PICK A \in F : \A B \in F : B \subseteq A => B = A
  <2>1. F \subseteq SUBSET Group(g) /\ F # {}
    OBVIOUS
  <2> HIDE DEF F
  <2> QED
    BY <1>1, <2>1, MinimalSubset
<1>4. PICK m \in Group(g) : A = Until(m)
  OBVIOUS
<1>5. \A i \in Group(g) : t1[i] <= t1[m]
  <2> SUFFICES ASSUME NEW i \in Group(g), ~(t1[i] <= t1[m])
               PROVE  FALSE
    OBVIOUS
  <2>1. t1[i] >= t1[m] /\ ~(t1[m] >= t1[i])
    BY <1>2
  <2>2. Until(i) \subseteq Until(m)
    BY <1>2, <2>1
  <2>3. m \in Until(m) /\ m \notin Until(i)
    BY <1>2, <2>1
  <2> QED
    BY <1>3, <1>4, <2>2, <2>3
<1>6. \E end \in {t1[i] : i \in Group(g)} : \A i \in Group(g) : t1[i] <= end
  BY <1>5
<1> HIDE DEF Until, F
<1>7. /\ BlockEnd(g) \in {t1[i] : i \in Group(g)}
      /\ \A i \in Group(g) : t1[i] <= BlockEnd(g)
  BY <1>6 DEF BlockEnd
<1> QED
  BY <1>2, <1>7

\* What the embargo makes of an end at which event p starts: a point Step events
\* on, or the last event.
LEMMA EmbargoFound ==
  ASSUME InputInv, NEW p \in Events
  PROVE  /\ Lesser(p + Step, Len(t0)) \in Events
         /\ Lesser(p + Step, Len(t0)) >= p
         /\ Embargoed(t0[p]) = t0[Lesser(p + Step, Len(t0))]
<1> DEFINE at == {q \in Events : t0[q] = t0[p]}
<1>1. Events = 1 .. Len(t0) /\ Len(t0) \in Nat /\ Step \in Nat
  BY StepNat DEF InputInv, Events
<1>2. at = {p}
  <2> SUFFICES ASSUME NEW q \in Events, t0[q] = t0[p], q # p
               PROVE  FALSE
    OBVIOUS
  <2>1. q < p \/ p < q
    BY <1>1
  <2>2. t0[q] < t0[p] \/ t0[p] < t0[q]
    BY <2>1 DEF InputInv
  <2>3. t0[p] \in Nat
    BY DEF InputInv, Events
  <2> QED
    BY <2>2, <2>3
<1>3. (CHOOSE q \in at : TRUE) = p
  BY <1>2
<1> QED
  BY <1>1, <1>2, <1>3 DEF Embargoed, Lesser

\* A block whose end is not found is the row of no event.
LEMMA EndNotFound ==
  ASSUME NEW g, NEW i, Overlaps(i, Row(g))
  PROVE  \E p \in Events : t0[p] = BlockEnd(g)
BY DEF Overlaps, Row, Embargoed

-----------------------------------------------------------------------------
(* What a purged fold is worth.                                            *)

\* An event that does not overlap the embargoed span of a block whose end is
\* found does not overlap any event of the block.
LEMMA Separated ==
  ASSUME InputInv, NEW c, Usable(c), NEW g \in c,
         NEW p \in Events, t0[p] = BlockEnd(g),
         NEW i \in Events, ~Overlaps(i, Row(g)),
         NEW j \in Group(g)
  PROVE  t1[i] < t0[j] \/ t1[j] < t0[i]
<1>1. g \in 0 .. groups - 1 /\ Group(g) # {}
  BY DEF Usable
<1>2. j \in Events /\ Cut(g) + 1 \in Events /\ Cut(g) + 1 <= j
  <2>1. Cut(g) \in Nat /\ Cut(g + 1) \in Nat /\ Group(g) \subseteq Events
    BY <1>1, GroupsInside
  <2>2. Cut(g) + 1 \in Group(g) /\ Cut(g) + 1 <= j
    BY <2>1 DEF Group
  <2> QED
    BY <2>1, <2>2
<1>3. BlockStart(g) <= t0[j] /\ BlockStart(g) \in Nat
  BY <1>2, Ascending DEF BlockStart, InputInv, Events
<1>4. t1[j] <= Embargoed(BlockEnd(g)) /\ Embargoed(BlockEnd(g)) \in Nat \ {0}
  <2> DEFINE q == Lesser(p + Step, Len(t0))
  <2>1. q \in Events /\ q >= p /\ Embargoed(t0[p]) = t0[q]
    BY EmbargoFound
  <2> HIDE DEF q
  <2>2. t0[p] <= t0[q]
    BY <2>1, Ascending DEF Events, InputInv
  <2>3. t1[j] <= BlockEnd(g) /\ BlockEnd(g) \in Nat
    BY <1>1, LatestEnd
  <2>4. t0[q] \in Nat \ {0} /\ t1[j] \in Nat
    BY <1>2, <2>1 DEF Events, InputInv
  <2> QED
    BY <2>1, <2>2, <2>3, <2>4
<1>5. t0[i] \in Nat /\ t1[i] \in Nat /\ t0[j] \in Nat /\ t1[j] \in Nat
  BY <1>2 DEF Events, InputInv
<1> QED
  BY <1>3, <1>4, <1>5 DEF Overlaps, Row, NaT

\* The events up to i that start after event p are counted by their positions.
LEMMA CountBetween ==
  ASSUME InputInv, NEW g, NEW p \in Events, t0[p] = BlockEnd(g), NEW i \in Events
  PROVE  Cardinality(Between(g, i)) = IF p + 1 > i THEN 0 ELSE i - p
<1>1. Events = 1 .. Len(t0) /\ Len(t0) \in Nat
  BY DEF InputInv, Events
<1>2. Between(g, i) = p + 1 .. i
  <2>1. ASSUME NEW j \in Events
        PROVE  BlockEnd(g) < t0[j] <=> p < j
    <3>1. t0[p] \in Nat /\ t0[j] \in Nat
      BY DEF InputInv, Events
    <3>2. p < j => t0[p] < t0[j]
      BY DEF InputInv
    <3>3. j <= p => t0[j] <= t0[p]
      BY Ascending
    <3> QED
      BY <1>1, <3>1, <3>2, <3>3
  <2>2. Between(g, i) = {j \in Events : p < j /\ j <= i}
    BY <2>1 DEF Between
  <2> QED
    BY <1>1, <2>2
<1>3. p \in Int /\ i \in Int /\ p + 1 \in Int
  BY <1>1
<1>4. Cardinality(p + 1 .. i) = IF p + 1 > i THEN 0 ELSE i - (p + 1) + 1
  BY <1>3, FS_Interval
<1> QED
  BY <1>2, <1>3, <1>4

\* A block starts before it ends.
LEMMA BlockForward ==
  ASSUME InputInv, NEW c, Usable(c), NEW g \in c
  PROVE  BlockStart(g) \in Nat /\ BlockEnd(g) \in Nat /\ BlockStart(g) <= BlockEnd(g)
<1>1. g \in 0 .. groups - 1 /\ Group(g) # {}
  BY DEF Usable
<1>2. Cut(g) + 1 \in Group(g) /\ Cut(g) + 1 \in Events
  <2>1. Cut(g) \in Nat /\ Cut(g + 1) \in Nat /\ Group(g) \subseteq Events
    BY <1>1, GroupsInside
  <2> QED
    BY <1>1, <2>1 DEF Group
<1>3. t0[Cut(g) + 1] \in Nat /\ t1[Cut(g) + 1] \in Nat /\ t0[Cut(g) + 1] <= t1[Cut(g) + 1]
  BY <1>2 DEF InputInv, Events
<1>4. t1[Cut(g) + 1] <= BlockEnd(g) /\ BlockEnd(g) \in Nat
  BY <1>1, <1>2, LatestEnd
<1> QED
  BY <1>3, <1>4 DEF BlockStart

\* What is kept after a block has the embargo between them.
LEMMA KeptFarEnough ==
  ASSUME InputInv, NEW c, Usable(c), NEW g \in c,
         NEW p \in Events, t0[p] = BlockEnd(g),
         NEW i \in Events, ~Overlaps(i, Row(g)), BlockEnd(g) < t0[i]
  PROVE  Cardinality(Between(g, i)) > Step
<1> DEFINE q == Lesser(p + Step, Len(t0))
<1>1. Events = 1 .. Len(t0) /\ Len(t0) \in Nat /\ Step \in Nat
  BY StepNat DEF InputInv, Events
<1>2. q \in Events /\ Embargoed(BlockEnd(g)) = t0[q]
  BY EmbargoFound
<1>3. q < i
  <2> HIDE DEF q
  <2>1. t0[q] \in Nat \ {0} /\ t0[i] \in Nat /\ t1[i] \in Nat
    BY <1>2 DEF InputInv, Events
  <2>2. BlockStart(g) <= t0[i]
    BY <2>1, BlockForward
  <2>3. t0[q] < t0[i]
    BY <1>2, <2>1, <2>2 DEF Overlaps, Row, NaT
  <2>4. i <= q => t0[i] <= t0[q]
    BY <1>2, Ascending
  <2> QED
    BY <1>1, <1>2, <2>1, <2>3, <2>4
<1>4. p + Step < i
  BY <1>1, <1>3 DEF Lesser
<1>5. Cardinality(Between(g, i)) = IF p + 1 > i THEN 0 ELSE i - p
  BY CountBetween
<1> QED
  BY <1>1, <1>4, <1>5

\* What overlaps the embargoed span of a block had to go.
LEMMA DroppedForCause ==
  ASSUME InputInv, NEW c, Usable(c), NEW g \in c, NEW i \in Events, Overlaps(i, Row(g))
  PROVE  /\ t1[i] >= BlockStart(g)
         /\ t0[i] <= BlockEnd(g) \/ Cardinality(Between(g, i)) <= Step
<1>1. PICK p \in Events : t0[p] = BlockEnd(g)
  BY EndNotFound
<1> DEFINE q == Lesser(p + Step, Len(t0))
<1>2. Events = 1 .. Len(t0) /\ Len(t0) \in Nat /\ Step \in Nat
  BY StepNat DEF InputInv, Events
<1>3. q \in Events /\ q >= p /\ Embargoed(BlockEnd(g)) = t0[q]
  BY <1>1, EmbargoFound
<1>4. q <= p + Step
  BY <1>2 DEF Lesser
<1> HIDE DEF q
<1>5. t0[i] \in Nat /\ t1[i] \in Nat /\ t0[i] <= t1[i] /\ t0[q] \in Nat /\ t0[p] <= t0[q]
  BY <1>3, Ascending DEF InputInv, Events
<1>6. BlockStart(g) \in Nat /\ BlockEnd(g) \in Nat /\ BlockStart(g) <= BlockEnd(g)
  BY BlockForward
<1>7. t1[i] >= BlockStart(g) /\ t0[i] <= t0[q]
  BY <1>1, <1>3, <1>5, <1>6 DEF Overlaps, Row
<1>8. i <= q
  <2>1. q < i => t0[q] < t0[i]
    BY <1>3 DEF InputInv
  <2> QED
    BY <1>2, <1>3, <1>5, <1>7, <2>1
<1>9. Cardinality(Between(g, i)) = IF p + 1 > i THEN 0 ELSE i - p
  BY <1>1, CountBetween
<1> QED
  BY <1>2, <1>3, <1>4, <1>7, <1>8, <1>9

-----------------------------------------------------------------------------
(* The invariant holds.                                                    *)

LEMMA PurgeInit == Init => PurgeInv
<1> SUFFICES ASSUME Init PROVE PurgeInv
  OBVIOUS
<1>1. InputInv
  <2>1. PICK n \in 1 .. MaxEvents : t0 \in [1 .. n -> Times]
    BY DEF Init
  <2>2. Events = 1 .. n /\ n \in Nat
    BY <2>1, PurgedCVAssumption DEF Events
  <2>3. t1 \in [1 .. n -> Times]
    BY <2>2 DEF Init
  <2>4. t0 \in Seq(Nat \ {0}) /\ t1 \in Seq(Nat \ {0}) /\ Len(t0) = Len(t1)
    <3>1. t0 \in [1 .. n -> Nat \ {0}] /\ t1 \in [1 .. n -> Nat \ {0}]
      BY <2>1, <2>3, PurgedCVAssumption
    <3>2. t0 \in Seq(Nat \ {0}) /\ t1 \in Seq(Nat \ {0})
      BY <2>2, <3>1
    <3>3. DOMAIN t0 = 1 .. n /\ DOMAIN t1 = 1 .. n
      BY <3>1
    <3>4. Len(t0) = n /\ Len(t1) = n
      BY <2>2, <3>2, <3>3
    <3> QED
      BY <3>2, <3>4
  <2>5. pct \in 0 .. 99 /\ groups \in Nat \ {0}
    <3>1. PICK recipe \in Recipes : groups = recipe[1]
      BY DEF Init
    <3>2. groups \in Nat /\ groups >= 2
      BY <3>1, PurgedCVAssumption
    <3> QED
      BY <3>2, PurgedCVAssumption DEF Init
  <2> QED
    BY <2>4, <2>5 DEF Init, InputInv
<1>2. ahead \subseteq SUBSET (0 .. groups - 1)
  BY DEF Init, Combinations, kSubset
<1> QED
  BY <1>1, <1>2 DEF Init, PurgeInv

\* The input never changes, and so neither do the blocks.
LEMMA InputStays ==
  ASSUME UNCHANGED input
  PROVE  /\ InputInv => InputInv'
         /\ \A c : Usable(c) => Usable(c)'
         /\ \A c, kept, left : Purged(c, kept, left) => Purged(c, kept, left)'
         /\ \A c : Tested(c)' = Tested(c)
<1>1. t0' = t0 /\ t1' = t1 /\ pct' = pct /\ groups' = groups
  BY DEF input
<1>2. InputInv => InputInv'
  BY <1>1 DEF InputInv, Events
<1>3. \A g : Cut(g)' = Cut(g)
  BY <1>1 DEF Cut
<1>4. \A g : Group(g)' = Group(g)
  BY <1>3 DEF Group
<1>5. \A g : BlockStart(g)' = BlockStart(g)
  BY <1>1, <1>3 DEF BlockStart
<1>6. \A g : BlockEnd(g)' = BlockEnd(g)
  BY <1>1, <1>4, Zenon DEF BlockEnd
<1>7. \A end : Embargoed(end)' = Embargoed(end)
  <2>1. Step' = Step
    BY <1>1 DEF Step
  <2>2. Events' = Events
    BY <1>1 DEF Events
  <2> QED
    BY <1>1, <2>1, <2>2 DEF Embargoed
<1>8. \A g : Row(g)' = Row(g)
  BY <1>5, <1>6, <1>7 DEF Row
<1>9. \A i, row : Overlaps(i, row)' = Overlaps(i, row)
  BY <1>1, Zenon DEF Overlaps
<1>10. \A c : Usable(c) => Usable(c)'
  BY <1>1, <1>4 DEF Usable
<1>11. \A c, kept, left : Purged(c, kept, left) => Purged(c, kept, left)'
  BY <1>1, <1>8, <1>9 DEF Purged, Events
<1>12. \A c : Tested(c)' = Tested(c)
  BY <1>4 DEF Tested
<1> QED
  BY <1>2, <1>10, <1>11, <1>12

LEMMA FoldStays ==
  ASSUME UNCHANGED input
  PROVE  \A fold : FoldInv(fold) => FoldInv(fold)'
BY InputStays DEF FoldInv

LEMMA PurgeStep == PurgeInv /\ [Next]_vars => PurgeInv'
<1> SUFFICES ASSUME PurgeInv, [Next]_vars
             PROVE  PurgeInv'
  OBVIOUS
<1>1. UNCHANGED input
  BY DEF Next, vars, NextFold, EmptyGroup, PurgeBlock, Yield, Score, FitFails
<1>2. InputInv'
  BY <1>1, InputStays DEF PurgeInv
<1>3. groups' = groups
  BY <1>1 DEF input
\* Every action but Score leaves the folds alone.
<1>4. ASSUME UNCHANGED folds
      PROVE  /\ (DOMAIN folds = 1 .. Len(folds) /\ Len(folds) \in Nat)'
             /\ (\A k \in DOMAIN folds : FoldInv(folds[k]))'
  BY <1>1, <1>4, FoldStays DEF PurgeInv
<1>5. CASE NextFold
  <2>1. PICK c \in ahead :
          /\ \A g \in c : Group(g) # {}
          /\ combo' = c
          /\ rows' = {Row(g) : g \in c}
    BY <1>5 DEF NextFold, Row
  <2>2. ahead' = ahead \ {combo'} /\ trn' = Events /\ pc' = "purging" /\ UNCHANGED folds
    BY <1>5 DEF NextFold
  <2>3. Usable(c)
    BY <2>1 DEF PurgeInv, Usable
  <2>4. Purged(c, Events, {Row(g) : g \in c})
    BY DEF Purged
  <2>5. Usable(combo)' /\ Purged(combo, trn, rows)'
    BY <1>1, <2>1, <2>2, <2>3, <2>4, InputStays
  <2> QED
    BY <1>2, <1>3, <1>4, <2>2, <2>5 DEF PurgeInv
<1>6. CASE EmptyGroup
  <2>1. pc' = "raised" /\ UNCHANGED <<ahead, folds>>
    BY <1>6 DEF EmptyGroup
  <2> QED
    BY <1>2, <1>3, <1>4, <2>1 DEF PurgeInv
<1>7. CASE PurgeBlock
  <2>1. PICK row \in rows :
          /\ trn' = {i \in trn : ~Overlaps(i, row)}
          /\ rows' = rows \ {row}
    BY <1>7 DEF PurgeBlock
  <2>2. pc = "purging" /\ pc' = "purging" /\ UNCHANGED <<ahead, combo, folds>>
    BY <1>7 DEF PurgeBlock
  <2>3. Usable(combo) /\ Purged(combo, trn, rows)
    BY <2>2 DEF PurgeInv
  <2>4. Purged(combo, {i \in trn : ~Overlaps(i, row)}, rows \ {row})
    <3>1. PICK g \in combo : row = Row(g)
      BY <2>3 DEF Purged
    <3> QED
      BY <2>3, <3>1 DEF Purged
  <2>5. Usable(combo)' /\ Purged(combo, trn, rows)'
    BY <1>1, <2>1, <2>2, <2>3, <2>4, InputStays
  <2> QED
    BY <1>2, <1>3, <1>4, <2>2, <2>5 DEF PurgeInv
<1>8. CASE Yield
  <2>1. pc = "purging" /\ rows = {} /\ pc' = "scoring"
        /\ UNCHANGED <<ahead, combo, rows, trn, folds>>
    BY <1>8 DEF Yield
  <2>2. Usable(combo)' /\ Purged(combo, trn, rows)'
    BY <1>1, <2>1, InputStays DEF PurgeInv
  <2> QED
    BY <1>2, <1>3, <1>4, <2>1, <2>2 DEF PurgeInv
<1>9. CASE Score
  <2> DEFINE fold == [combo |-> combo, train |-> trn, test |-> Tested(combo)]
  <2>1. /\ pc = "scoring" /\ pc' \in {"done", "next"}
        /\ folds' = Append(folds, fold) /\ UNCHANGED ahead
    BY <1>9 DEF Score
  <2>2. FoldInv(fold)
    BY <2>1 DEF PurgeInv, FoldInv
  <2> HIDE DEF fold
  <2>3. /\ DOMAIN folds' = 1 .. Len(folds') /\ Len(folds') \in Nat
        /\ \A k \in DOMAIN folds' : FoldInv(folds'[k])
    BY <2>1, <2>2 DEF PurgeInv
  <2> QED
    BY <1>1, <1>2, <1>3, <2>1, <2>3, FoldStays DEF PurgeInv
<1>10. CASE FitFails
  <2>1. pc' = "raised" /\ UNCHANGED <<ahead, folds>>
    BY <1>10 DEF FitFails
  <2> QED
    BY <1>2, <1>3, <1>4, <2>1 DEF PurgeInv
<1>11. CASE UNCHANGED vars
  <2>1. UNCHANGED <<pc, ahead, combo, rows, trn, folds>>
    BY <1>11 DEF vars
  <2>2. pc \in {"purging", "scoring"} => Usable(combo)' /\ Purged(combo, trn, rows)'
    BY <1>1, <2>1, InputStays DEF PurgeInv
  <2> QED
    BY <1>2, <1>3, <1>4, <2>1, <2>2 DEF PurgeInv
<1> QED
  BY <1>5, <1>6, <1>7, <1>8, <1>9, <1>10, <1>11 DEF Next

LEMMA PurgeInvariant == Spec => []PurgeInv
BY PurgeInit, PurgeStep, PTL DEF Spec

-----------------------------------------------------------------------------
(* Theorems.                                                               *)

\* However many blocks a fold tests, no event it trains on is open while a tested
\* one is, provided the blocks' ends are found (purge.py:131-138, 193-195).
THEOREM TrainingNeverLeaks == Spec => []NoLeak
<1>1. PurgeInv => NoLeak
  <2> SUFFICES ASSUME PurgeInv, NEW k \in DOMAIN folds, EndsFound(folds[k].combo),
                      NEW i \in folds[k].train, NEW j \in folds[k].test
               PROVE  t1[i] < t0[j] \/ t1[j] < t0[i]
    BY DEF NoLeak
  <2>1. InputInv /\ Usable(folds[k].combo) /\ Purged(folds[k].combo, folds[k].train, {})
        /\ folds[k].test = Tested(folds[k].combo)
    BY DEF PurgeInv, FoldInv
  <2>2. PICK g \in folds[k].combo : j \in Group(g)
    BY <2>1 DEF Tested
  <2>3. PICK p \in Events : t0[p] = BlockEnd(g)
    BY DEF EndsFound
  <2>4. i \in Events /\ ~Overlaps(i, Row(g))
    BY <2>1 DEF Purged
  <2> QED
    BY <2>1, <2>2, <2>3, <2>4, Separated
<1> QED
  BY <1>1, PurgeInvariant, PTL

\* No event within the embargo of a tested block is trained on (purge.py:75-86).
THEOREM EmbargoIsKept == Spec => []EmbargoHolds
<1>1. PurgeInv => EmbargoHolds
  <2> SUFFICES ASSUME PurgeInv, NEW k \in DOMAIN folds, EndsFound(folds[k].combo),
                      NEW i \in folds[k].train, NEW g \in folds[k].combo,
                      BlockEnd(g) < t0[i]
               PROVE  Cardinality(Between(g, i)) > Step
    BY DEF EmbargoHolds
  <2>1. InputInv /\ Usable(folds[k].combo) /\ Purged(folds[k].combo, folds[k].train, {})
    BY DEF PurgeInv, FoldInv
  <2>2. PICK p \in Events : t0[p] = BlockEnd(g)
    BY DEF EndsFound
  <2>3. i \in Events /\ ~Overlaps(i, Row(g))
    BY <2>1 DEF Purged
  <2> QED
    BY <2>1, <2>2, <2>3, KeptFarEnough
<1> QED
  BY <1>1, PurgeInvariant, PTL

\* Purging and embargo take nothing they need not take (purge.py:131-138,
\* 169-173); this holds whether or not the ends of the blocks are found.
THEOREM PurgeIsMinimal == Spec => []OnlyLeaksPurged
<1>1. PurgeInv => OnlyLeaksPurged
  <2> SUFFICES ASSUME PurgeInv, NEW k \in DOMAIN folds, NEW i \in Events \ folds[k].train
               PROVE  \E g \in folds[k].combo :
                        /\ t1[i] >= BlockStart(g)
                        /\ t0[i] <= BlockEnd(g) \/ Cardinality(Between(g, i)) <= Step
    BY DEF OnlyLeaksPurged
  <2>1. InputInv /\ Usable(folds[k].combo) /\ Purged(folds[k].combo, folds[k].train, {})
    BY DEF PurgeInv, FoldInv
  <2>2. PICK g \in folds[k].combo : Overlaps(i, Row(g))
    BY <2>1 DEF Purged
  <2> QED
    BY <2>1, <2>2, DroppedForCause
<1> QED
  BY <1>1, PurgeInvariant, PTL

\* Does the embargo's lookup find the end of block g?
Found(g) == \E p \in Events : t0[p] = BlockEnd(g)

\* The boundary of the finding about TestRowsExcluded, block by block: the rows of a
\* block whose end is found are not trained on; a fold in which no end is found, for
\* PurgedKFold the one of its only block, is trained on every event, its own test
\* rows included (purge.py:77-78, 131-138).
ExcludedWhenFound ==
  \A k \in DOMAIN folds :
    /\ \A g \in folds[k].combo : Found(g) => folds[k].train \intersect Group(g) = {}
    /\ (\A g \in folds[k].combo : ~Found(g)) => folds[k].train = Events

\* It is the lookup, and the lookup alone, that the exclusion of the test rows hangs
\* on, for every list of events and every recipe (splitters.py:135, cpcv.py:147).
THEOREM LookupDecides == Spec => []ExcludedWhenFound
<1>1. PurgeInv => ExcludedWhenFound
  <2> SUFFICES ASSUME PurgeInv, NEW k \in DOMAIN folds
               PROVE  /\ \A g \in folds[k].combo : Found(g) => folds[k].train \intersect Group(g) = {}
                      /\ (\A g \in folds[k].combo : ~Found(g)) => folds[k].train = Events
    BY DEF ExcludedWhenFound
  <2>1. InputInv /\ Usable(folds[k].combo) /\ Purged(folds[k].combo, folds[k].train, {})
    BY DEF PurgeInv, FoldInv
  <2>2. ASSUME NEW g \in folds[k].combo, Found(g), NEW i \in folds[k].train \intersect Group(g)
        PROVE  FALSE
    <3>1. PICK p \in Events : t0[p] = BlockEnd(g)
      BY <2>2 DEF Found
    <3>2. i \in Events /\ ~Overlaps(i, Row(g))
      BY <2>1, <2>2 DEF Purged
    <3>3. t1[i] < t0[i]
      BY <2>1, <2>2, <3>1, <3>2, Separated
    <3>4. t0[i] <= t1[i] /\ t0[i] \in Nat /\ t1[i] \in Nat
      BY <2>1, <3>2 DEF InputInv, Events
    <3> QED
      BY <3>3, <3>4
  <2>3. ASSUME \A g \in folds[k].combo : ~Found(g)
        PROVE  folds[k].train = Events
    <3>1. \A i, g : Overlaps(i, Row(g)) => Found(g)
      BY EndNotFound DEF Found
    <3> QED
      BY <2>1, <2>3, <3>1 DEF Purged
  <2> QED
    BY <2>2, <2>3
<1> QED
  BY <1>1, PurgeInvariant, PTL

-----------------------------------------------------------------------------
(* Types, and what the generator owes.                                     *)

\* Every combination of groups is yielded once: it is ahead, under way or scored.
Scored == {folds[k].combo : k \in DOMAIN folds}
UnderWay == IF pc \in {"purging", "scoring"} THEN {combo} ELSE {}

OwedInv ==
  /\ TypeOK /\ IsFiniteSet(rows)
  /\ ahead \union UnderWay \union Scored \subseteq Combinations(testGroups, groups)
  /\ pc # "raised" => Combinations(testGroups, groups) \subseteq ahead \union UnderWay \union Scored
  /\ ahead \intersect (UnderWay \union Scored) = {}
  /\ UnderWay \intersect Scored = {}
  /\ pc = "done" => ahead = {}

\* The choices of groups are finitely many, each of finitely many groups.
LEMMA CombinationsFinite ==
  ASSUME NEW n \in Nat, NEW k
  PROVE  /\ IsFiniteSet(0 .. n - 1) /\ Cardinality(0 .. n - 1) = n
         /\ IsFiniteSet(Combinations(k, n))
         /\ \A c \in Combinations(k, n) :
              c \in SUBSET (0 .. n - 1) /\ IsFiniteSet(c) /\ Cardinality(c) = k
<1>1. IsFiniteSet(0 .. n - 1) /\ Cardinality(0 .. n - 1) = n
  <2>1. n - 1 \in Int
    OBVIOUS
  <2>2. IsFiniteSet(0 .. n - 1)
        /\ Cardinality(0 .. n - 1) = IF 0 > n - 1 THEN 0 ELSE n - 1 - 0 + 1
    BY <2>1, FS_Interval
  <2> QED
    BY <2>2
<1>2. IsFiniteSet(SUBSET (0 .. n - 1))
  BY <1>1, FS_SUBSET
<1>3. Combinations(k, n) \in SUBSET (SUBSET (0 .. n - 1))
  BY DEF Combinations, kSubset
<1>4. \A c \in Combinations(k, n) : c \in SUBSET (0 .. n - 1) /\ Cardinality(c) = k
  BY DEF Combinations, kSubset
<1> QED
  BY <1>1, <1>2, <1>3, <1>4, FS_Subset

\* No group is in more combinations than another.
LEMMA NoGroupPreferred ==
  ASSUME NEW n \in Nat, NEW k, NEW g \in 0 .. n - 1, NEW h \in 0 .. n - 1
  PROVE  Cardinality({c \in Combinations(k, n) : g \in c})
           <= Cardinality({c \in Combinations(k, n) : h \in c})
<1> DEFINE C == Combinations(k, n)
           With(x) == {c \in C : x \in c}
           f == [c \in With(g) |-> IF h \in c THEN c ELSE (c \ {g}) \union {h}]
<1>1. ASSUME NEW c \in With(g)
      PROVE  f[c] \in With(h)
  <2>1. c \in SUBSET (0 .. n - 1) /\ IsFiniteSet(c) /\ Cardinality(c) = k /\ g \in c
    BY CombinationsFinite
  <2>2. CASE h \in c
    BY <2>2
  <2>3. CASE h \notin c
    <3>1. IsFiniteSet(c \ {g}) /\ Cardinality(c \ {g}) = k - 1 /\ Cardinality(c) \in Nat
      BY <2>1, FS_RemoveElement, FS_CardinalityType
    <3>2. Cardinality((c \ {g}) \union {h}) = k - 1 + 1
      BY <2>3, <3>1, FS_AddElement
    <3>3. (c \ {g}) \union {h} \in C
      BY <2>1, <3>1, <3>2 DEF Combinations, kSubset
    <3> QED
      BY <2>3, <3>3
  <2> QED
    BY <2>2, <2>3
<1>2. ASSUME NEW c \in With(g), NEW d \in With(g), f[c] = f[d]
      PROVE  c = d
  BY <1>2
<1>3. f \in Injection(With(g), With(h))
  BY <1>1, <1>2 DEF Injection, IsInjective
<1>4. IsFiniteSet(With(h))
  BY CombinationsFinite, FS_Subset
<1> HIDE DEF f
<1> QED
  BY <1>3, <1>4, FS_Injection

\* Each of n groups is in its share k of n of the combinations.
LEMMA EvenShare ==
  ASSUME NEW n \in Nat, NEW k \in Nat, NEW g \in 0 .. n - 1
  PROVE  n * Cardinality({c \in Combinations(k, n) : g \in c})
           = k * Cardinality(Combinations(k, n))
<1> DEFINE C == Combinations(k, n)
           S == 0 .. n - 1
           m == Cardinality({c \in C : g \in c})
           R == {pair \in S \X C : pair[1] \in pair[2]}
           Q == {pair \in C \X S : pair[2] \in pair[1]}
           p == [pair \in R |-> <<pair[2], pair[1]>>]
<1>1. IsFiniteSet(S) /\ Cardinality(S) = n /\ IsFiniteSet(C)
  BY CombinationsFinite
<1>2. \A h \in S : IsFiniteSet({c \in C : h \in c}) /\ Cardinality({c \in C : h \in c}) \in Nat
  BY <1>1, FS_Subset, FS_CardinalityType
<1>3. \A h \in S : Cardinality(Partners(R, C, h)) = m
  <2> SUFFICES ASSUME NEW h \in S
               PROVE  Cardinality(Partners(R, C, h)) = m
    OBVIOUS
  <2>1. Partners(R, C, h) = {c \in C : h \in c}
    BY DEF Partners
  <2>2. Cardinality({c \in C : h \in c}) <= m /\ m <= Cardinality({c \in C : h \in c})
    BY NoGroupPreferred
  <2>3. \A a, b \in Nat : a <= b /\ b <= a => a = b
    OBVIOUS
  <2>4. m \in Nat
    BY <1>2
  <2>5. Cardinality({c \in C : h \in c}) = m
    BY <1>2, <2>2, <2>3, <2>4, Zenon
  <2> QED
    BY <2>1, <2>5
<1>4. \A c \in C : Cardinality(Partners(Q, S, c)) = k
  <2> SUFFICES ASSUME NEW c \in C
               PROVE  Cardinality(Partners(Q, S, c)) = k
    OBVIOUS
  <2>1. c \in SUBSET S /\ Cardinality(c) = k
    BY CombinationsFinite
  <2>2. Partners(Q, S, c) = c
    BY <2>1 DEF Partners
  <2> QED
    BY <2>1, <2>2
<1>5. Image(p, R) = Q /\ \A x, y \in R : x # y => p[x] # p[y]
  <2>1. \A pair \in R : p[pair] \in Q
    OBVIOUS
  <2>2. \A pair \in Q : \E x \in R : p[x] = pair
    <3> SUFFICES ASSUME NEW pair \in Q
                 PROVE  \E x \in R : p[x] = pair
      OBVIOUS
    <3>1. <<pair[2], pair[1]>> \in R /\ p[<<pair[2], pair[1]>>] = pair
      OBVIOUS
    <3> QED
      BY <3>1
  <2>3. \A x, y \in R : x # y => p[x] # p[y]
    OBVIOUS
  <2> HIDE DEF R, Q, p
  <2> QED
    BY <2>1, <2>2, <2>3 DEF Image
<1>6. R \in SUBSET (S \X C) /\ Q \in SUBSET (C \X S) /\ m \in Nat
  BY <1>2
<1> HIDE DEF C, S, R, Q, p, m
<1>7. Cardinality(R) = m * n
  <2>1. Cardinality(R) = m * Cardinality(S)
    BY <1>1, <1>3, <1>6, PairsCount
  <2> QED
    BY <1>1, <2>1, Zenon
<1>8. Cardinality(Q) = k * Cardinality(C)
  BY <1>1, <1>4, <1>6, PairsCount
<1>9. IsFiniteSet(R)
  BY <1>1, <1>6, FS_Product, FS_Subset
<1>10. Cardinality(Q) = Cardinality(R)
  BY <1>5, <1>9, ImageSize
<1>11. n * m = m * n
  BY <1>6
<1>12. n * m = k * Cardinality(C)
  BY <1>7, <1>8, <1>10, <1>11, Zenon
<1> QED
  BY <1>12 DEF C, m

\* The cuts ascend from the first event to the last.
LEMMA CutsAscend ==
  ASSUME InputInv
  PROVE  /\ \A a \in 0 .. groups : Cut(a) \in Nat
         /\ \A a, b \in 0 .. groups : a <= b => Cut(a) <= Cut(b)
         /\ Cut(0) = 0 /\ Cut(groups) = Len(t0)
<1> DEFINE n == Len(t0)
           size == n \div groups
           rest == n % groups
<1>1. n \in Nat /\ groups \in Nat \ {0}
  BY DEF InputInv
<1>2. size \in Nat /\ rest \in 0 .. groups - 1 /\ n = groups * size + rest
  <2> HIDE DEF n
  <2>1. n \div groups \in Int /\ n % groups \in 0 .. groups - 1
        /\ n = groups * (n \div groups) + (n % groups)
    BY <1>1, Division
  <2>2. n \div groups \in Nat
    BY <1>1, SMT
  <2> QED
    BY <2>1, <2>2
<1>3. \A g : Cut(g) = g * size + Lesser(g, rest)
  BY DEF Cut
<1> HIDE DEF n, size, rest
<1>4. \A a \in 0 .. groups : a * size \in Nat /\ Lesser(a, rest) \in Nat
  <2>1. \A a \in Nat : a * size \in Nat
    BY <1>2
  <2> QED
    BY <1>1, <1>2, <2>1 DEF Lesser
<1>5. ASSUME NEW a \in 0 .. groups, NEW b \in 0 .. groups, a <= b
      PROVE  a * size <= b * size /\ Lesser(a, rest) <= Lesser(b, rest)
  <2>1. b - a \in Nat
    BY <1>1, <1>5
  <2>2. (b - a) * size \in Nat /\ (b - a) * size = b * size - a * size
    BY <1>1, <1>2, <2>1
  <2>3. Lesser(a, rest) <= Lesser(b, rest)
    BY <1>1, <1>2, <1>5 DEF Lesser
  <2> QED
    BY <1>4, <2>2, <2>3
<1>6. Cut(0) = 0 /\ Cut(groups) = n
  <2>1. 0 * size = 0 /\ Lesser(0, rest) = 0 /\ Lesser(groups, rest) = rest
    BY <1>1, <1>2 DEF Lesser
  <2> QED
    BY <1>2, <1>3, <2>1
<1>7. \A a \in 0 .. groups : Cut(a) \in Nat
  BY <1>3, <1>4
<1>8. ASSUME NEW a \in 0 .. groups, NEW b \in 0 .. groups, a <= b
      PROVE  Cut(a) <= Cut(b)
  BY <1>3, <1>4, <1>5, <1>8
<1> QED
  BY <1>6, <1>7, <1>8 DEF n

\* Every event is in one group, and in no other.
LEMMA OneGroup ==
  ASSUME InputInv, NEW i \in Events
  PROVE  \E g \in 0 .. groups - 1 :
           i \in Group(g) /\ \A h \in 0 .. groups - 1 : i \in Group(h) => h = g
<1>1. i \in Nat /\ i >= 1 /\ i <= Len(t0) /\ groups \in Nat \ {0}
  BY DEF InputInv, Events
<1> DEFINE Reached == {a \in 1 .. groups : i <= Cut(a)}
<1>2. PICK a \in Reached : \A b \in Reached : a <= b
  <2>1. Reached \in SUBSET (1 .. groups) /\ groups \in Reached
    BY <1>1, CutsAscend
  <2> HIDE DEF Reached
  <2> QED
    BY <1>1, <2>1, LeastExists
<1>3. a \in 1 .. groups /\ a \in 0 .. groups /\ i <= Cut(a)
  BY <1>1, <1>2
<1>4. a - 1 \in 0 .. groups - 1 /\ a - 1 \in 0 .. groups /\ a - 1 + 1 = a
  BY <1>1, <1>3
<1>5. Cut(a - 1) < i
  <2>1. a - 1 \notin Reached
    <3> HIDE DEF Reached
    <3> QED
      BY <1>1, <1>2, <1>3
  <2>2. Cut(a - 1) \in Nat /\ Cut(0) = 0
    BY <1>4, CutsAscend
  <2>3. CASE a = 1
    BY <1>1, <2>2, <2>3
  <2>4. CASE a # 1
    <3>1. a - 1 \in 1 .. groups
      BY <1>1, <1>3, <2>4
    <3> QED
      BY <1>1, <2>1, <2>2, <3>1
  <2> QED
    BY <2>3, <2>4
<1>6. i \in Group(a - 1)
  <2>1. Cut(a - 1) \in Nat /\ Cut(a) \in Nat
    BY <1>3, <1>4, CutsAscend
  <2> QED
    BY <1>1, <1>3, <1>4, <1>5, <2>1 DEF Group
<1>7. ASSUME NEW h \in 0 .. groups - 1, i \in Group(h)
      PROVE  h = a - 1
  <2>1. h \in 0 .. groups /\ h + 1 \in 0 .. groups
    BY <1>1
  <2>2. Cut(h) \in Nat /\ Cut(h + 1) \in Nat /\ Cut(a) \in Nat /\ Cut(a - 1) \in Nat
    BY <1>3, <1>4, <2>1, CutsAscend
  <2>3. Cut(h) < i /\ i <= Cut(h + 1)
    BY <1>7, <2>2 DEF Group
  <2>4. \A x, y, z \in Nat : x < y /\ y <= z => ~(z <= x)
    OBVIOUS
  <2>5. ~(h + 1 <= a - 1)
    <3>1. h + 1 <= a - 1 => Cut(h + 1) <= Cut(a - 1)
      BY <1>4, <2>1, CutsAscend
    <3> QED
      BY <1>1, <1>5, <2>2, <2>3, <2>4, <3>1, Zenon
  <2>6. ~(a <= h)
    <3>1. a <= h => Cut(a) <= Cut(h)
      BY <1>3, <2>1, CutsAscend
    <3> QED
      BY <1>1, <1>3, <2>2, <2>3, <2>4, <3>1, Zenon
  <2> QED
    BY <1>1, <1>3, <2>5, <2>6
<1> QED
  BY <1>4, <1>6, <1>7

\* A block that is not empty has a start, and an end or none.
LEMMA RowTyped ==
  ASSUME InputInv, t0 \in Seq(Times), NEW g \in 0 .. groups - 1, Group(g) # {}
  PROVE  Row(g) \in Spans
<1>1. \A j \in Events : t0[j] \in Times
  BY DEF Events
<1>2. Cut(g) + 1 \in Events
  <2>1. Cut(g) \in Nat /\ Cut(g + 1) \in Nat /\ Group(g) \subseteq Events
    BY GroupsInside
  <2> QED
    BY <2>1 DEF Group
<1>3. Embargoed(BlockEnd(g)) \in Times \union {NaT}
  <2>1. CASE \E p \in Events : t0[p] = BlockEnd(g)
    BY <1>1, <2>1, EmbargoFound
  <2>2. CASE ~ \E p \in Events : t0[p] = BlockEnd(g)
    BY <2>2 DEF Embargoed
  <2> QED
    BY <2>1, <2>2
<1> QED
  BY <1>1, <1>2, <1>3 DEF Row, Spans, BlockStart

\* What the recipe asks for, and what does not change.
LEMMA RecipeKnown ==
  ASSUME TypeOK
  PROVE  groups \in Nat \ {0} /\ testGroups \in Nat
<1>1. groups \in Nat /\ groups >= 2 /\ testGroups \in 1 .. groups - 1
  BY PurgedCVAssumption DEF TypeOK
<1> QED
  BY <1>1

LEMMA OwedInit == Init => OwedInv
<1> SUFFICES ASSUME Init PROVE OwedInv
  OBVIOUS
<1>1. InputInv
  BY PurgeInit DEF PurgeInv
<1>2. t0 \in Seq(Times) /\ t1 \in Seq(Times) /\ Len(t0) = Len(t1)
  <2>1. PICK n \in 1 .. MaxEvents : t0 \in [1 .. n -> Times]
    BY DEF Init
  <2>2. Events = 1 .. n /\ n \in Nat
    BY <2>1, PurgedCVAssumption DEF Events
  <2>3. t1 \in [1 .. n -> Times]
    BY <2>2 DEF Init
  <2> QED
    BY <1>1, <2>1, <2>2, <2>3 DEF InputInv
<1>3. pct \in Percents /\ <<groups, testGroups>> \in Recipes
  <2>1. PICK recipe \in Recipes : groups = recipe[1] /\ testGroups = recipe[2]
    BY DEF Init
  <2>2. recipe = <<groups, testGroups>>
    BY <2>1, PurgedCVAssumption
  <2> QED
    BY <2>1, <2>2 DEF Init
<1>4. Cardinality(rows) <= testGroups /\ IsFiniteSet(rows)
  <2>1. PICK recipe \in Recipes : testGroups = recipe[2]
    BY DEF Init
  <2>2. testGroups \in Nat
    BY <2>1, PurgedCVAssumption
  <2>3. rows = {}
    BY DEF Init
  <2> QED
    BY <2>2, <2>3, FS_EmptySet
<1>5. ahead \subseteq SUBSET (0 .. groups - 1)
  BY PurgeInit DEF PurgeInv
<1>6. folds = <<>> /\ UnderWay = {} /\ Scored = {} /\ pc = "next"
  BY DEF Init, UnderWay, Scored
<1>7. TypeOK
  BY <1>2, <1>3, <1>4, <1>5, <1>6 DEF Init, TypeOK
<1> QED
  BY <1>4, <1>6, <1>7 DEF Init, OwedInv

LEMMA OwedStep == PurgeInv /\ OwedInv /\ [Next]_vars => OwedInv'
<1> SUFFICES ASSUME PurgeInv, OwedInv, [Next]_vars
             PROVE  OwedInv'
  OBVIOUS
<1>1. t0' = t0 /\ t1' = t1 /\ pct' = pct /\ groups' = groups /\ testGroups' = testGroups
  BY DEF Next, vars, input, NextFold, EmptyGroup, PurgeBlock, Yield, Score, FitFails
<1>2. InputInv /\ TypeOK /\ groups \in Nat \ {0} /\ testGroups \in Nat
  BY RecipeKnown DEF PurgeInv, OwedInv
<1>3. Events' = Events /\ \A k, n : Combinations(k, n)' = Combinations(k, n)
  BY <1>1 DEF Events, Combinations
\* Every action but Score leaves the folds alone.
<1>4. ASSUME UNCHANGED folds
      PROVE  /\ Scored' = Scored /\ (folds \in Seq(Folds))'
             /\ (\A k \in DOMAIN folds :
                   /\ Cardinality(folds[k].combo) = testGroups
                   /\ \A l \in DOMAIN folds : folds[k].combo = folds[l].combo => k = l)'
  <2>1. (folds \in Seq(Folds))'
    BY <1>2, <1>4 DEF TypeOK, Folds
  <2>2. Scored' = Scored
    BY <1>4 DEF Scored
  <2> QED
    BY <1>1, <1>2, <1>4, <2>1, <2>2 DEF TypeOK
<1>5. \A c \in Combinations(testGroups, groups) :
        c \in SUBSET (0 .. groups - 1) /\ IsFiniteSet(c) /\ Cardinality(c) = testGroups
  BY <1>2, CombinationsFinite
<1>6. CASE NextFold
  <2>1. PICK c \in ahead :
          /\ \A g \in c : Group(g) # {}
          /\ combo' = c
          /\ rows' = {Row(g) : g \in c}
    BY <1>6 DEF NextFold, Row
  <2>2. pc = "next" /\ ahead' = ahead \ {c} /\ trn' = Events /\ pc' = "purging" /\ UNCHANGED folds
    BY <1>6, <2>1 DEF NextFold
  <2>3. c \in SUBSET (0 .. groups - 1) /\ IsFiniteSet(c) /\ Cardinality(c) = testGroups
    BY <1>5, <2>2 DEF OwedInv
  <2>4. rows' \subseteq Spans
    BY <1>2, <2>1, <2>3, RowTyped DEF TypeOK
  <2>5. IsFiniteSet(rows') /\ Cardinality(rows') <= testGroups
    <3> DEFINE p == [g \in c |-> Row(g)]
    <3>1. rows' = Image(p, c)
      BY <2>1 DEF Image
    <3> HIDE DEF p
    <3> QED
      BY <2>3, <3>1, ImageSize
  <2>6. TypeOK'
    BY <1>1, <1>2, <1>3, <1>4, <2>1, <2>2, <2>3, <2>4, <2>5 DEF TypeOK, Spans
  <2>7. UnderWay = {} /\ UnderWay' = {c}
    BY <2>1, <2>2 DEF UnderWay
  <2> QED
    BY <1>1, <1>3, <1>4, <2>2, <2>5, <2>6, <2>7 DEF OwedInv
<1>7. CASE EmptyGroup
  <2>1. pc = "next" /\ pc' = "raised" /\ UNCHANGED <<ahead, combo, rows, trn, folds>>
    BY <1>7 DEF EmptyGroup
  <2>2. TypeOK'
    BY <1>1, <1>2, <1>3, <1>4, <2>1 DEF TypeOK, Spans
  <2>3. UnderWay = {} /\ UnderWay' = {}
    BY <2>1 DEF UnderWay
  <2> QED
    BY <1>1, <1>3, <1>4, <2>1, <2>2, <2>3 DEF OwedInv
<1>8. CASE PurgeBlock
  <2>1. PICK row \in rows : rows' = rows \ {row} /\ trn' \subseteq trn
    BY <1>8 DEF PurgeBlock
  <2>2. pc = "purging" /\ UNCHANGED <<pc, ahead, combo, folds>>
    BY <1>8 DEF PurgeBlock
  <2>3. IsFiniteSet(rows') /\ Cardinality(rows') <= testGroups
    <3>1. IsFiniteSet(rows) /\ Cardinality(rows) \in Nat /\ Cardinality(rows) <= testGroups
      BY FS_CardinalityType DEF OwedInv, TypeOK
    <3>2. IsFiniteSet(rows') /\ Cardinality(rows') = Cardinality(rows) - 1
      BY <2>1, <3>1, FS_RemoveElement
    <3> QED
      BY <1>2, <3>1, <3>2
  <2>4. TypeOK'
    BY <1>1, <1>2, <1>3, <1>4, <2>1, <2>2, <2>3 DEF TypeOK, Spans
  <2>5. UnderWay' = UnderWay
    BY <2>2 DEF UnderWay
  <2> QED
    BY <1>1, <1>3, <1>4, <2>2, <2>3, <2>4, <2>5 DEF OwedInv
<1>9. CASE Yield
  <2>1. pc = "purging" /\ pc' = "scoring" /\ UNCHANGED <<ahead, combo, rows, trn, folds>>
    BY <1>9 DEF Yield
  <2>2. TypeOK'
    BY <1>1, <1>2, <1>3, <1>4, <2>1 DEF TypeOK, Spans
  <2>3. UnderWay' = UnderWay
    BY <2>1 DEF UnderWay
  <2> QED
    BY <1>1, <1>3, <1>4, <2>1, <2>2, <2>3 DEF OwedInv
<1>10. CASE Score
  <2> DEFINE fold == [combo |-> combo, train |-> trn, test |-> Tested(combo)]
  <2>1. /\ pc = "scoring" /\ pc' \in {"done", "next"} /\ (pc' = "done" => ahead = {})
        /\ folds' = Append(folds, fold) /\ UNCHANGED <<ahead, combo, rows, trn>>
    BY <1>10 DEF Score
  <2>2. UnderWay = {combo} /\ UnderWay' = {}
    BY <2>1 DEF UnderWay
  <2>3. combo \in Combinations(testGroups, groups) /\ combo \notin Scored /\ combo \notin ahead
    BY <2>1, <2>2 DEF OwedInv
  <2>4. fold \in Folds
    <3>1. Usable(combo)
      BY <2>1 DEF PurgeInv
    <3>2. Tested(combo) \subseteq Events
      BY <1>2, <3>1, GroupsInside DEF Usable, Tested
    <3>3. Events \subseteq Nat /\ trn \subseteq Events /\ combo \subseteq Nat
      BY <1>2 DEF TypeOK, InputInv, Events
    <3> QED
      BY <3>2, <3>3 DEF Folds
  <2>5. fold.combo = combo
    OBVIOUS
  <2> HIDE DEF fold
  <2>6. /\ folds \in Seq(Folds) /\ Len(folds) \in Nat /\ folds' \in Seq(Folds)
        /\ DOMAIN folds = 1 .. Len(folds) /\ DOMAIN folds' = 1 .. Len(folds) + 1
        /\ folds'[Len(folds) + 1] = fold
        /\ \A k \in 1 .. Len(folds) : folds'[k] = folds[k]
    BY <1>2, <2>1, <2>4 DEF TypeOK
  <2>7. \A k \in DOMAIN folds' : (k \in DOMAIN folds /\ folds'[k] = folds[k])
                                 \/ (k = Len(folds) + 1 /\ folds'[k] = fold)
    BY <2>6
  <2>8. Scored' = Scored \union {combo}
    <3>1. \A k \in DOMAIN folds : k \in DOMAIN folds' /\ folds'[k] = folds[k]
      BY <2>6
    <3>2. Len(folds) + 1 \in DOMAIN folds'
      BY <2>6
    <3> QED
      BY <2>5, <2>6, <2>7, <3>1, <3>2 DEF Scored
  <2>9. \A k \in DOMAIN folds' :
          /\ Cardinality(folds'[k].combo) = testGroups
          /\ \A l \in DOMAIN folds' : folds'[k].combo = folds'[l].combo => k = l
    <3>1. Cardinality(combo) = testGroups
      BY <1>5, <2>3
    <3>2. \A k \in DOMAIN folds : folds[k].combo # combo
      BY <2>3 DEF Scored
    <3> QED
      BY <1>2, <2>5, <2>7, <3>1, <3>2 DEF TypeOK
  <2>10. (folds \in Seq(Folds))'
    BY <2>6 DEF Folds
  <2>11. TypeOK'
    BY <1>1, <1>2, <1>3, <2>1, <2>9, <2>10 DEF TypeOK, Spans
  <2> QED
    BY <1>1, <1>3, <2>1, <2>2, <2>3, <2>8, <2>11 DEF OwedInv
<1>11. CASE FitFails
  <2>1. pc' = "raised" /\ UNCHANGED <<ahead, combo, rows, trn, folds>>
    BY <1>11 DEF FitFails
  <2>2. TypeOK'
    BY <1>1, <1>2, <1>3, <1>4, <2>1 DEF TypeOK, Spans
  <2>3. UnderWay' = {}
    BY <2>1 DEF UnderWay
  <2> QED
    BY <1>1, <1>3, <1>4, <2>1, <2>2, <2>3 DEF OwedInv
<1>12. CASE UNCHANGED vars
  <2>1. UNCHANGED <<pc, ahead, combo, rows, trn, folds>>
    BY <1>12 DEF vars
  <2>2. TypeOK'
    BY <1>1, <1>2, <1>3, <1>4, <2>1 DEF TypeOK, Spans
  <2>3. UnderWay' = UnderWay
    BY <2>1 DEF UnderWay
  <2> QED
    BY <1>1, <1>3, <1>4, <2>1, <2>2, <2>3 DEF OwedInv
<1> QED
  BY <1>6, <1>7, <1>8, <1>9, <1>10, <1>11, <1>12 DEF Next

\* Whatever is split by whichever recipe, folds, rows and training events have
\* their types; a fold tests as many groups as were asked for, and none comes twice
\* (splitters.py:134-139, cpcv.py:135-148).
THEOREM FoldsTyped == Spec => []TypeOK
<1>1. OwedInv => TypeOK
  BY DEF OwedInv
<1> QED
  BY <1>1, OwedInit, OwedStep, PurgeInvariant, PTL DEF Spec

\* Once all folds are scored every event was tested equally often: no group is in
\* more combinations than another, whatever its size (splitters.py:124-125,
\* cpcv.py:131-136).
THEOREM EventsEvenlyTested == Spec => []EvenlyTested
<1>1. PurgeInv /\ OwedInv => EvenlyTested
  <2> SUFFICES ASSUME PurgeInv, OwedInv, pc = "done"
               PROVE  /\ Len(folds) = Cardinality(Combinations(testGroups, groups))
                      /\ \A i \in Events :
                           groups * Cardinality({k \in DOMAIN folds : i \in folds[k].test})
                             = testGroups * Len(folds)
    BY DEF EvenlyTested
  <2> DEFINE C == Combinations(testGroups, groups)
             D == DOMAIN folds
             p == [k \in D |-> folds[k].combo]
  <2>1. InputInv /\ groups \in Nat \ {0} /\ testGroups \in Nat
    BY RecipeKnown DEF PurgeInv, OwedInv
  <2>2. Scored = C
    BY DEF OwedInv, UnderWay
  <2>3. \A k, l \in D : k # l => p[k] # p[l]
    BY DEF OwedInv, TypeOK
  <2>4. IsFiniteSet(D) /\ Cardinality(D) = Len(folds)
    <3>1. D = 1 .. Len(folds) /\ Len(folds) \in Nat
      BY DEF PurgeInv
    <3> DEFINE n == Len(folds)
    <3>2. n \in Nat /\ D = 1 .. n
      BY <3>1
    <3> HIDE DEF n, D
    <3>3. IsFiniteSet(1 .. n) /\ Cardinality(1 .. n) = IF 1 > n THEN 0 ELSE n - 1 + 1
      BY <3>2, FS_Interval
    <3>4. IsFiniteSet(D) /\ Cardinality(D) = n
      BY <3>2, <3>3
    <3> QED
      BY <3>4 DEF n
  <2>5. Len(folds) = Cardinality(C)
    <3>1. Image(p, D) = Scored
      BY DEF Image, Scored
    <3> HIDE DEF p, D, C
    <3> QED
      BY <2>2, <2>3, <2>4, <3>1, ImageSize
  <2>6. ASSUME NEW i \in Events
        PROVE  groups * Cardinality({k \in DOMAIN folds : i \in folds[k].test})
                 = testGroups * Len(folds)
    <3> DEFINE T == {k \in D : i \in folds[k].test}
    <3>1. PICK g \in 0 .. groups - 1 :
            i \in Group(g) /\ \A h \in 0 .. groups - 1 : i \in Group(h) => h = g
      BY <2>1, OneGroup
    <3>2. \A k \in D : i \in folds[k].test <=> g \in p[k]
      BY <3>1 DEF PurgeInv, FoldInv, Usable, Tested
    <3>3. Image(p, T) = {c \in C : g \in c}
      <4>1. \A k \in T : p[k] \in C /\ g \in p[k]
        BY <2>2, <3>2 DEF Scored
      <4>2. \A c \in C : g \in c => \E k \in T : p[k] = c
        BY <2>2, <3>2 DEF Scored
      <4> HIDE DEF p, T, C
      <4> QED
        BY <4>1, <4>2 DEF Image
    <3>4. IsFiniteSet(T) /\ \A k, l \in T : k # l => p[k] # p[l]
      BY <2>3, <2>4, FS_Subset
    <3>5. Cardinality(Image(p, T)) = Cardinality(T)
      <4> HIDE DEF p, T
      <4> QED
        BY <3>4, ImageSize
    <3>6. groups * Cardinality({c \in C : g \in c}) = testGroups * Cardinality(C)
      BY <2>1, EvenShare
    <3> QED
      BY <2>5, <3>3, <3>5, <3>6, Zenon
  <2> QED
    BY <2>5, <2>6
<1> QED
  BY <1>1, OwedInit, OwedStep, PurgeInvariant, PTL DEF Spec

=============================================================================
