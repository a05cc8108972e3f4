---------------------------- MODULE PartsProofs -----------------------------
(***************************************************************************)
(* Proofs about the two tables that people write to, whatever they write   *)
(* and whenever: how often an idea can be used, for every set of           *)
(* consumers and any number of ideas and deaths, and what has to happen    *)
(* before the reviewer's log flags a decision. And about all the parts     *)
(* side by side: what holds of each holds of them together.                *)
(***************************************************************************)
EXTENDS Parts, CandleProofs, LabelProofs

-----------------------------------------------------------------------------
(* Ideas.                                                                  *)

Holders(i) == {c \in Consumers : inHand[c] = i}
Waiting(i) == {c \in Consumers : i \in pending[c]}

\* A consumer never has in hand what it has yet to work on.
HandsApart == \A c \in Consumers : inHand[c] \notin pending[c]

\* Until an idea is marked, whoever used it has it in hand or has died; once it is
\* marked, nobody fetches it any more, and only those who wait can use it.
UsesAccounted ==
  \A i \in DOMAIN ideas :
    IF ideas[i].consumed
    THEN uses[i] + Cardinality(Waiting(i)) <= Cardinality(Consumers) + deaths
    ELSE uses[i] <= Cardinality(Holders(i)) + deaths

IdeasInv == IdeasTypeOK /\ HandsApart /\ UsesAccounted

-----------------------------------------------------------------------------

\* Sets of consumers are finite, and no larger than the set of them all.
LEMMA ConsumersCount ==
  ASSUME NEW S \in SUBSET Consumers
  PROVE  IsFiniteSet(S) /\ Cardinality(S) \in Nat /\ Cardinality(S) <= Cardinality(Consumers)
         /\ Cardinality(Consumers) \in Nat
BY FS_Subset, FS_CardinalityType, IdeasAssumption DEF IdeasAssumption

LEMMA OneMore ==
  ASSUME NEW S \in SUBSET Consumers, NEW c \in Consumers, c \notin S
  PROVE  Cardinality(S \cup {c}) = Cardinality(S) + 1
BY ConsumersCount, FS_AddElement

LEMMA OneLess ==
  ASSUME NEW S \in SUBSET Consumers, NEW c \in S
  PROVE  Cardinality(S \ {c}) = Cardinality(S) - 1
BY ConsumersCount, FS_RemoveElement

\* Fewer consumers count for less.
LEMMA FewerCount ==
  ASSUME NEW S \in SUBSET Consumers, NEW T \in SUBSET S
  PROVE  Cardinality(T) <= Cardinality(S)
BY ConsumersCount, FS_Subset

\* Two groups that share nobody are together no more than all.
LEMMA ApartCount ==
  ASSUME NEW S \in SUBSET Consumers, NEW T \in SUBSET Consumers, S \cap T = {}
  PROVE  Cardinality(S) + Cardinality(T) <= Cardinality(Consumers)
<1>1. IsFiniteSet(S) /\ IsFiniteSet(T) /\ S \cup T \in SUBSET Consumers
  BY ConsumersCount
<1>2. Cardinality(S \cup T) = Cardinality(S) + Cardinality(T) - Cardinality(S \cap T)
  BY <1>1, FS_Union
<1>3. Cardinality(S \cap T) = 0
  BY FS_EmptySet
<1> QED
  BY <1>1, <1>2, <1>3, ConsumersCount

-----------------------------------------------------------------------------

LEMMA IdeasInitInv == IdeasInit => IdeasInv
BY DEF IdeasInit, IdeasInv, IdeasTypeOK, HandsApart, UsesAccounted, Idle

LEMMA SubmitInv ==
  ASSUME IdeasInv, NEW pair \in Pairs, NEW direction, NEW conviction, Submit(pair, direction, conviction)
  PROVE  IdeasInv'
<1>1. /\ ideas' = Append(ideas, [pair |-> pair, consumed |-> FALSE])
      /\ uses' = Append(uses, 0) /\ UNCHANGED <<pending, inHand, deaths>>
  BY DEF Submit
<1>2. /\ ideas \in Seq([pair : Pairs, consumed : BOOLEAN]) /\ uses \in Seq(Nat)
      /\ Len(uses) = Len(ideas) /\ deaths \in Nat
  BY DEF IdeasInv, IdeasTypeOK
<1>3. DOMAIN ideas \subseteq DOMAIN ideas' /\ DOMAIN ideas' = 1..Len(ideas) + 1
  BY <1>1, <1>2
<1>4. IdeasTypeOK'
  BY <1>1, <1>2, <1>3 DEF IdeasInv, IdeasTypeOK
<1>5. HandsApart'
  BY <1>1 DEF IdeasInv, HandsApart
<1>6. UsesAccounted'
  <2> SUFFICES ASSUME NEW i \in DOMAIN ideas'
               PROVE  IF ideas'[i].consumed
                      THEN uses'[i] + Cardinality(Waiting(i)') <= Cardinality(Consumers) + deaths'
                      ELSE uses'[i] <= Cardinality(Holders(i)') + deaths'
    BY DEF UsesAccounted
  <2>1. Holders(i)' = Holders(i) /\ Waiting(i)' = Waiting(i)
    BY <1>1 DEF Holders, Waiting
  <2>2. CASE i = Len(ideas) + 1
    <3>1. ideas'[i].consumed = FALSE /\ uses'[i] = 0
      BY <1>1, <1>2, <2>2
    <3>2. Cardinality(Holders(i)) \in Nat
      BY ConsumersCount DEF Holders
    <3> QED
      BY <1>1, <1>2, <2>1, <3>1, <3>2
  <2>3. CASE i \in DOMAIN ideas
    <3>1. ideas'[i] = ideas[i] /\ uses'[i] = uses[i]
      BY <1>1, <1>2, <2>3
    <3> QED
      BY <1>1, <2>1, <2>3, <3>1 DEF IdeasInv, UsesAccounted
  <2> QED
    BY <1>2, <1>3, <2>2, <2>3
<1> QED
  BY <1>4, <1>5, <1>6 DEF IdeasInv

LEMMA GetPendingInv ==
  ASSUME IdeasInv, NEW c \in Consumers, NEW pair, GetPending(c, pair)
  PROVE  IdeasInv'
<1>1. /\ pending[c] = {} /\ inHand[c] = Idle
      /\ pending' = [pending EXCEPT ![c] = Unconsumed(pair)]
      /\ UNCHANGED <<ideas, inHand, uses, deaths>>
  BY DEF GetPending
<1>2. /\ pending \in [Consumers -> SUBSET DOMAIN ideas]
      /\ Unconsumed(pair) \subseteq {i \in DOMAIN ideas : ~ideas[i].consumed}
  BY DEF IdeasInv, IdeasTypeOK, Unconsumed, ForPair
<1>3. Idle \notin DOMAIN ideas
  BY DEF IdeasInv, IdeasTypeOK, Idle
<1>4. IdeasTypeOK'
  BY <1>1, <1>2 DEF IdeasInv, IdeasTypeOK
<1>5. HandsApart'
  BY <1>1, <1>2, <1>3 DEF IdeasInv, HandsApart
<1>6. ASSUME NEW i \in DOMAIN ideas, ideas[i].consumed
      PROVE  Waiting(i)' = Waiting(i)
  BY <1>1, <1>2, <1>6 DEF Waiting
<1>7. \A i : Holders(i)' = Holders(i)
  BY <1>1 DEF Holders
<1>8. UsesAccounted'
  BY <1>1, <1>6, <1>7 DEF IdeasInv, UsesAccounted
<1> QED
  BY <1>4, <1>5, <1>8 DEF IdeasInv

LEMMA UseIdeaInv ==
  ASSUME IdeasInv, NEW c \in Consumers, NEW k \in pending[c], UseIdea(c, k)
  PROVE  IdeasInv'
<1>1. /\ inHand[c] = Idle
      /\ pending' = [pending EXCEPT ![c] = @ \ {k}]
      /\ inHand' = [inHand EXCEPT ![c] = k]
      /\ uses' = [uses EXCEPT ![k] = @ + 1]
      /\ UNCHANGED <<ideas, deaths>>
  BY DEF UseIdea
<1>2. /\ pending \in [Consumers -> SUBSET DOMAIN ideas] /\ inHand \in [Consumers -> DOMAIN ideas \cup {Idle}]
      /\ uses \in Seq(Nat) /\ DOMAIN uses = DOMAIN ideas /\ deaths \in Nat /\ k \in DOMAIN ideas
      /\ Idle \notin DOMAIN ideas
  BY DEF IdeasInv, IdeasTypeOK, Idle
<1>3. IdeasTypeOK'
  BY <1>1, <1>2 DEF IdeasInv, IdeasTypeOK
<1>4. HandsApart'
  BY <1>1, <1>2 DEF IdeasInv, HandsApart
<1>5. ASSUME NEW i \in DOMAIN ideas, i # k
      PROVE  Holders(i)' = Holders(i) /\ Waiting(i)' = Waiting(i) /\ uses'[i] = uses[i]
  BY <1>1, <1>2, <1>5 DEF Holders, Waiting
<1>6. Holders(k)' = Holders(k) \cup {c} /\ c \notin Holders(k)
  BY <1>1, <1>2 DEF Holders
<1>7. Waiting(k)' = Waiting(k) \ {c} /\ c \in Waiting(k)
  BY <1>1, <1>2 DEF Waiting
<1>8. /\ Cardinality(Holders(k)') = Cardinality(Holders(k)) + 1
      /\ Cardinality(Waiting(k)') = Cardinality(Waiting(k)) - 1
      /\ Cardinality(Holders(k)) \in Nat /\ Cardinality(Waiting(k)) \in Nat
      /\ Cardinality(Consumers) \in Nat
  <2>1. Holders(k) \in SUBSET Consumers /\ Waiting(k) \in SUBSET Consumers
    BY DEF Holders, Waiting
  <2> QED
    BY <1>6, <1>7, <2>1, OneMore, OneLess, ConsumersCount
<1>9. uses'[k] = uses[k] + 1 /\ uses[k] \in Nat
  BY <1>1, <1>2
<1>10. UsesAccounted'
  <2> SUFFICES ASSUME NEW i \in DOMAIN ideas
               PROVE  IF ideas[i].consumed
                      THEN uses'[i] + Cardinality(Waiting(i)') <= Cardinality(Consumers) + deaths
                      ELSE uses'[i] <= Cardinality(Holders(i)') + deaths
    BY <1>1 DEF UsesAccounted
  <2>1. CASE i = k
    BY <1>2, <1>8, <1>9, <2>1 DEF IdeasInv, UsesAccounted
  <2>2. CASE i # k
    BY <1>5, <2>2 DEF IdeasInv, UsesAccounted
  <2> QED
    BY <2>1, <2>2
<1> QED
  BY <1>3, <1>4, <1>10 DEF IdeasInv

\* The first mark of an idea: those who have it in hand no longer wait for it.
LEMMA MarkConsumedInv ==
  ASSUME IdeasInv, NEW c \in Consumers, MarkConsumed(c)
  PROVE  IdeasInv'
<1> DEFINE k == inHand[c]
<1>1. /\ k # Idle
      /\ ideas' = [ideas EXCEPT ![k].consumed = TRUE]
      /\ inHand' = [inHand EXCEPT ![c] = Idle]
      /\ UNCHANGED <<pending, uses, deaths>>
  BY DEF MarkConsumed
<1>2. /\ pending \in [Consumers -> SUBSET DOMAIN ideas] /\ inHand \in [Consumers -> DOMAIN ideas \cup {Idle}]
      /\ ideas \in Seq([pair : Pairs, consumed : BOOLEAN])
      /\ uses \in Seq(Nat) /\ DOMAIN uses = DOMAIN ideas /\ deaths \in Nat /\ k \in DOMAIN ideas
      /\ Idle \notin DOMAIN ideas
  BY <1>1 DEF IdeasInv, IdeasTypeOK, Idle
<1>3. /\ DOMAIN ideas' = DOMAIN ideas /\ Len(ideas') = Len(ideas)
      /\ ideas' \in Seq([pair : Pairs, consumed : BOOLEAN])
      /\ ideas'[k].consumed
      /\ \A i \in DOMAIN ideas : i # k => ideas'[i] = ideas[i]
  <2> DEFINE Ideas == [pair : Pairs, consumed : BOOLEAN]
             marked == [ideas[k] EXCEPT !.consumed = TRUE]
  <2>1. ideas' = [ideas EXCEPT ![k] = marked]
    BY <1>1
  <2> HIDE DEF Ideas, marked
  <2>2. ideas \in Seq(Ideas)
    BY <1>2 DEF Ideas
  <2>3. ideas[k] \in Ideas
    BY <1>2, <2>2
  <2>4. marked \in Ideas /\ marked.consumed = TRUE
    BY <2>3 DEF Ideas, marked
  <2>5. ideas' \in Seq(Ideas) /\ Len(ideas') = Len(ideas) /\ DOMAIN ideas' = DOMAIN ideas
        /\ ideas'[k] = marked /\ \A i \in DOMAIN ideas : i # k => ideas'[i] = ideas[i]
    BY <1>2, <2>1, <2>2, <2>4
  <2> QED
    BY <2>4, <2>5 DEF Ideas
<1>4. IdeasTypeOK'
  BY <1>1, <1>2, <1>3 DEF IdeasInv, IdeasTypeOK
<1>5. HandsApart'
  BY <1>1, <1>2 DEF IdeasInv, HandsApart
<1>6. ASSUME NEW i \in DOMAIN ideas
      PROVE  /\ Waiting(i)' = Waiting(i)
             /\ i # k => Holders(i)' = Holders(i)
  BY <1>1, <1>2 DEF Waiting, Holders
<1>7. uses[k] + Cardinality(Waiting(k)) <= Cardinality(Consumers) + deaths
  <2>1. CASE ideas[k].consumed
    BY <1>2, <2>1 DEF IdeasInv, UsesAccounted
  <2>2. CASE ~ideas[k].consumed
    <3>1. uses[k] <= Cardinality(Holders(k)) + deaths
      BY <1>2, <2>2 DEF IdeasInv, UsesAccounted
    <3>2. Holders(k) \cap Waiting(k) = {}
      BY DEF IdeasInv, HandsApart, Holders, Waiting
    <3>3. /\ Cardinality(Holders(k)) + Cardinality(Waiting(k)) <= Cardinality(Consumers)
          /\ Cardinality(Holders(k)) \in Nat /\ Cardinality(Waiting(k)) \in Nat
          /\ Cardinality(Consumers) \in Nat
      <4>1. Holders(k) \in SUBSET Consumers /\ Waiting(k) \in SUBSET Consumers
        BY DEF Holders, Waiting
      <4> QED
        BY <3>2, <4>1, ApartCount, ConsumersCount
    <3>4. uses[k] \in Nat
      BY <1>2
    <3> QED
      BY <1>2, <3>1, <3>3, <3>4
  <2> QED
    BY <2>1, <2>2
<1>8. UsesAccounted'
  <2> SUFFICES ASSUME NEW i \in DOMAIN ideas
               PROVE  IF ideas'[i].consumed
                      THEN uses[i] + Cardinality(Waiting(i)') <= Cardinality(Consumers) + deaths
                      ELSE uses[i] <= Cardinality(Holders(i)') + deaths
    BY <1>1, <1>3 DEF UsesAccounted
  <2>1. CASE i = k
    BY <1>3, <1>6, <1>7, <2>1
  <2>2. CASE i # k
    BY <1>3, <1>6, <2>2 DEF IdeasInv, UsesAccounted
  <2> QED
    BY <2>1, <2>2
<1> QED
  BY <1>4, <1>5, <1>8 DEF IdeasInv

LEMMA ConsumerDiesInv ==
  ASSUME IdeasInv, NEW c \in Consumers, ConsumerDies(c)
  PROVE  IdeasInv'
<1>1. /\ deaths' = deaths + 1
      /\ pending' = [pending EXCEPT ![c] = {}]
      /\ inHand' = [inHand EXCEPT ![c] = Idle]
      /\ UNCHANGED <<ideas, uses>>
  BY DEF ConsumerDies
<1>2. /\ pending \in [Consumers -> SUBSET DOMAIN ideas] /\ inHand \in [Consumers -> DOMAIN ideas \cup {Idle}]
      /\ uses \in Seq(Nat) /\ DOMAIN uses = DOMAIN ideas /\ deaths \in Nat
      /\ Idle \notin DOMAIN ideas
  BY DEF IdeasInv, IdeasTypeOK, Idle
<1>3. IdeasTypeOK'
  BY <1>1, <1>2 DEF IdeasInv, IdeasTypeOK
<1>4. HandsApart'
  BY <1>1, <1>2 DEF IdeasInv, HandsApart
<1>5. UsesAccounted'
  <2> SUFFICES ASSUME NEW i \in DOMAIN ideas
               PROVE  IF ideas[i].consumed
                      THEN uses[i] + Cardinality(Waiting(i)') <= Cardinality(Consumers) + (deaths + 1)
                      ELSE uses[i] <= Cardinality(Holders(i)') + (deaths + 1)
    BY <1>1 DEF UsesAccounted
  <2>1. /\ Waiting(i)' = Waiting(i) \ {c} /\ Holders(i)' = Holders(i) \ {c}
        /\ Waiting(i) \in SUBSET Consumers /\ Holders(i) \in SUBSET Consumers
    BY <1>1, <1>2 DEF Waiting, Holders
  <2>2. /\ Cardinality(Waiting(i)') <= Cardinality(Waiting(i))
        /\ Cardinality(Waiting(i)') \in Nat /\ Cardinality(Waiting(i)) \in Nat
        /\ Cardinality(Consumers) \in Nat
    BY <2>1, FewerCount, ConsumersCount
  <2>3. /\ Cardinality(Holders(i)) <= Cardinality(Holders(i)') + 1
        /\ Cardinality(Holders(i)') \in Nat /\ Cardinality(Holders(i)) \in Nat
    <3>1. CASE c \in Holders(i)
      BY <2>1, <3>1, OneLess, ConsumersCount
    <3>2. CASE c \notin Holders(i)
      <4>1. Holders(i)' = Holders(i)
        BY <2>1, <3>2
      <4> QED
        BY <2>1, <4>1, ConsumersCount
    <3> QED
      BY <3>1, <3>2
  <2>4. uses[i] \in Nat
    BY <1>2
  <2>5. CASE ideas[i].consumed
    <3>1. uses[i] + Cardinality(Waiting(i)) <= Cardinality(Consumers) + deaths
      BY <2>5 DEF IdeasInv, UsesAccounted
    <3> QED
      BY <1>2, <2>2, <2>4, <2>5, <3>1
  <2>6. CASE ~ideas[i].consumed
    <3>1. uses[i] <= Cardinality(Holders(i)) + deaths
      BY <2>6 DEF IdeasInv, UsesAccounted
    <3> QED
      BY <1>2, <2>3, <2>4, <2>6, <3>1
  <2> QED
    BY <2>5, <2>6
<1> QED
  BY <1>3, <1>4, <1>5 DEF IdeasInv

LEMMA IdeasStepInv == IdeasInv /\ [IdeasNext]_ideasVars => IdeasInv'
<1> SUFFICES ASSUME IdeasInv, [IdeasNext]_ideasVars
             PROVE  IdeasInv'
  OBVIOUS
<1>1. CASE UNCHANGED ideasVars
  BY <1>1 DEF IdeasInv, IdeasTypeOK, HandsApart, UsesAccounted, Holders, Waiting, ideasVars
<1>2. ASSUME NEW pair \in Pairs, NEW direction, NEW conviction, Submit(pair, direction, conviction)
      PROVE  IdeasInv'
  BY <1>2, SubmitInv
<1>3. ASSUME NEW c \in Consumers,
             \/ \E pair \in Pairs \cup {AnyPair} : GetPending(c, pair)
             \/ \E i \in pending[c] : UseIdea(c, i)
             \/ MarkConsumed(c)
             \/ ConsumerDies(c)
      PROVE  IdeasInv'
  BY <1>3, GetPendingInv, UseIdeaInv, MarkConsumedInv, ConsumerDiesInv
<1> QED
  BY <1>1, <1>2, <1>3 DEF IdeasNext

\* The inductive invariant.
THEOREM IdeasInvariant == IdeasSpec => []IdeasInv
BY IdeasInitInv, IdeasStepInv, PTL DEF IdeasSpec

\* However many consumers fetch the same ideas at once and wherever they die, an
\* idea is used once by each and once more per death (discretionary.py:100-145).
THEOREM UsesAreBounded == IdeasSpec => []UsesBounded
<1>1. IdeasInv => UsesBounded
  <2> SUFFICES ASSUME IdeasInv, NEW i \in DOMAIN uses
               PROVE  uses[i] <= Cardinality(Consumers) + deaths
    BY DEF UsesBounded
  <2>1. i \in DOMAIN ideas /\ uses[i] \in Nat /\ deaths \in Nat
    BY DEF IdeasInv, IdeasTypeOK
  <2>2. /\ Cardinality(Waiting(i)) \in Nat /\ Cardinality(Holders(i)) \in Nat
        /\ Cardinality(Holders(i)) <= Cardinality(Consumers) /\ Cardinality(Consumers) \in Nat
    <3>1. Holders(i) \in SUBSET Consumers /\ Waiting(i) \in SUBSET Consumers
      BY DEF Holders, Waiting
    <3> QED
      BY <3>1, ConsumersCount
  <2>3. CASE ideas[i].consumed
    BY <2>1, <2>2, <2>3 DEF IdeasInv, UsesAccounted
  <2>4. CASE ~ideas[i].consumed
    BY <2>1, <2>2, <2>4 DEF IdeasInv, UsesAccounted
  <2> QED
    BY <2>3, <2>4
<1> QED
  BY <1>1, IdeasInvariant, PTL

-----------------------------------------------------------------------------
(* The reviewer's log.                                                     *)

\* Deviations from the mean add up to nothing. (All are taken n times.)
LEMMA DeviationsCancel ==
  ASSUME NEW S, IsFiniteSet(S), NEW h, NEW y, \A d \in S : h[d] \in Int,
         \A d \in S : y[d] = Cardinality(S) * h[d] - SumFunctionOnSet(h, S)
  PROVE  SumFunctionOnSet(y, S) = 0
<1> DEFINE n == Cardinality(S)
           s == SumFunctionOnSet(h, S)
           m == -s
           one == [d \in S |-> 1]
<1>1. n \in Int /\ s \in Int /\ m \in Int
  BY SumIsInt, FS_CardinalityType
<1>2. SumFunctionOnSet(one, S) = 1 * n
  BY SumOfConstant
<1>3. \A d \in S : h[d] \in Int /\ one[d] \in Int /\ y[d] = n * h[d] + m * one[d]
  <2> SUFFICES ASSUME NEW d \in S
               PROVE  h[d] \in Int /\ one[d] \in Int /\ y[d] = n * h[d] + m * one[d]
    OBVIOUS
  <2>1. y[d] = n * h[d] - s /\ one[d] = 1 /\ h[d] \in Int
    OBVIOUS
  <2> HIDE DEF n, s, one
  <2> QED
    BY <1>1, <2>1
<1> HIDE DEF one
<1>4. SumFunctionOnSet(y, S) = n * SumFunctionOnSet(h, S) + m * SumFunctionOnSet(one, S)
  <2>1. n \in Int /\ m \in Int
    BY <1>1
  <2> HIDE DEF n, m, s
  <2>2. \A d \in S : h[d] \in Int /\ one[d] \in Int /\ y[d] = n * h[d] + m * one[d]
    BY <1>3
  <2> QED
    BY <2>1, <2>2, SumCombines
<1>5. SumFunctionOnSet(y, S) = n * s + m * (1 * n)
  BY <1>2, <1>4
<1> HIDE DEF n, s
<1>6. n * s + m * (1 * n) = 0
  BY <1>1
<1> QED
  BY <1>5, <1>6

\* Of n numbers none lies further from their mean than (n-1)/sqrt(n) standard
\* deviations (Samuelson's inequality).
LEMMA FurthestFromTheMean ==
  ASSUME NEW S, IsFiniteSet(S), NEW h, NEW y, NEW sq, \A d \in S : h[d] \in Int,
         \A d \in S : y[d] = Cardinality(S) * h[d] - SumFunctionOnSet(h, S),
         \A d \in S : sq[d] = y[d] * y[d],
         NEW x \in S, Cardinality(S) >= 2
  PROVE  /\ Cardinality(S) * (y[x] * y[x]) <= (Cardinality(S) - 1) * SumFunctionOnSet(sq, S)
         /\ SumFunctionOnSet(sq, S) \in Int
<1> DEFINE n == Cardinality(S)
           T == S \ {x}
           e == y[x]
           Q == SumFunctionOnSet(sq, S)
           one == [d \in T |-> 1]
           k == (n - 1) * (2 * e)
           lin == [d \in T |-> k * y[d] + (e * e) * one[d]]
           z == [d \in T |-> ((n - 1) * (n - 1)) * sq[d] + 1 * lin[d]]
<1>1. /\ n \in Nat /\ n >= 2 /\ IsFiniteSet(T) /\ Cardinality(T) = n - 1
  BY FS_CardinalityType, FS_RemoveElement
<1>2. SumFunctionOnSet(h, S) \in Int
  BY SumIsInt
<1>3. \A d \in S : y[d] \in Int
  BY <1>1, <1>2
<1>4. \A d \in S : sq[d] \in Int
  BY <1>3
<1>5. e \in Int /\ Q \in Int
  BY <1>3, <1>4, SumIsInt
<1>6. SumFunctionOnSet(y, T) = -e /\ SumFunctionOnSet(sq, T) = Q - e * e
  <2>1. SumFunctionOnSet(y, S) = 0
    BY DeviationsCancel
  <2>2. SumFunctionOnSet(y, S) = e + SumFunctionOnSet(y, T)
    BY <1>3, SumSplits
  <2>3. Q = sq[x] + SumFunctionOnSet(sq, T) /\ sq[x] = e * e
    BY <1>4, SumSplits
  <2>4. SumFunctionOnSet(y, T) \in Int /\ SumFunctionOnSet(sq, T) \in Int
    BY <1>1, <1>3, <1>4, SumIsInt
  <2> HIDE DEF e, T, Q
  <2> QED
    BY <1>5, <2>1, <2>2, <2>3, <2>4
<1>7. SumFunctionOnSet(one, T) = 1 * (n - 1)
  BY <1>1, SumOfConstant
<1> HIDE DEF n, e, Q
<1>8. k \in Int /\ e * e \in Int /\ n - 1 \in Int /\ (n - 1) * (n - 1) \in Int
  BY <1>1, <1>5
<1>9. \A d \in T : y[d] \in Int /\ one[d] \in Int /\ lin[d] = k * y[d] + (e * e) * one[d]
  BY <1>3
<1>10. SumFunctionOnSet(lin, T) = k * SumFunctionOnSet(y, T) + (e * e) * SumFunctionOnSet(one, T)
  <2> HIDE DEF lin, one, T, k
  <2> QED
    BY <1>1, <1>8, <1>9, SumCombines
<1>11. \A d \in T : lin[d] \in Int
  BY <1>8, <1>9
<1>12. \A d \in T : /\ sq[d] \in Int /\ lin[d] \in Int
                    /\ z[d] = ((n - 1) * (n - 1)) * sq[d] + 1 * lin[d]
  <2> HIDE DEF lin
  <2> QED
    BY <1>4, <1>11
<1>13. SumFunctionOnSet(z, T) = ((n - 1) * (n - 1)) * SumFunctionOnSet(sq, T)
                                + 1 * SumFunctionOnSet(lin, T)
  <2> HIDE DEF lin, z, T
  <2> QED
    BY <1>1, <1>8, <1>12, SumCombines
<1>14. \A d \in T : z[d] \in Nat
  <2> SUFFICES ASSUME NEW d \in T
               PROVE  z[d] \in Nat
    OBVIOUS
  <2> DEFINE v == y[d]
             w == (n - 1) * v + e
  <2>1. /\ z[d] = ((n - 1) * (n - 1)) * sq[d] + 1 * lin[d] /\ sq[d] = v * v
        /\ lin[d] = k * v + (e * e) * 1 /\ v \in Int
    BY <1>9, <1>12
  <2> HIDE DEF v, lin, z
  <2>2. w \in Int
    BY <1>1, <1>5, <2>1
  <2>3. w * w \in Nat
    <3> HIDE DEF w
    <3> QED
      BY <2>2
  <2>4. w * w = ((n - 1) * (n - 1)) * (v * v) + 1 * (k * v + (e * e) * 1)
    BY <1>1, <1>5, <2>1
  <2> QED
    BY <2>1, <2>3, <2>4, Zenon
<1> HIDE DEF z, lin, one, T
<1>15. SumFunctionOnSet(z, T) \in Nat
  BY <1>1, <1>14, SumGrows
<1>16. ((n - 1) * (n - 1)) * (Q - e * e) + 1 * (k * (-e) + (e * e) * (1 * (n - 1))) \in Nat
  BY <1>6, <1>7, <1>10, <1>13, <1>15, Zenon
<1>17. ((n - 1) * (n - 1)) * (Q - e * e) + 1 * (k * (-e) + (e * e) * (1 * (n - 1)))
         = (n - 1) * ((n - 1) * Q - n * (e * e))
  BY <1>1, <1>5
<1> DEFINE rest == (n - 1) * Q - n * (e * e)
<1>18. rest \in Int /\ (n - 1) * rest >= 0
  BY <1>1, <1>5, <1>16, <1>17
<1>19. rest >= 0
  <2> HIDE DEF rest
  <2>1. ASSUME rest <= -1 PROVE FALSE
    <3>1. (n - 1) * (-1 - rest) >= 0
      <4>1. n - 1 \in Nat /\ -1 - rest \in Nat
        BY <1>1, <1>18, <2>1
      <4> QED
        BY <4>1
    <3>2. (n - 1) * (-1 - rest) = -(n - 1) - (n - 1) * rest
      BY <1>1, <1>18
    <3>3. (n - 1) * rest \in Int
      BY <1>1, <1>18
    <3> QED
      BY <1>1, <1>18, <3>1, <3>2, <3>3
  <2> QED
    BY <1>18, <2>1
<1>20. n * (e * e) <= (n - 1) * Q
  <2>1. n * (e * e) \in Int /\ (n - 1) * Q \in Int
    BY <1>1, <1>5
  <2> QED
    BY <1>19, <2>1
<1> QED
  BY <1>5, <1>20 DEF n, e, Q

Logs == [Ages -> Decisions \cup {"none"}]

LEMMA AgesAreFinite ==
  ASSUME NEW rows \in SUBSET Ages
  PROVE  IsFiniteSet(rows) /\ Cardinality(rows) \in Nat
<1>1. 2 * WindowDays \in Int
  BY ReviewerAssumption
<1>2. IsFiniteSet(Ages)
  BY <1>1, FS_Interval DEF Ages
<1> QED
  BY <1>2, FS_Subset, FS_CardinalityType

\* A rate is a number, and zero where nothing was overridden.
LEMMA RateType ==
  ASSUME NEW seen, NEW rows \in SUBSET Ages, rows # {}
  PROVE  Rate(seen, rows) \in Nat /\ (Overrides(seen, rows) = {} => Rate(seen, rows) = 0)
<1> DEFINE k == Cardinality(Overrides(seen, rows))
           n == Cardinality(rows)
<1>1. IsFiniteSet(rows) /\ n \in Nat /\ k \in Nat
  BY AgesAreFinite DEF Overrides
<1>2. n # 0
  BY <1>1, FS_EmptySet
<1>3. Overrides(seen, rows) = {} => k = 0
  BY FS_EmptySet
<1>4. Rate(seen, rows) = (6 * k) \div n
  BY DEF Rate
<1> HIDE DEF k, n
<1>5. n \in Nat \ {0} /\ 6 * k \in Int /\ n * 0 = 0 /\ 0 <= 6 * k
  BY <1>1, <1>2
<1>6. 0 \div n = 0 /\ 0 \div n <= (6 * k) \div n /\ (6 * k) \div n \in Int
  <2>1. 0 \div n = 0
    <3>1. (n * 0) \div n = 0
      BY <1>5, Multiples
    <3> QED
      BY <1>5, <3>1, Zenon
  <2> DEFINE m == 6 * k
  <2>2. m \in Int /\ 0 <= m /\ 0 \in Int
    BY <1>5
  <2> HIDE DEF m
  <2>3. 0 \div n <= m \div n /\ m \div n \in Int
    BY <1>5, <2>2, Division, DivisionMonotone
  <2> QED
    BY <2>1, <2>3 DEF m
<1>7. k = 0 => 6 * k = 0
  OBVIOUS
<1> QED
  BY <1>3, <1>4, <1>6, <1>7

LEMMA DayFacts ==
  ASSUME evening \in BOOLEAN, NEW a \in Ages
  PROVE  Day(a) \in Ages /\ (Day(a) = 0 => a <= 2)
<1>1. a \in Nat /\ a <= 2 * WindowDays /\ WindowDays \in Nat
  BY ReviewerAssumption DEF Ages
<1>2. evening => Day(a) = a \div 2
  BY <1>1 DEF Day
<1>3. ~evening => Day(a) = (a + 1) \div 2
  BY DEF Day
<1>4. /\ a \div 2 \in 0..2 * WindowDays /\ (a + 1) \div 2 \in 0..2 * WindowDays
      /\ a \div 2 = 0 => a <= 2
      /\ (a + 1) \div 2 = 0 => a <= 2
  BY <1>1
<1> QED
  BY <1>2, <1>3, <1>4 DEF Ages

\* The days of the history, and how they are rated.
LEMMA DaysFacts ==
  ASSUME evening \in BOOLEAN, NEW seen
  PROVE  /\ HistoryDays(seen) \subseteq Ages
         /\ IsFiniteSet(HistoryDays(seen)) /\ Cardinality(HistoryDays(seen)) \in Nat
         /\ \A d \in HistoryDays(seen) : DailyRate(seen, d) \in Nat
<1>1. Decided(seen) \subseteq Ages
  BY DEF Decided
<1>2. HistoryDays(seen) \subseteq Ages
  BY <1>1, DayFacts DEF HistoryDays
<1>3. ASSUME NEW d \in HistoryDays(seen)
      PROVE  DailyRate(seen, d) \in Nat
  <2> DEFINE rows == {a \in Decided(seen) : Day(a) = d}
  <2>1. rows # {}
    BY DEF HistoryDays
  <2>2. rows \in SUBSET Ages
    BY <1>1
  <2>3. DailyRate(seen, d) = Rate(seen, rows)
    BY DEF DailyRate
  <2> HIDE DEF rows
  <2> QED
    BY <2>1, <2>2, <2>3, RateType
<1> QED
  BY <1>2, <1>3, AgesAreFinite

\* What escalation is a matter of.
LEMMA EscalationMeans ==
  ASSUME evening \in BOOLEAN, NEW seen, ShouldEscalate(seen)
  PROVE  \E h, y, sq :
           LET S == HistoryDays(seen)
               n == Cardinality(S)
               sum == SumFunctionOnSet(h, S)
               excess == n * SessionRate(seen) - sum
           IN  /\ \A d \in S : h[d] = DailyRate(seen, d)
               /\ \A d \in S : y[d] = n * h[d] - sum
               /\ \A d \in S : sq[d] = y[d] * y[d]
               /\ n >= 2 /\ SumFunctionOnSet(sq, S) # 0
               /\ excess > 0 /\ (excess * excess) * (n - 1) > 4 * SumFunctionOnSet(sq, S)
<1> DEFINE S == HistoryDays(seen)
           h == [d \in S |-> DailyRate(seen, d)]
           n == Cardinality(S)
           sum == SumFunctionOnSet(h, S)
           y == [d \in S |-> n * h[d] - sum]
           sq == [d \in S |-> y[d] * y[d]]
           square == [d \in S |-> Square(n * h[d] - sum)]
           excess == n * SessionRate(seen) - sum
<1>1. DOMAIN h = S /\ DOMAIN square = S
  OBVIOUS
<1>2. SumFunction(h) = sum
  BY <1>1, Zenon DEF SumFunction
<1>3. square = sq
  <2>1. \A d \in S : Square(n * h[d] - sum) = y[d] * y[d]
    BY DEF Square
  <2> QED
    BY <2>1, Zenon
<1>4. SumFunction(square) = SumFunctionOnSet(sq, S)
  BY <1>1, <1>3, Zenon DEF SumFunction
<1>5. /\ n >= 2 /\ SumFunction(square) # 0
      /\ excess > 0 /\ Square(excess) * (n - 1) > 4 * SumFunction(square)
  BY <1>1, <1>2 DEF ShouldEscalate, DaysCounted
<1>6. /\ n >= 2 /\ SumFunctionOnSet(sq, S) # 0
      /\ excess > 0 /\ (excess * excess) * (n - 1) > 4 * SumFunctionOnSet(sq, S)
  BY <1>4, <1>5 DEF Square
<1>7. /\ \A d \in S : h[d] = DailyRate(seen, d)
      /\ \A d \in S : y[d] = n * h[d] - sum
      /\ \A d \in S : sq[d] = y[d] * y[d]
  OBVIOUS
<1> QED
  BY <1>6, <1>7, Zenon

\* The variables of the log keep their types.
LEMMA ReviewerTypes == ReviewerSpec => []ReviewerTypeOK
<1>1. ReviewerInit => ReviewerTypeOK
  BY DEF ReviewerInit, ReviewerTypeOK
<1>2. ReviewerTypeOK /\ [ReviewerNext]_reviewerVars => ReviewerTypeOK'
  <2> SUFFICES ASSUME ReviewerTypeOK, [ReviewerNext]_reviewerVars
               PROVE  ReviewerTypeOK'
    OBVIOUS
  <2>1. CASE HalfDayPasses
    <3>1. \A a \in Ages : a # 0 => a - 1 \in Ages
      BY ReviewerAssumption DEF Ages
    <3>2. log' = [a \in Ages |-> IF a = 0 THEN "none" ELSE log[a - 1]]
      BY <2>1 DEF HalfDayPasses
    <3>3. log' \in Logs
      BY <3>1, <3>2 DEF ReviewerTypeOK, Logs
    <3>4. evening' \in BOOLEAN /\ flagged' \in BOOLEAN
      BY <2>1, Zenon DEF HalfDayPasses, ReviewerTypeOK
    <3> QED
      BY <3>3, <3>4, Zenon DEF ReviewerTypeOK, Logs
  <2>2. ASSUME NEW decision \in Decisions, LogDecision(decision)
        PROVE  ReviewerTypeOK'
    <3>1. 0 \in Ages
      BY ReviewerAssumption DEF Ages
    <3>2. log' = [log EXCEPT ![0] = decision]
      BY <2>2 DEF LogDecision, With
    <3>3. log' \in Logs
      BY <3>1, <3>2 DEF ReviewerTypeOK, Logs
    <3>4. evening' \in BOOLEAN /\ flagged' \in BOOLEAN
      <4>1. ShouldEscalate(log) \in BOOLEAN
        BY Zenon DEF ShouldEscalate
      <4> QED
        BY <2>2, <4>1, Zenon DEF LogDecision, SeenByMetrics, ReviewerTypeOK
    <3> QED
      BY <3>3, <3>4, Zenon DEF ReviewerTypeOK, Logs
  <2>3. CASE UNCHANGED reviewerVars
    BY <2>3, Zenon DEF reviewerVars, ReviewerTypeOK
  <2> QED
    BY <2>1, <2>2, <2>3 DEF ReviewerNext
<1> QED
  BY <1>1, <1>2, PTL DEF ReviewerSpec

\* Nothing is flagged but after a confident signal was cancelled in the last 24 hours,
\* and on two days of different rates: the scatter of equal rates is zero.
LEMMA EscalationNeedsCause ==
  ASSUME ReviewerTypeOK, ShouldEscalate(log)
  PROVE  /\ Overrides(log, Lately(log)) # {}
         /\ \E d, e \in HistoryDays(log) : DailyRate(log, d) # DailyRate(log, e)
<1> DEFINE S == HistoryDays(log)
           n == Cardinality(S)
<1>1. evening \in BOOLEAN
  BY Zenon DEF ReviewerTypeOK
<1>2. /\ IsFiniteSet(S) /\ n \in Nat /\ \A d \in S : DailyRate(log, d) \in Nat
  BY <1>1, DaysFacts
<1>3. PICK h, y, sq :
        LET sum == SumFunctionOnSet(h, S)
            excess == n * SessionRate(log) - sum
        IN  /\ \A d \in S : h[d] = DailyRate(log, d)
            /\ \A d \in S : y[d] = n * h[d] - sum
            /\ \A d \in S : sq[d] = y[d] * y[d]
            /\ n >= 2 /\ SumFunctionOnSet(sq, S) # 0
            /\ excess > 0 /\ (excess * excess) * (n - 1) > 4 * SumFunctionOnSet(sq, S)
  BY <1>1, EscalationMeans, Zenon
<1> HIDE DEF S, n
<1>4. \A d \in S : h[d] \in Nat
  BY <1>2, <1>3
<1>5. SumFunctionOnSet(h, S) \in Nat
  BY <1>2, <1>4, SumGrows
<1>6. Overrides(log, Lately(log)) # {}
  <2> SUFFICES ASSUME Overrides(log, Lately(log)) = {}
               PROVE  FALSE
    OBVIOUS
  <2>1. SessionRate(log) = 0
    <3>1. CASE Lately(log) = {}
      BY <3>1 DEF SessionRate
    <3>2. CASE Lately(log) # {}
      <4>1. Lately(log) \in SUBSET Ages
        BY DEF Lately, Decided
      <4>2. Rate(log, Lately(log)) = 0
        BY <3>2, <4>1, RateType
      <4> QED
        BY <3>2, <4>2 DEF SessionRate
    <3> QED
      BY <3>1, <3>2
  <2>2. n * SessionRate(log) = 0
    BY <1>2, <2>1
  <2>3. n * SessionRate(log) - SumFunctionOnSet(h, S) > 0
    BY <1>3
  <2> QED
    BY <1>5, <2>2, <2>3
<1>7. \E d, e \in S : h[d] # h[e]
  <2> SUFFICES ASSUME \A d, e \in S : h[d] = h[e]
               PROVE  FALSE
    OBVIOUS
  <2>1. S # {}
    BY <1>2, <1>3, FS_EmptySet DEF n
  <2>2. PICK x \in S : TRUE
    BY <2>1
  <2>3. h[x] \in Int /\ \A d \in S : h[d] = h[x]
    BY <1>4, <2>2
  <2>4. SumFunctionOnSet(h, S) = h[x] * n
    BY <1>2, <2>3, SumOfConstant DEF n
  <2>5. \A d \in S : sq[d] = 0
    <3> SUFFICES ASSUME NEW d \in S
                 PROVE  sq[d] = 0
      OBVIOUS
    <3>1. y[d] = n * h[d] - SumFunctionOnSet(h, S) /\ sq[d] = y[d] * y[d] /\ h[d] = h[x]
      BY <1>3, <2>3
    <3>2. y[d] = 0
      BY <1>2, <2>3, <2>4, <3>1
    <3> QED
      BY <3>1, <3>2
  <2>6. SumFunctionOnSet(sq, S) = 0 * n
    BY <1>2, <2>5, SumOfConstant DEF n
  <2> QED
    BY <1>2, <1>3, <2>6
<1>8. PICK d \in S, e \in S : h[d] # h[e]
  BY <1>7
<1>9. DailyRate(log, d) # DailyRate(log, e)
  BY <1>3, <1>8
<1> QED
  BY <1>6, <1>8, <1>9 DEF S

\* A row is flagged only where an earlier confident signal was cancelled in the last
\* 24 hours, whatever the window and the bounds: the metrics are computed before the
\* row is written (reviewer_state.py:69-72).
THEOREM FlagsHaveCause == ReviewerSpec => FlagNeedsEarlierCancel
<1> DEFINE Cause == Overrides(log, Lately(log)) # {}
                    /\ \E d, e \in {Day(a) : a \in Decided(log)} : DailyRate(log, d) # DailyRate(log, e)
<1>1. ReviewerTypeOK /\ [ReviewerNext]_reviewerVars
        => [evening' = evening /\ flagged' => Cause]_reviewerVars
  <2> SUFFICES ASSUME ReviewerTypeOK, ReviewerNext, evening' = evening, flagged'
               PROVE  Cause
    OBVIOUS
  <2>1. ~HalfDayPasses
    <3>1. evening \in BOOLEAN
      BY Zenon DEF ReviewerTypeOK
    <3>2. ASSUME HalfDayPasses
          PROVE  FALSE
      <4>1. evening' = ~evening
        BY <3>2 DEF HalfDayPasses
      <4>2. evening = ~evening
        BY <4>1, Zenon
      <4> QED
        BY <3>1, <4>2, Zenon
    <3> QED
      BY <3>2
  <2>2. ShouldEscalate(log)
    BY <2>1, Zenon DEF ReviewerNext, LogDecision, SeenByMetrics
  <2> QED
    BY <2>2, EscalationNeedsCause DEF HistoryDays
<1> QED
  BY <1>1, ReviewerTypes, PTL DEF ReviewerSpec, FlagNeedsEarlierCancel

\* While the last 24 hours are one calendar day, even a day of nothing but overrides
\* is not flagged before the log spans six days, for every log, window and history
\* (reviewer_state.py:191-197): of five values or fewer none lies more than two
\* standard deviations above a mean it is part of.
THEOREM SixDaysBeforeAFlag == ReviewerSpec => []FlagNeedsSixDays
<1>1. ReviewerTypeOK => FlagNeedsSixDays
  <2> SUFFICES ASSUME ReviewerTypeOK, ShouldEscalate(log), \A a \in Lately(log) : Day(a) = 0
               PROVE  Cardinality(HistoryDays(log)) >= 6
    BY DEF FlagNeedsSixDays, HistoryDays
  <2> DEFINE S == HistoryDays(log)
             n == Cardinality(S)
  <2>1. evening \in BOOLEAN
    BY Zenon DEF ReviewerTypeOK
  <2>2. /\ IsFiniteSet(S) /\ n \in Nat /\ \A d \in S : DailyRate(log, d) \in Nat
    BY <2>1, DaysFacts
  <2>3. PICK h, y, sq :
          LET sum == SumFunctionOnSet(h, S)
              excess == n * SessionRate(log) - sum
          IN  /\ \A d \in S : h[d] = DailyRate(log, d)
              /\ \A d \in S : y[d] = n * h[d] - sum
              /\ \A d \in S : sq[d] = y[d] * y[d]
              /\ n >= 2 /\ SumFunctionOnSet(sq, S) # 0
              /\ excess > 0 /\ (excess * excess) * (n - 1) > 4 * SumFunctionOnSet(sq, S)
    BY <2>1, EscalationMeans, Zenon
  <2>4. Lately(log) # {}
    BY EscalationNeedsCause DEF Overrides
  <2>5. {a \in Decided(log) : Day(a) = 0} = Lately(log)
    <3>1. \A a \in Decided(log) : Day(a) = 0 => a <= 2
      BY <2>1, DayFacts DEF Decided
    <3> QED
      BY <3>1 DEF Lately
  <2>6. 0 \in S /\ DailyRate(log, 0) = SessionRate(log)
    <3>1. 0 \in S
      BY <2>4, <2>5 DEF HistoryDays
    <3>2. DailyRate(log, 0) = Rate(log, Lately(log))
      BY <2>5, Zenon DEF DailyRate
    <3> QED
      BY <2>4, <3>1, <3>2 DEF SessionRate
  <2>7. \A d \in S : h[d] \in Int
    BY <2>2, <2>3
  <2> DEFINE e == y[0]
             Q == SumFunctionOnSet(sq, S)
  <2>8. n * (e * e) <= (n - 1) * Q /\ Q \in Int
    BY <2>2, <2>3, <2>6, <2>7, FurthestFromTheMean
  <2>9. e = n * SessionRate(log) - SumFunctionOnSet(h, S)
    BY <2>3, <2>6
  <2>10. (e * e) * (n - 1) > 4 * Q /\ n >= 2 /\ e > 0
    BY <2>3, <2>9
  <2>11. e \in Int
    <3>1. SumFunctionOnSet(h, S) \in Int
      BY <2>2, <2>7, SumIsInt
    <3> QED
      BY <2>2, <2>6, <2>9, <3>1
  <2> HIDE DEF e, Q, n
  <2>12. n >= 6
    <3> DEFINE v == e * e
    <3>1. v \in Nat
      BY <2>11
    <3>2. n * v <= (n - 1) * Q /\ v * (n - 1) > 4 * Q
      BY <2>8, <2>10
    <3> HIDE DEF v
    <3>3. ~(n = 2) /\ ~(n = 3) /\ ~(n = 4) /\ ~(n = 5)
      BY <2>8, <3>1, <3>2
    <3> QED
      BY <2>2, <2>10, <3>3 DEF n
  <2> QED
    BY <2>12 DEF n
<1> QED
  BY <1>1, ReviewerTypes, PTL

-----------------------------------------------------------------------------
(* The parts side by side (Parts).                                         *)

\* A step of the whole is a step of the part it is about, and leaves the others be.
LEMMA StepsOfParts ==
  ASSUME [PartsNext]_partsVars
  PROVE  /\ [SeedNext]_seedVars /\ [ReviewerNext]_reviewerVars /\ [IdeasNext]_ideasVars
         /\ [AnalystNext]_analystVars /\ [WeightNext]_weightVars /\ [EngineNext]_engineVars
         /\ [StoreNext]_storeVars
<1>1. CASE SeedAlone
  BY <1>1, Zenon DEF SeedAlone
<1>2. CASE ReviewerAlone
  BY <1>2, Zenon DEF ReviewerAlone
<1>3. CASE IdeasAlone
  BY <1>3, Zenon DEF IdeasAlone
<1>4. CASE AnalystAlone
  BY <1>4, Zenon DEF AnalystAlone
<1>5. CASE WeightsAlone
  BY <1>5, Zenon DEF WeightsAlone
<1>6. CASE EngineAlone
  BY <1>6, Zenon DEF EngineAlone
<1>7. CASE StoreAlone
  BY <1>7, Zenon DEF StoreAlone
<1>8. CASE UNCHANGED partsVars
  BY <1>8, Zenon DEF partsVars
<1> QED
  BY <1>1, <1>2, <1>3, <1>4, <1>5, <1>6, <1>7, <1>8 DEF PartsNext

\* Every behaviour of the whole is one of each of its parts, so what is proved of a
\* part holds where the run checks them side by side.
THEOREM PartsBehaveAsAlone ==
  PartsSpec => /\ SeedInit /\ [][SeedNext]_seedVars
               /\ EngineInit /\ [][EngineNext]_engineVars
               /\ ReviewerSpec /\ IdeasSpec /\ AnalystSpec /\ WeightSpec /\ StoreSpec
<1>1. PartsInit => /\ SeedInit /\ EngineInit /\ ReviewerInit /\ IdeasInit /\ AnalystInit
                   /\ WeightInit /\ StoreInit
  BY DEF PartsInit
<1>2. [PartsNext]_partsVars
        => /\ [SeedNext]_seedVars /\ [ReviewerNext]_reviewerVars /\ [IdeasNext]_ideasVars
           /\ [AnalystNext]_analystVars /\ [WeightNext]_weightVars /\ [EngineNext]_engineVars
           /\ [StoreNext]_storeVars
  BY StepsOfParts
<1> QED
  BY <1>1, <1>2, PTL DEF PartsSpec, ReviewerSpec, IdeasSpec, AnalystSpec, WeightSpec, StoreSpec

\* The variables of every part keep their types, for every value of the constants.
THEOREM PartsKeepTypes == PartsSpec => []PartsTypeOK
<1>1. SeedInit /\ [][SeedNext]_seedVars => []SeedTypeOK
  <2>1. SeedInv => SeedTypeOK
    BY DEF SeedInv, SeedTypes
  <2> QED
    BY <2>1, SeedInitInv, SeedStepInv, PTL
<1>2. EngineInit /\ [][EngineNext]_engineVars => []EngineTypeOK
  <2>1. JobsInv => EngineTypeOK
    BY JobsAreTyped
  <2> QED
    BY <2>1, JobsInitInv, JobsStepInv, PTL
<1>3. IdeasSpec => []IdeasTypeOK
  <2>1. IdeasInv => IdeasTypeOK
    BY DEF IdeasInv
  <2> QED
    BY <2>1, IdeasInvariant, PTL
<1>4. StoreSpec => []StoreTypeOK
  <2>1. StoreInv => StoreTypeOK
    BY DEF StoreInv
  <2> QED
    BY <2>1, StoreInvariant, PTL
<1>5. /\ SeedTypeOK /\ ReviewerTypeOK /\ IdeasTypeOK /\ AnalystTypeOK
      /\ WeightTypeOK /\ EngineTypeOK /\ StoreTypeOK
      => PartsTypeOK
  BY DEF PartsTypeOK
<1> QED
  BY <1>1, <1>2, <1>3, <1>4, <1>5, PartsBehaveAsAlone, ReviewerTypes, AnalystTypes, WeightTypes, PTL

=============================================================================
