--------------------------- MODULE SampleWeights ---------------------------
(***************************************************************************)
(* research/weights: how much a label counts when it shares its bars with  *)
(* others, built once from a finished history of TripleBarrier, and the    *)
(* sequential bootstrap that then draws from the labels, event by event.   *)
(*                                                                         *)
(* A uniqueness is in units of 1/Whole, which what a label shares with     *)
(* others always divides; decay_c is in quarters.                          *)
(***************************************************************************)
EXTENDS TripleBarrier, FiniteSets, SequencesExt

CONSTANTS DecayQuarters,  \* WeightConfig.decay_c, times 4
          MaxDraws,       \* bound on s_length
          Whole           \* the unit of uniqueness

ASSUME WeightAssumption ==
  /\ \A c \in DecayQuarters : c \in Int /\ c <= 4   \* all that WeightConfig asks
  /\ MaxDraws \in Nat /\ Whole \in Nat \ {0}
  /\ \A span \in 1..MaxHp + 1, count \in 1..MaxHp + MaxDraws + 2 : Whole % (span * count) = 0

VARIABLES
  t1,        \* the labels' ends, by start; empty before the build
  coEvents,  \* num_co_events, bar by bar
  tw,        \* avg_uniqueness, by start
  phi        \* the draws of seq_bootstrap, in order
weightVars == <<labelVars, t1, coEvents, tw, phi>>

Labelled == DOMAIN t1

-----------------------------------------------------------------------------
(* Concurrency.                                                            *)

Ends == [e \in {l.t0 : l \in GetBins} |-> (CHOOSE l \in GetBins : l.t0 = e).t1]

TwoAfterEnd(end) == end + 2
AfterEnd(end) == end + 1

\* num_co_events: +1 where an event starts, -1 after it ends, summed up bar by bar.
NumCoEvents(ends) ==
  LET starting(i) == Cardinality({e \in DOMAIN ends : e = i})
      ending(i) == Cardinality({e \in DOMAIN ends : AfterEnd(ends[e]) = i})
      count[i \in 0..Len(path)] == IF i = 0 THEN 0 ELSE count[i - 1] + starting(i) - ending(i)
  IN  count

\* The mean over some bars of 1 / count.
MeanShare(bars, count) ==
  SumFunction([i \in bars |-> Whole \div (Cardinality(bars) * count[i])])

AvgUniqueness(ends, counts) == [e \in DOMAIN ends |-> MeanShare(e..ends[e], counts)]

\* build_sample_weights counts once, and both the uniqueness and the weights use it.
BuildWeights ==
  /\ t1 = <<>> /\ GetBins # {}
  /\ t1' = Ends
  /\ coEvents' = NumCoEvents(t1')
  /\ tw' = AvgUniqueness(t1', coEvents')
  /\ UNCHANGED <<labelVars, phi>>

\* return_attribution, in 1/Whole of a level: the event's log returns, each shared
\* with the events that span the same bar.
Attribution(e) ==
  LET sum == SumFunction(
               [i \in e..t1[e] |-> (path[i] - path[i - 1]) * (Whole \div coEvents[i])])
  IN  IF sum < 0 THEN -sum ELSE sum

\* normalize_weights, times the total attribution (or 1 when that is zero, and the
\* weights stay as they are): they add up to their number.
NormalizedWeight(e) == Attribution(e) * Cardinality(Labelled)

TotalUniqueness == SumFunction(tw)
CumulativeFromNewest(e) == SumFunctionOnSet(tw, {d \in Labelled : d >= e})
Cumulative(e) == SumFunctionOnSet(tw, {d \in Labelled : d <= e})

\* time_decay, as a fraction: linear in the cumulative uniqueness, not in time. At
\* c = -1 the code divides by zero and every factor is NaN: here 0/0.
TimeDecay(c, e) ==
  LET total == TotalUniqueness
      behind == total - Cumulative(e)
      scale == (4 + c) * total
  IN  IF c >= 0 THEN [num |-> 4 * total - (4 - c) * behind, den |-> 4 * total]
      ELSE IF c >= -4 THEN [num |-> Max({0, scale - 4 * behind}), den |-> scale]
      ELSE [num |-> 4 * behind - scale, den |-> -scale]

\* The weight column, over a denominator that all the labels share.
Weight(c, e) == NormalizedWeight(e) * TimeDecay(c, e).num

-----------------------------------------------------------------------------
(* Sequential bootstrap.                                                   *)

\* get_ind_matrix: whether the column of event e has a 1 in the row of bar i.
IndMatrix(e, i) == e <= i /\ i <= t1[e]

CoveringOnce(columns, i) ==
  Cardinality({e \in {columns[k] : k \in DOMAIN columns} : IndMatrix(e, i)})
\* A row's sum over the columns drawn, each as often as it was drawn.
Covering(columns, i) == Cardinality({k \in DOMAIN columns : IndMatrix(columns[k], i)})

\* ind_matrix_avg_uniqueness of the k-th column.
IndMatrixAvgUniqueness(columns, k) ==
  LET bars == {i \in DOMAIN path : IndMatrix(columns[k], i)}
  IN  MeanShare(bars, [i \in bars |-> Covering(columns, i)])

\* What a candidate's probability is proportional to, given the draws so far.
Candidacy(drawn, e) == IndMatrixAvgUniqueness(Append(drawn, e), Len(drawn) + 1)

\* A draw of seq_bootstrap: any candidate of positive probability.
Draw(e) ==
  /\ Len(phi) < MaxDraws /\ Candidacy(phi, e) > 0
  /\ phi' = Append(phi, e)
  /\ UNCHANGED <<labelVars, t1, coEvents, tw>>

WeightInit == LabelInit /\ t1 = <<>> /\ coEvents = <<>> /\ tw = <<>> /\ phi = <<>>
WeightNext ==
  \/ t1 = <<>> /\ LabelNext /\ UNCHANGED <<t1, coEvents, tw, phi>>
  \/ BuildWeights
  \/ \E e \in Labelled : Draw(e)

WeightSpec == WeightInit /\ [][WeightNext]_weightVars

-----------------------------------------------------------------------------
(* Properties.                                                             *)

Apart(d, e) == t1[d] < e \/ t1[e] < d

WeightTypeOK ==
  /\ LabelTypeOK /\ phi \in Seq(Labelled) /\ DOMAIN tw = Labelled
  /\ \A e \in Labelled : t1[e] \in e..Len(path) /\ tw[e] \in 1..Whole

\* The two ways to an event's average uniqueness, the sweep over the differences
\* (concurrency.py:91-94) and the row sums of the indicator matrix
\* (bootstrap.py:88-90), agree on every set of labels a history can have.
UniquenessPathsAgree ==
  LET columns == SetToSeq(Labelled)
  IN  \A k \in DOMAIN columns : tw[columns[k]] = IndMatrixAvgUniqueness(columns, k)

\* The next draw shuns what is drawn (bootstrap.py:103-108): an event is at its
\* likeliest exactly while it shares no bar with a draw, drawing it makes it less
\* likely every time, and drawing one that it shares no bar with does not.
RepeatsLoseWeight ==
  \A e \in Labelled :
    /\ Candidacy(phi, e) = Whole <=> \A k \in DOMAIN phi : Apart(phi[k], e)
    /\ Candidacy(Append(phi, e), e) < Candidacy(phi, e)
    /\ \A d \in Labelled : Apart(d, e) => Candidacy(Append(phi, d), e) = Candidacy(phi, e)

\* What the rate does, in each of its regimes (decay.py:66-79, where WeightConfig
\* sets "no lower bound"). Except at c = -1 "the NEWEST event's factor is always
\* exactly 1.0". For c > -1 an event never outweighs a newer one of the same
\* attribution; for c < -1 the slope is negative and it is the other way round.
\* Only a c between -1 and 0 zeroes anything: the events within the oldest -c of
\* the cumulative uniqueness.
DecayByRegime ==
  \A c \in DecayQuarters : \A e \in Labelled :
    LET decay == TimeDecay(c, e)
    IN  /\ decay.den = 0 <=> c = -4
        /\ c # -4 =>
             /\ (\A d \in Labelled : d <= e) => decay.num = decay.den
             /\ decay.num = 0 <=> c \in -3..-1 /\ 4 * Cumulative(e) <= -c * TotalUniqueness
        /\ \A d \in Labelled : d <= e /\ Attribution(d) = Attribution(e) =>
             /\ c > -4 => Weight(c, d) <= Weight(c, e)
             /\ c < -4 => Weight(c, d) >= Weight(c, e)

\* "c < 0 is the legitimate truncation regime (the oldest (1 + c) fraction of
\* cumulative uniqueness is zeroed outright)" (weights/config.py:41-43, decay.py:
\* 17-18, 49-50). (It is the oldest -c, and nothing for c < -1.)
OldestShareTruncated ==
  \A c \in DecayQuarters : \A e \in Labelled :
    c < 0 => (TimeDecay(c, e).num = 0 <=> 4 * Cumulative(e) <= (4 + c) * TotalUniqueness)

=============================================================================
