------------------------------ MODULE PurgedCV ------------------------------
(***************************************************************************)
(* research/validation: PurgedKFold and CombinatorialPurgedKFold split the *)
(* labelled events into test blocks and training events, and _purge_embargo*)
(* removes from the latter what overlaps a block or follows it too closely.*)
(*                                                                         *)
(* The splitters are generators with the same loop: a fold is a choice of  *)
(* n_test_groups groups (one, for PurgedKFold) and is purged block by      *)
(* block before it is yielded to cv_score, which fits and scores it.       *)
(*                                                                         *)
(* An event is named by its position in t1. Event starts are distinct and  *)
(* ascending, as split() demands; an event ends at any bar, which need not *)
(* be the start of one (research/labels/barriers.py). embargo_pct is taken *)
(* in whole percents, multiplied exactly.                                  *)
(***************************************************************************)
EXTENDS Integers, Sequences, FiniteSetsExt

CONSTANTS Times,       \* of the bars
          MaxEvents,   \* bound on the number of events
          Percents,    \* embargo_pct
          Recipes      \* <<n_groups, n_test_groups>>; <<n_splits, 1>> for PurgedKFold

ASSUME PurgedCVAssumption ==
  /\ Times \subseteq Nat \ {0}
  /\ MaxEvents \in Nat
  /\ Percents \subseteq 0 .. 99
  /\ \A recipe \in Recipes :
       /\ recipe \in Nat \X Nat
       /\ recipe[1] >= 2 /\ recipe[2] \in 1 .. recipe[1] - 1

NaT == 0     \* no timestamp

VARIABLES
  (* What split() is called with. *)
  t0, t1,      \* where each event starts and ends
  pct, groups, testGroups,
  (* The generator. *)
  pc,          \* "next" fold, "purging", "scoring", "done", "raised"
  ahead,       \* combinations of groups it has yet to yield
  combo,       \* the combination of this fold
  rows,        \* blocks get_train_times has yet to go through
  trn,         \* the events it has kept so far
  (* cv_score. *)
  folds        \* the folds scored so far

input == <<t0, t1, pct, groups, testGroups>>
vars == <<input, pc, ahead, combo, rows, trn, folds>>

Events == DOMAIN t0
Lesser(a, b) == IF a <= b THEN a ELSE b

CutEvenly(g) == g * (Len(t0) \div groups)
\* np.array_split: the first n % groups groups get one event more.
Cut(g) == g * (Len(t0) \div groups) + Lesser(g, Len(t0) % groups)
Group(g) == Cut(g) + 1 .. Cut(g + 1)

UpTo(k, n) == {c \in SUBSET (0 .. n - 1) : Cardinality(c) \in 1 .. k}
\* combinations(range(n_groups), n_test_groups)
Combinations(k, n) == kSubset(k, 0 .. n - 1)
\* Their canonical order.
Before(c, d) == \E g \in c \ d : \A h \in d \ c : g < h

Tested(c) == UNION {Group(g) : g \in c}

\* One block: the start of its first event, and when the last of its outcomes
\* is known.
BlockStart(g) == t0[Cut(g) + 1]
LastEventEnd(g) == t1[Cut(g + 1)]
BlockEnd(g) == CHOOSE end \in {t1[i] : i \in Group(g)} : \A i \in Group(g) : t1[i] <= end

\* The embargo, in events.
Step == (Len(t0) * pct) \div 100

EmbargoSparesTail(end) ==
  LET at == {p \in Events : t0[p] = end}
      p == CHOOSE q \in at : TRUE
  IN  IF at = {} THEN NaT ELSE IF p + Step > Len(t0) THEN end ELSE t0[p + Step]
\* test_times.map(embargo_map): the map has the event starts as its keys, and
\* an end that is none of them is mapped to NaT.
Embargoed(end) ==
  LET at == {p \in Events : t0[p] = end}
  IN  IF at = {} THEN NaT
      ELSE t0[Lesser((CHOOSE p \in at : TRUE) + Step, Len(t0))]

StartsBeforeEnd(i, row) == row.end # NaT /\ t0[i] <= row.end
\* The three masks of get_train_times; every comparison with NaT is false.
Overlaps(i, row) ==
  /\ row.end # NaT
  /\ \/ row.start <= t0[i] /\ t0[i] <= row.end
     \/ row.start <= t1[i] /\ t1[i] <= row.end
     \/ t0[i] <= row.start /\ row.end <= t1[i]

-----------------------------------------------------------------------------

Init ==
  /\ \E n \in 1 .. MaxEvents : t0 \in [1 .. n -> Times]
  /\ \A i, j \in Events : i < j => t0[i] < t0[j]
  /\ t1 \in [Events -> Times]
  /\ \A i \in Events : t0[i] <= t1[i]
  /\ pct \in Percents
  /\ \E recipe \in Recipes : groups = recipe[1] /\ testGroups = recipe[2]
  /\ pc = "next"
  /\ ahead = Combinations(testGroups, groups)
  /\ combo = {} /\ rows = {} /\ trn = {}
  /\ folds = <<>>

\* The generator takes up the next combination and prepares its blocks.
NextFold ==
  /\ pc = "next"
  /\ \E c \in ahead :
       /\ \A d \in ahead \ {c} : Before(c, d)
       /\ \A g \in c : Group(g) # {}
       /\ combo' = c
       /\ rows' = {[start |-> BlockStart(g), end |-> Embargoed(BlockEnd(g))] : g \in c}
  /\ ahead' = ahead \ {combo'}
  /\ trn' = Events
  /\ pc' = "purging"
  /\ UNCHANGED <<input, folds>>

\* More groups than events: an empty group has no first event, IndexError.
EmptyGroup ==
  /\ pc = "next"
  /\ \E c \in ahead :
       /\ \A d \in ahead \ {c} : Before(c, d)
       /\ \E g \in c : Group(g) = {}
  /\ pc' = "raised"
  /\ UNCHANGED <<input, ahead, combo, rows, trn, folds>>

\* One turn of the loop over test_times.
PurgeBlock ==
  /\ pc = "purging"
  /\ \E row \in rows :
       /\ \A other \in rows : row.start <= other.start
       /\ trn' = {i \in trn : ~Overlaps(i, row)}
       /\ rows' = rows \ {row}
  /\ UNCHANGED <<input, pc, ahead, combo, folds>>

\* All blocks are purged: the fold is yielded.
Yield ==
  /\ pc = "purging" /\ rows = {}
  /\ pc' = "scoring"
  /\ UNCHANGED <<input, ahead, combo, rows, trn, folds>>

\* cv_score fits the training events, scores the tested ones and comes back for
\* the next fold.
Score ==
  /\ pc = "scoring" /\ trn # {}
  /\ folds' = Append(folds, [combo |-> combo, train |-> trn, test |-> Tested(combo)])
  /\ pc' = IF ahead = {} THEN "done" ELSE "next"
  /\ UNCHANGED <<input, ahead, combo, rows, trn>>

\* There is nothing to fit: the estimator raises.
FitFails ==
  /\ pc = "scoring" /\ trn = {}
  /\ pc' = "raised"
  /\ UNCHANGED <<input, ahead, combo, rows, trn, folds>>

Next == NextFold \/ EmptyGroup \/ PurgeBlock \/ Yield \/ Score \/ FitFails

Spec == Init /\ [][Next]_vars

-----------------------------------------------------------------------------
(* Properties.                                                             *)

Spans == [start : Times, end : Times \union {NaT}]
Folds == [combo : SUBSET Nat, train : SUBSET Nat, test : SUBSET Nat]

\* Types; every fold has as many groups as were asked for, and none comes twice.
TypeOK ==
  /\ t0 \in Seq(Times) /\ t1 \in Seq(Times) /\ Len(t0) = Len(t1)
  /\ pct \in Percents /\ <<groups, testGroups>> \in Recipes
  /\ pc \in {"next", "purging", "scoring", "done", "raised"}
  /\ ahead \subseteq SUBSET (0 .. groups - 1)
  /\ combo \subseteq 0 .. groups - 1
  /\ rows \subseteq Spans /\ Cardinality(rows) <= testGroups
  /\ trn \subseteq Events
  /\ folds \in Seq(Folds)
  /\ \A k \in DOMAIN folds :
       /\ Cardinality(folds[k].combo) = testGroups
       /\ \A l \in DOMAIN folds : folds[k].combo = folds[l].combo => k = l

\* The case the kernel is made for: each block of a fold ends where some event
\* starts, so the embargo finds it.
EndsFound(c) == \A g \in c : \E p \in Events : t0[p] = BlockEnd(g)

\* "Leak-proof": no outcome a model is trained on is still open while one it is
\* tested on is, across the embargo's lookup and the purge of block after block
\* (purge.py:131-138, 193-195), when the ends of the blocks are found.
NoLeak ==
  \A k \in DOMAIN folds : EndsFound(folds[k].combo) =>
    \A i \in folds[k].train, j \in folds[k].test : t1[i] < t0[j] \/ t1[j] < t0[i]

\* Events that start after the end of block g, up to and including event i.
Between(g, i) == {j \in Events : BlockEnd(g) < t0[j] /\ j <= i}

\* Forward embargo (purge.py:75-86): the first Step events after the end of any
\* tested block are not trained on, up to the clamp at the last event.
EmbargoHolds ==
  \A k \in DOMAIN folds : EndsFound(folds[k].combo) =>
    \A i \in folds[k].train, g \in folds[k].combo :
      BlockEnd(g) < t0[i] => Cardinality(Between(g, i)) > Step

\* Nothing else is given up: whatever is missing from a training set resolves
\* after the start of a block and starts before its end or within the embargo.
\* In particular the history before a block stays (purge.py:169-173).
OnlyLeaksPurged ==
  \A k \in DOMAIN folds : \A i \in Events \ folds[k].train :
    \E g \in folds[k].combo :
      /\ t1[i] >= BlockStart(g)
      /\ t0[i] <= BlockEnd(g) \/ Cardinality(Between(g, i)) <= Step

\* When all folds are scored every event has been tested equally often: once by
\* PurgedKFold, and in its share of the combinations by the other, also when the
\* groups are not of one size (splitters.py:124-125, cpcv.py:131-136).
EvenlyTested ==
  pc = "done" =>
    /\ Len(folds) = Cardinality(Combinations(testGroups, groups))
    /\ \A i \in Events :
         groups * Cardinality({k \in DOMAIN folds : i \in folds[k].test})
           = testGroups * Len(folds)

\* "Every test event's own t0 necessarily falls inside its own fold's span, so
\* the overlap condition naturally excludes the test fold's own rows from the
\* surviving train set" (splitters.py:20-24). (Not when the end is not found.)
TestRowsExcluded ==
  \A k \in DOMAIN folds : folds[k].train \intersect folds[k].test = {}

=============================================================================
