---------------------------- MODULE ParallelMap ----------------------------
(***************************************************************************)
(* What mp_pandas_obj (research/features/mp_engine.py) promises: the       *)
(* number of threads and the order in which the workers finish make no     *)
(* difference.  "Single-process path -- easier to debug, same result"      *)
(* (mp_engine.py:192).                                                     *)
(***************************************************************************)
EXTENDS Integers, Sequences

VARIABLES
  call,     \* the arguments: how many atoms, batches and threads, which atoms fail
            \* and whether the function can be sent to another process
  outcome,  \* <<>>, or what the call returned or raised
  lost      \* a worker died with a job in its hands

mapVars == <<call, outcome, lost>>

NoCall == [atoms |-> 0, batches |-> 0, threads |-> 0, failing |-> {}, picklable |-> FALSE]
Raised == <<"raised">>
Nothing == <<"None">>

\* The atoms of the first batch in order, then those of the second...
Ahead(batches, a, b) ==
  LET batch(x) == (x - 1) % batches
  IN  batch(a) < batch(b) \/ (batch(a) = batch(b) /\ a < b)
BatchOrder(n, batches) ==
  CHOOSE s \in [1..n -> 1..n] : \A i, j \in 1..n : i < j => Ahead(batches, s[i], s[j])

Sequential(c) ==
  IF c.threads < 1 \/ c.batches < 1 THEN Raised
  ELSE IF c.atoms = 0 THEN Nothing
  ELSE IF c.failing \cap 1..c.atoms # {} \/ (c.threads > 1 /\ ~c.picklable) THEN Raised
  ELSE <<"returned", BatchOrder(c.atoms, c.batches)>>

MapInit == call = NoCall /\ outcome = <<>> /\ lost = FALSE

Call == call = NoCall /\ call' # NoCall /\ UNCHANGED lost /\ outcome' \in {<<>>, Sequential(call')}
Answer == call # NoCall /\ outcome = <<>> /\ outcome' = Sequential(call) /\ UNCHANGED <<call, lost>>
Lose == call # NoCall /\ outcome = <<>> /\ lost' = TRUE /\ UNCHANGED <<call, outcome>>

MapNext == Call \/ Answer \/ Lose
MapSafety == MapInit /\ [][MapNext]_mapVars
\* A call is answered, unless a worker is lost: then it may wait for ever.
MapSpec == MapSafety /\ WF_mapVars(~lost /\ Answer)

=============================================================================
