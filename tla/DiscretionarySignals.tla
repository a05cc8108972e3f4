------------------------ MODULE DiscretionarySignals ------------------------
(***************************************************************************)
(* notifications/discretionary.py: ideas a person submits and the          *)
(* meta-labelling layer takes as input.  Fetching the pending ideas and    *)
(* marking one of them are transactions of their own; the consumers        *)
(* between them are not part of the repository yet and may die anywhere.   *)
(***************************************************************************)
EXTENDS Integers, FiniteSets, Sequences

CONSTANTS Consumers, Pairs,
          MaxIdeas, MaxCrashes  \* bounds

ASSUME IdeasAssumption == IsFiniteSet(Consumers) /\ MaxIdeas \in Nat /\ MaxCrashes \in Nat

AnyPair == "any"   \* get_pending(symbol=None)
Idle == 0          \* no idea in hand; references are 1, 2, ...

VARIABLES
  ideas,    \* the discretionary_signals table: a sequence, by reference
  pending,  \* consumer -> the references it fetched and has not yet worked on
  inHand,   \* consumer -> the idea it has used and not yet marked
  uses,     \* history: reference -> how often it was used
  deaths    \* history: how many consumers died

ideasVars == <<ideas, pending, inHand, uses, deaths>>

IdeasInit ==
  /\ ideas = <<>> /\ uses = <<>> /\ deaths = 0
  /\ pending = [c \in Consumers |-> {}] /\ inHand = [c \in Consumers |-> Idle]

\* submit: an unknown direction or a conviction outside [0, 1] is refused.
Submit(pair, direction, conviction) ==
  /\ Len(ideas) < MaxIdeas
  /\ direction \in {"long", "short"} /\ conviction \in 0..100
  /\ ideas' = Append(ideas, [pair |-> pair, consumed |-> FALSE])
  /\ uses' = Append(uses, 0)
  /\ UNCHANGED <<pending, inHand, deaths>>

ForPair(pair) == {i \in DOMAIN ideas : pair \in {AnyPair, ideas[i].pair}}
Unconsumed(pair) == {i \in ForPair(pair) : ~ideas[i].consumed}

GetPending(c, pair) ==
  /\ pending[c] = {} /\ inHand[c] = Idle
  /\ pending' = [pending EXCEPT ![c] = Unconsumed(pair)]
  /\ UNCHANGED <<ideas, inHand, uses, deaths>>

\* External: the consumer works on one of the ideas it was given.
UseIdea(c, i) ==
  /\ inHand[c] = Idle /\ i \in pending[c]
  /\ pending' = [pending EXCEPT ![c] = @ \ {i}]
  /\ inHand' = [inHand EXCEPT ![c] = i]
  /\ uses' = [uses EXCEPT ![i] = @ + 1]
  /\ UNCHANGED <<ideas, deaths>>

\* mark_consumed: an UPDATE that does not ask whether the row was consumed.
MarkConsumed(c) ==
  /\ inHand[c] # Idle
  /\ ideas' = [ideas EXCEPT ![inHand[c]].consumed = TRUE]
  /\ inHand' = [inHand EXCEPT ![c] = Idle]
  /\ UNCHANGED <<pending, uses, deaths>>

\* External: a consumer dies and starts again with nothing in hand.
ConsumerDies(c) ==
  /\ deaths < MaxCrashes
  /\ inHand[c] # Idle \/ pending[c] # {}
  /\ deaths' = deaths + 1
  /\ pending' = [pending EXCEPT ![c] = {}] /\ inHand' = [inHand EXCEPT ![c] = Idle]
  /\ UNCHANGED <<ideas, uses>>

IdeasNext ==
  \/ \E pair \in Pairs, direction \in {"long", "short", "flat"}, conviction \in {0, 100, 101} :
       Submit(pair, direction, conviction)
  \/ \E c \in Consumers :
       \/ \E pair \in Pairs \cup {AnyPair} : GetPending(c, pair)
       \/ \E i \in pending[c] : UseIdea(c, i)
       \/ MarkConsumed(c)
       \/ ConsumerDies(c)

IdeasSpec == IdeasInit /\ [][IdeasNext]_ideasVars

-----------------------------------------------------------------------------
(* Properties.                                                             *)

IdeasTypeOK ==
  /\ ideas \in Seq([pair : Pairs, consumed : BOOLEAN])
  /\ uses \in Seq(Nat) /\ Len(uses) = Len(ideas) /\ deaths \in Nat
  /\ pending \in [Consumers -> SUBSET DOMAIN ideas]
  /\ inHand \in [Consumers -> DOMAIN ideas \cup {Idle}]

\* Two consumers that fetch before either marks both use an idea, and one that
\* dies between using and marking uses it again (discretionary.py:137); nothing
\* else repeats: an idea is used once per consumer and once more per death.
UsesBounded == \A i \in DOMAIN uses : uses[i] <= Cardinality(Consumers) + deaths

=============================================================================
