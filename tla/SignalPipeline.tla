--------------------------- MODULE SignalPipeline ---------------------------
(***************************************************************************)
(* agents/coordinator.py: SignalCoordinator evaluates every supported      *)
(* symbol (fetch, analyse, validate) against the one SystemState it was    *)
(* given, and returns what the risk gate approved.                         *)
(*                                                                         *)
(* The caller is external. It does what the docstrings ask of it: it hands *)
(* a current SystemState to update_system_state between runs, latches the  *)
(* kill switch when check_kill_switch says so, and takes the approved      *)
(* signals of a run to the reviewer one by one before it starts the next.  *)
(* The exchange closes positions and moves the day's P&L at any time, also *)
(* in the middle of a run.                                                 *)
(***************************************************************************)
EXTENDS RiskGate, SequencesExt

CONSTANTS Symbols,       \* SUPPORTED_SYMBOLS, in order
          Entries,       \* entry prices the analyst may see
          Distances,     \* distances from entry to the swing extreme
          PnLs,          \* daily P&L in basis points
          Capital        \* total_capital

ASSUME PipelineAssumption ==
  /\ Symbols \in Seq(STRING) /\ Symbols # <<>>
  /\ Entries \subseteq Nat
  /\ Distances \subseteq Nat
  /\ PnLs \subseteq Int /\ 0 \in PnLs
  /\ Capital \in Nat

VARIABLES
  (* The coordinator. *)
  snapshot,   \* _system_state
  todo,       \* symbols run_pipeline has yet to evaluate
  cleared,    \* the risk_approved results, until the caller has dealt with them
  (* The caller and the exchange. *)
  trades,     \* what each open trade ties up, oldest first
  pnl,        \* daily P&L
  killed,     \* has the caller set the kill switch?
  (* History. *)
  sinceHalt   \* trades opened since the drawdown limit was hit, until reset

coordinatorVars == <<snapshot, todo, cleared>>
callerVars == <<trades, pnl, killed, sinceHalt>>
vars == <<snapshot, todo, cleared, trades, pnl, killed, sinceHalt>>

Idle == todo = <<>> /\ cleared = <<>>
TiedUp == SumFunction(trades)

\* The SystemState a caller would build now.
Ledger == [total |-> Capital, available |-> Capital - TiedUp,
           open |-> Len(trades), pnl |-> pnl, killed |-> killed]

-----------------------------------------------------------------------------
Init ==
  /\ trades = <<>> /\ pnl = 0 /\ killed = FALSE /\ sinceHalt = 0
  /\ snapshot = Ledger
  /\ todo = <<>> /\ cleared = <<>>

\* update_system_state, between runs.
UpdateSystemState ==
  /\ Idle
  /\ snapshot' = Ledger
  /\ UNCHANGED <<todo, cleared, callerVars>>

\* run_pipeline is called by a caller who has reported every change.
RunPipeline ==
  /\ Idle
  /\ snapshot = Ledger
  /\ todo' = Symbols
  /\ UNCHANGED <<snapshot, cleared, callerVars>>

\* evaluate_symbol ends without a verdict: the fetch, the analysis or the gate
\* raised, or there is no signal.
NoVerdict ==
  /\ todo # <<>>
  /\ todo' = Tail(todo)
  /\ UNCHANGED <<snapshot, cleared, callerVars>>

\* evaluate_symbol reaches the risk gate, which rejects or approves. The stop of a
\* long is the low of a candle, which is not negative.
Judge ==
  /\ todo # <<>>
  /\ \E direction \in {"long", "short"}, entry \in Entries, distance \in Distances :
       /\ direction = "long" => distance <= entry
       /\ LET signal == Levels(direction, entry, distance)
          IN  IF Validate(signal, snapshot) = "approved"
              THEN cleared' = Append(cleared, [signal |-> signal,
                                               size |-> PositionSize(signal, snapshot)])
              ELSE cleared' = cleared
  /\ todo' = Tail(todo)
  /\ UNCHANGED <<snapshot, callerVars>>

-----------------------------------------------------------------------------
(* External: the caller once the run has returned, and the exchange.       *)

\* The reviewer approves the next signal and it is traded.
Execute ==
  /\ todo = <<>> /\ cleared # <<>>
  /\ trades' = Append(trades, Head(cleared).size * Head(cleared).signal.entry_price)
  /\ sinceHalt' = IF killed THEN sinceHalt + 1 ELSE sinceHalt
  /\ cleared' = Tail(cleared)
  /\ UNCHANGED <<snapshot, todo, pnl, killed>>

\* The reviewer cancels it, or lets it time out.
Cancel ==
  /\ todo = <<>> /\ cleared # <<>>
  /\ cleared' = Tail(cleared)
  /\ UNCHANGED <<snapshot, todo, callerVars>>

PositionCloses ==
  /\ \E i \in DOMAIN trades : trades' = RemoveAt(trades, i)
  /\ UNCHANGED <<coordinatorVars, pnl, killed, sinceHalt>>

\* After every P&L update the caller asks check_kill_switch, and latches.
PnlMoves ==
  /\ \E p \in PnLs : pnl' = p /\ killed' = (killed \/ CheckKillSwitch(p))
  /\ UNCHANGED <<coordinatorVars, trades, sinceHalt>>

\* "Manual reset required", which also starts a new day's P&L.
ManualReset ==
  /\ killed
  /\ killed' = FALSE /\ pnl' = 0 /\ sinceHalt' = 0
  /\ UNCHANGED <<coordinatorVars, trades>>

Next ==
  \/ UpdateSystemState \/ RunPipeline \/ NoVerdict \/ Judge
  \/ Execute \/ Cancel \/ PositionCloses \/ PnlMoves \/ ManualReset

Spec == Init /\ [][Next]_vars

-----------------------------------------------------------------------------
(* Properties.                                                             *)

SystemStates == [total : {Capital}, available : Int, open : Nat,
                 pnl : PnLs, killed : BOOLEAN]
\* A price that is missing (zero) never leaves the gate; the target of a short
\* may be negative, its stop may not.
Prices == Int \ {0}
Signals == [direction : {"long", "short"}, entry_price : Nat \ {0},
            stop_loss : Nat \ {0}, take_profit : Prices]
Approvals == [signal : Signals, size : Nat]

\* Types; validate (risk.py:109-130) lets no signal through that lacks a price.
TypeOK ==
  /\ snapshot \in SystemStates
  /\ todo \in Seq(STRING) /\ Len(todo) <= Len(Symbols)
  /\ cleared \in Seq(Approvals) /\ Len(cleared) + Len(todo) <= Len(Symbols)
  /\ trades \in Seq(Nat)
  /\ pnl \in PnLs
  /\ killed \in BOOLEAN
  /\ sinceHalt \in Nat

\* The limit of concurrent positions is checked per signal against the state at
\* the start of the run (coordinator.py:135-138, risk.py:93), so a run may
\* overshoot it, but only by the other symbols of that one run: runs do not add up.
OpenBounded == Len(trades) <= MaxConcurrentPositions - 1 + Len(Symbols)

\* Once the daily loss limit is hit, nothing is traded until the manual reset
\* beyond what the run under way then had cleared, even if the P&L recovers
\* (risk.py:73-90).
HaltTakesHold == sinceHalt <= Len(Symbols)

\* A cleared position loses at its stop what the rules allow, to half a lot, the
\* rounding of position_size (risk.py:140-141, 158).
RiskWithinShare ==
  \A i \in DOMAIN cleared :
    LET distance == RiskDistance(cleared[i].signal)
    IN  2 * Distance(RiskShare * cleared[i].size * distance, Capital)
          <= RiskShare * distance

\* Money is over-committed by one run at most: each signal is affordable on its
\* own at the start of the run (risk.py:144-145), so trades never tie up more
\* than the capital once per symbol, with half a lot each for the rounding.
CommitmentBounded ==
  \A e \in Entries : (\A f \in Entries : f <= e) =>
    2 * TiedUp <= Len(Symbols) * (2 * Capital + e)

\* What risk.py:21 says of MAX_CONCURRENT_POSITIONS: "Maximum open positions at
\* once". (The code exceeds it.)
PositionsWithinLimit == Len(trades) <= MaxConcurrentPositions

=============================================================================
