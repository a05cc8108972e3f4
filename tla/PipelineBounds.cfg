\* Every interleaving of runs, decisions, closing positions and P&L moves.
\* Distances: 0 is a flat stop, 1 and 3 tie up all and a third of the capital,
\* 40 is an ordinary signal whose size is rounded, 50 puts a short's target at 0
\* and 100 a long's stop.
SPECIFICATION Spec
CONSTANTS
  Symbols <- MCSymbols
  Entries = {100}
  Distances = {0, 1, 3, 40, 50, 100}
  PnLs <- MCPnLs
  Capital = 10000
INVARIANTS TypeOK OpenBounded HaltTakesHold RiskWithinShare CommitmentBounded
