\* The documented limit on open positions, which one run can exceed.
SPECIFICATION Spec
CONSTANTS
  Symbols <- MCSymbols
  Entries = {100}
  Distances = {40}
  PnLs <- MCPnLs
  Capital = 10000
INVARIANT PositionsWithinLimit
