\* What one abort can lose for good.
SPECIFICATION Spec
CONSTANTS
  Prices <- MCPrices
  Amounts = {1}
  Gaps = {1}
  Inf = 9
  Threshold <- MCThreshold
  PageSize <- MCPageSize
  Interval = 1
  Overrides = {}
  MaxTrades = 4
  MaxAborts = 1
  MaxOverrides = 0
INVARIANT NothingLost
