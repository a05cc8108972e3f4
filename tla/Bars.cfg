\* Up to two aborts at any step and one call with since_ms, between and during
\* runs that are not disturbed, while trades keep coming in; some share a
\* millisecond. Bars have one to three trades and are flushed one or two at a time.
SPECIFICATION FairSpec
CONSTANTS
  Prices <- MCPrices
  Amounts = {1}
  Gaps = {0, 1}
  Inf = 9
  Threshold <- MCThreshold
  PageSize <- MCPageSize
  Interval = 1
  Overrides = {2}
  MaxTrades = 4
  MaxAborts = 2
  MaxOverrides = 1
INVARIANTS TypeOK CompleteAndOnce OnlyTiesSkipped BarsAreFaithful LossIsBelowOneBar
PROPERTIES BarsEndAtThreshold RunCatchesUp
