CONSTANTS
  r1 = r1
  r2 = r2
  s1 = s1
  Signals = {s1}
  Requests = {r1}
  SignalOf <- MCSignalOf
  Timeout = 4
  Chunk = 2
  TicksPerSecond = 2
  Latency = 1
  MaxTaps <- MCMaxTaps
SPECIFICATION Spec
INVARIANT
  ApprovedWithinTimeout
CHECK_DEADLOCK FALSE
