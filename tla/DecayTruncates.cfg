\* The documented share that a negative rate zeroes, at c = -1/4 and c = -3/4.
SPECIFICATION WeightSpec
CONSTANTS
  VolSpan = 2
  Kappa = 1
  PtMult = 1
  SlMult = 1
  MaxHp = 2
  MinRet = 0
  VolUnit = 4
  Vols = {2, 8}
  Moves <- MCMoves
  BaseLevel = 8
  MaxBars = 7
  DecayQuarters <- MCTruncating
  MaxDraws = 0
  Whole = 360
INVARIANT OldestShareTruncated
CHECK_DEADLOCK FALSE
