\* The documented listing, with one weight recipe stored for two label sets.
SPECIFICATION StoreSpec
CONSTANTS
  Symbols <- MCSymbols
  Thresholds = {10000}
  LabelRecipes = {"l1", "l2"}
  WeightRecipes = {"w1"}
  MaxStores = 2
INVARIANT EveryWeightSetListed
CHECK_DEADLOCK FALSE
