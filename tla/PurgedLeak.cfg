\* The rows of a fold that end where no event starts.
SPECIFICATION Spec
CONSTANTS
  Times = {1, 2, 3, 4, 5, 6}
  MaxEvents = 4
  Percents = {0}
  Recipes <- MCRecipes
INVARIANT TestRowsExcluded
CHECK_DEADLOCK FALSE
