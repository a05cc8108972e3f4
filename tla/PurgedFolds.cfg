\* Every set of up to five events on six bars, with no embargo and with one of
\* one and two events.
SPECIFICATION Spec
CONSTANTS
  Times = {1, 2, 3, 4, 5, 6}
  MaxEvents = 5
  Percents = {0, 25, 50}
  Recipes <- MCRecipes
INVARIANTS TypeOK NoLeak EmbargoHolds OnlyLeaksPurged EvenlyTested
\* A generator that is exhausted, or has raised, stops.
CHECK_DEADLOCK FALSE
