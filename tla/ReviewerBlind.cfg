SPECIFICATION ReviewerSpec
CONSTANTS
  WindowDays = 5
  MinHistory = 6
  MaxRows = 6
  MaxOverrides = 2
  MaxIgnored = 1
INVARIANT TimeoutsCount
CHECK_DEADLOCK FALSE
