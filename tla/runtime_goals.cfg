SPECIFICATION FairSpec
CHECK_DEADLOCK FALSE
CONSTANTS
  MaxGoals = 3
  MaxEvents = 2
  MaxRestarts = 1
  Anytime = FALSE
PROPERTIES CheckedFirst MaterialFirst WorkGoesOn
