SPECIFICATION FairSpec
CHECK_DEADLOCK FALSE
CONSTANTS
  Shapes <- AllShapes
  Length = 2
  Unsafe = {1}
  Checked = {2}
  MaxRetries = 1
  Rounds = 2
  MaxFaults = 2
INVARIANTS DoneMeansDone
PROPERTIES LostNotReplayed DoneNotRepeated PlanEnds
