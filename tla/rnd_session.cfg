SPECIFICATION FairSpec
CHECK_DEADLOCK FALSE
CONSTANTS s1 = s1 s2 = s2
  Slots = {s1, s2}
  MaxCommands = 3
  MaxEvents = 1
  MaxRuns = 2
  Budget = 7
  MaxSingle = 4
  MaxReview = 2
  Prompts = {2}
  Usages = {4}
INVARIANTS BudgetKept OwnAnswers NoDriverLeft
PROPERTIES StopEnds
