SPECIFICATION FairSpec
CHECK_DEADLOCK FALSE
CONSTANTS stone = stone gold = gold
  Items = {stone, gold}
  Documents <- AllDocuments
  Rotations = {90}
  Segment = 2
  MaxBlocks = 4
  MaxStock = 3
  MaxFaults = 2
INVARIANTS Claims CompleteMeans
PROPERTIES ExecutionEnds NeverStarves
