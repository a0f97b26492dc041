SPECIFICATION RSpec
CONSTANTS
  Words = 3
  MaxOccurrences = 4
  Inputs <- MCInputs
  Items <- MCItems
  NoItem = NoItem
  GetCoverage <- MCGetCoverage
  Groups <- MCGroups
  NewGroup <- MCNewGroup
  AddWeightOfChild <- MCAddWeightOfChild
  GetWeight <- MCGetWeight
INVARIANTS
  KeptAreDisjoint
  KeptOrDropped
  BestIsKept
CHECK_DEADLOCK FALSE
