SPECIFICATION PTreeFairSpec
CONSTANTS
  Tasks = {0, 1, 2, 3, 4}
  Trees <- MCTrees
  Sizes = {2, 5}
  Residents <- MCResidents
INVARIANTS PTreeTypeOK TreePrinted
PROPERTY WalkEnds
CHECK_DEADLOCK FALSE
