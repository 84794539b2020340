SPECIFICATION Spec
CONSTANTS
  CPUs = {c1, c2}
  LOAD_FREQ = 4
  Window = 2
  FSHIFT = 11
  Exps <- RealExps
  MaxTasks = 2
  MaxLate = 1
  MaxSleep = 9
  MaxJiffies = 16
  MaxChanges = 5
INVARIANTS DeltasKept   CatchUpAgrees
SYMMETRY Symm
CHECK_DEADLOCK FALSE
