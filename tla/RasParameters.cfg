SPECIFICATION Spec
CONSTANTS
  t1 = t1  t2 = t2  t3 = t3  Idle = Idle
  Tasks <- TwoTasks
  InitProc = t1
  Workers = {}
  Policies = {"NORMAL", "RAS", "RR"}
  RtPriorities = {1, 2}
  MAX_RT_PRIO = 3  MAX_PRIO = 5  DEFAULT_PRIO = 4
  NicePrios = {3}
  BoostPrios = {1}
  ResetFlags = {FALSE, TRUE}
  Groups = {"/", "/bg_non_interactive"}
  WCounts = {}
  Polled = {t2}
  RR_TIMESLICE = 2
  RAS_FG_TIMESLICE = 2  RAS_BG_TIMESLICE = 1  RAS_INC_TIME = 0  UINT_MAX = 15
INVARIANTS RunQueueSound SliceInRange NoClassBelowRasOverlooked
PROPERTIES OnlyRasOverlooksRt OnlyForkMisplaces SliceKept
