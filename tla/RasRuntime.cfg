SPECIFICATION FairSpec
CONSTANTS
  t1 = t1  t2 = t2  t3 = t3  Idle = Idle
  Tasks <- TwoTasks
  InitProc = t1
  Workers = {}
  Policies = {"RAS"}
  RtPriorities = {1}
  MAX_RT_PRIO = 2  MAX_PRIO = 4  DEFAULT_PRIO = 3
  NicePrios = {}
  BoostPrios = {}
  ResetFlags = {FALSE}
  Groups = {}
  WCounts = {}
  Polled = {}
  RR_TIMESLICE = 2
  RAS_FG_TIMESLICE = 2  RAS_BG_TIMESLICE = 1  RAS_INC_TIME = 0  UINT_MAX = 15
PROPERTIES FairClassRuns
