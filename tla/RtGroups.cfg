SPECIFICATION Spec
CONSTANTS
  t1 = t1
  t2 = t2
  g1 = g1
  g2 = g2
  Root = Root
  Other = Other
  NoGroup = NoGroup
  Tasks = {t1, t2}
  Groups = {Root, g1, g2}
  MAX_RT_PRIO = 3
  Periods = {4, 8}
  Runtimes = {0, 1, 5}
  RoundRobin = {FALSE}
  RUNTIME_INF = 1000
  Setups <- Nested
  MaxOps = 2
  MaxTime = 3
INVARIANTS EntitiesMatch PicksBest TimerRuns BandwidthFits
PROPERTIES UnthrottlePreempts
