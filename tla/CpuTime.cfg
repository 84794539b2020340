SPECIFICATION Spec
CONSTANTS
  Tasks = {t1, t2}
  Idle = Idle
  Groups = {RootCa, a, b}
  RootCa = RootCa
  a = a
  t1 = t1
  Setups <- OneGroup
  Contexts = {"kernel", "guest", "irq"}
  NoGroup = NoGroup
  TICK_NSEC = 2
  CPUTIME_MAX = 15
  MaxJiffies = 2
  MaxOps = 2
INVARIANTS TicksAccounted RuntimeChargedOnce TimesSane
PROPERTIES TimesMonotone
CHECK_DEADLOCK FALSE
