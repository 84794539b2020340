SPECIFICATION FairSpec
CONSTANTS
  t1 = t1
  u1 = u1
  c1 = c1
  Procs = {t1, u1, c1}
  Initial = {t1, u1}
  Catchers = {t1, c1}
  Pages = {1, 2, 3, 4, 5}
  Handled = {1, 2, 3}
  Programs <- MCPrograms
  Vmas <- MCVmas
  Modules = {"start", "stop", "get", "set", "trace_rr"}
  MaxErrors = 1
INVARIANTS CountExact WcountsIsTimes
PROPERTY Finishes
CHECK_DEADLOCK FALSE
