SPECIFICATION Spec
CONSTANTS
  high = high
  low1 = low1
  low2 = low2
  other = other
  CPUs <- TwoCPUs
  Tasks <- ThreeTasks
  Prio <- TwoPrios
  Masks <- TwoMasks
  MAX_RT_PRIO = 2
  RT_MAX_TRIES = 3
INVARIANTS  DomainKnows NoCircularWait 
SYMMETRY Symm
