SPECIFICATION FairSpec
CONSTANTS
  Tasks = {w1, w2}
  Modes = {"interruptible", "killable"}
  Signals = {"signal", "kill"}
  MaxCalls = 2
  MaxWakes = 2
  UINT_MAX = 15
INVARIANT EnoughAwake
PROPERTY ImplementsCompletion
CHECK_DEADLOCK FALSE
