\* No signal from outside: the compare errors of two children are enough.
SPECIFICATION Spec
CONSTANTS
  NumProcs = 2
  PPID_CHECK_INTERVAL = 2
  a_opt = TRUE
  e_opt = FALSE
  MaxSignals = 0
  MaxForkFaults = 0
INVARIANT SigintIgnored
