\* Two children, one signal from outside, one failing fork.
SPECIFICATION FairSpec
CONSTANTS
  NumProcs = 2
  PPID_CHECK_INTERVAL = 2
  a_opt = TRUE
  e_opt = TRUE
  MaxSignals = 1
  MaxForkFaults = 1
INVARIANT StatusExact
PROPERTIES PassedOn CleanedUp
