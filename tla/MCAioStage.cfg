\* Three threads, two restarts.
SPECIFICATION FairSpec
CONSTANTS
  Threads = {t1, t2, t3}
  MaxIteration = 2
INVARIANTS LockStep EndingIsCurrent
PROPERTY BarrierPassed
\* A thread that restarts while another has left waits for ever.
CHECK_DEADLOCK FALSE
