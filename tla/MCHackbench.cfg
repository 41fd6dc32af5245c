\* One group of two senders and two receivers, forked or as threads; one worker
\* fails, is killed, or one creation fails.
SPECIFICATION FairSpec
CONSTANTS
  NumGroups = 1
  NumFds = 2
  Loops = 2
  DataSize = 2
  PipeCap = 3
  ReadyCap = 2
  Modes = {TRUE, FALSE}
  MaxFaults = 1
INVARIANTS GoAfterAllReady AllDelivered FdsBounded
PROPERTIES Termination KilledIsReported
\* A worker process that fails may leave main() waiting for ever.
CHECK_DEADLOCK FALSE
