\* One thread, two operations, more units than the kernel queue takes; requests
\* and io_submit may fail; all the stages, or -I 2.
SPECIFICATION Spec
CONSTANTS
  OptThreads = 1
  NumFiles = 2
  NumContexts = 1
  FileRecs = 3
  CtxRecs = 0
  Depth = 2
  OptIoIter = 3
  OptMaxSubmit = 3
  Stages = {0, 1, 3}
  OptIterations = {2}
  OptStonewall = {TRUE}
  QueueDepth = 3
  MaxFaults = 1
INVARIANTS UnitsConserved PendingExact NeverStarved NoUseAfterFree
PROPERTY StageIsClean
