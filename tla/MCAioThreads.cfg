\* Two threads on two contexts of one file, with and without the stonewall.
SPECIFICATION FairSpec
CONSTANTS
  OptThreads = 2
  NumFiles = 1
  NumContexts = 2
  FileRecs = 3
  CtxRecs = 1
  Depth = 2
  OptIoIter = 2
  OptMaxSubmit = 0
  Stages = {0, 1, 3}
  OptIterations = {}
  OptStonewall = {TRUE, FALSE}
  QueueDepth = 2
  MaxFaults = 0
INVARIANT AllDone
PROPERTIES StonewallFair ImplementsStage Termination
