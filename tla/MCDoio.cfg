\* Two children, three requests on two files, two descriptors each; one failure.
SPECIFICATION FairSpec
CONSTANTS
  Procs = {p1, p2}
  Files = {1, 2}
  FileLen = 2
  Requests <- MCRequests
  NumRequests = 3
  FdLimit = 2
  Release_Interval = 3
  Validation_Flags = "buffered"
  k_opt = TRUE
  w_opt = TRUE
  v_opt = TRUE
  MaxFaults = 1
  MaxLength = 6
  MaxMult = 3
  Maxstrides = 3
INVARIANTS LockKept NoFalseAlarm WlogExplains PipeFits
PROPERTY Termination
