\* Two copies, two visits each to one or two files, one failure.
SPECIFICATION FairSpec
CONSTANTS
  num_procs = 2
  iterations = 2
  bytes_to_consume = 3
  Sizes = {2}
  trunc_incr = 3
  max_lseek = 1
  write_check_inter = 1
  file_check_inter = 2
  unlink_inter = 2
  Settings <- MCSettings
  MaxFaults = 1
INVARIANTS NoFalseAlarm CorruptionCaught ConsumedExact
PROPERTY CleanEnd
\* The copies end.
CHECK_DEADLOCK FALSE
