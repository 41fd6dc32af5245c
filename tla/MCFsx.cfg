\* Four bytes; the first call is only simulated (-b 2), and after the second the
\* file system may corrupt the file once, which -X is there to find.
SPECIFICATION Spec
CONSTANTS
  maxfilelen = 4
  maxoplen = 4
  randomoplen = TRUE
  readbdy = 1
  writebdy = 1
  truncbdy = 1
  block_size = 2
  simulatedopcount = 1
  numops = 4
  check_file = TRUE
  opt_n = FALSE
  opt_m = FALSE
  lite = FALSE
  o_direct = FALSE
  Enabled = {"mapread", "mapwrite", "fallocate", "punch_hole", "zero_range", "collapse_range", "insert_range", "clone_range", "dedupe_range", "copy_range"}
  Bytes = 3
  MaxFaults = 1
  original_buf <- MCOriginal
  RAND_MAX = 5
INVARIANTS ShadowExact NoFalseAlarm
PROPERTY Detected
