\* Operations of at most a fourth of the file; three operations are disabled.
SPECIFICATION Spec
CONSTANTS
  maxfilelen = 4
  maxoplen = 1
  randomoplen = TRUE
  readbdy = 1
  writebdy = 1
  truncbdy = 1
  block_size = 1
  simulatedopcount = 0
  numops = 5
  check_file = FALSE
  opt_n = FALSE
  opt_m = FALSE
  lite = FALSE
  o_direct = FALSE
  Enabled = {"mapwrite", "fallocate", "punch_hole", "zero_range", "collapse_range", "insert_range", "copy_range"}
  Bytes = 3
  MaxFaults = 0
  original_buf <- MCOriginal
  RAND_MAX = 5
INVARIANT NeverHangs
