\* Four names in a cache of two slots; the tree is removed at the end.
SPECIFICATION Spec
CONSTANTS
  NDCACHE = 2
  rtpct = FALSE
  cleanup = TRUE
  MaxLoops = 1
  MaxNames = 4
  MaxSets = 1
INVARIANTS ListExact CacheCurrent XattrsCounted CwdHome
\* The process ends.
CHECK_DEADLOCK FALSE
