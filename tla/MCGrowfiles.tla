---------------------------- MODULE MCGrowfiles -----------------------------
EXTENDS Growfiles

Opt(lockfile, append, lseek, pattern, trunc_inter) ==
  [num_files |-> 1, lockfile |-> lockfile, append |-> append, lseek |-> lseek,
   pattern |-> pattern, min_lseek |-> 0, trunc_inter |-> trunc_inter,
   L |-> FALSE, Maxerrs |-> 1, y |-> TRUE, u |-> TRUE, MaxSignals |-> 0]

\* Each way to place the write, under a lock that suits it, and settings under
\* which the checks do report what other copies wrote or truncated; signals
\* from outside under either lock.
MCSettings ==
  {[Opt(2, FALSE, "end", "offset", 2) EXCEPT !.num_files = 2],
   [Opt(2, FALSE, "w", "offset", 2) EXCEPT !.MaxSignals = 1],
   Opt(2, FALSE, "eof", "offset", 2),
   [Opt(1, TRUE, "end", "offset", 0) EXCEPT !.Maxerrs = 0],
   [Opt(1, FALSE, "minus", "offset", 0) EXCEPT !.MaxSignals = 1],
   Opt(1, FALSE, "end", "offset", 2),
   [Opt(0, FALSE, "end", "offset", 0) EXCEPT !.y = FALSE, !.L = TRUE],
   [Opt(2, FALSE, "range", "pid", 2) EXCEPT !.u = FALSE],
   [Opt(0, FALSE, "plus", "random", 0) EXCEPT !.min_lseek = 1]}
=============================================================================
