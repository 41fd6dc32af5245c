\* A ring of three entries; a replay, and a replay of the replay.
SPECIFICATION LogSpec
CONSTANTS
  LOGSIZE = 3
  MaxCalls = 5
  MaxRuns = 3
INVARIANTS DumpIsRecent ReplayFollows ReplayReadable
