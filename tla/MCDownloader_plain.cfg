SPECIFICATION FairSpec
CONSTANTS
  Chunks = {c1, c2}
  Hashing = {TRUE, FALSE}
  Overwrite = {FALSE}
  Corrupt = FALSE
  DiskMayFail = TRUE
  SlowDisk = FALSE
  Interrupts = FALSE
  Calls = {"pause", "resume", "cancel"}
  MaxCalls = 2
  MaxSessions = 1
INVARIANTS CompletedIsWhole UndisturbedReturns
PROPERTY StartEnds
