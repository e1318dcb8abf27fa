SPECIFICATION Spec
CONSTANTS
  Chunks = {c1, c2}
  Hashing = {TRUE}
  Overwrite = {TRUE, FALSE}
  Corrupt = TRUE
  DiskMayFail = TRUE
  SlowDisk = TRUE
  Interrupts = TRUE
  Calls = {"pause", "resume", "stop", "cancel"}
  MaxCalls = 1
  MaxSessions = 2
SYMMETRY Symmetry
INVARIANTS TypeOK ReturnsClean
PROPERTY ClearedIsWhole
