SPECIFICATION Spec
CONSTANTS
  Chunks = {c1, c2}
  Hashing = {FALSE}
  Overwrite = {FALSE}
  Corrupt = FALSE
  DiskMayFail = FALSE
  SlowDisk = FALSE
  Interrupts = FALSE
  Calls = {"stop"}
  MaxCalls = 1
  MaxSessions = 1
SYMMETRY Symmetry
INVARIANTS CompletedIsWhole
