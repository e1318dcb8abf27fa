SPECIFICATION Spec
CONSTANTS
  Mirrors = {m1, m2}
  None = None
  Chunks = {c1, c2}
  Settings <- Crashing
  Versions = 2
  MaxSessions = 2
  MaxSaves = 1
INVARIANT ResumeIsExact
