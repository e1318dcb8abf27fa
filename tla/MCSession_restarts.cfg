SPECIFICATION Spec
CONSTANTS
  Mirrors = {m1, m2}
  None = None
  Chunks = {c1, c2}
  Settings <- All
  Versions = 2
  MaxSessions = 3
  MaxSaves = 2
SYMMETRY Symmetry
INVARIANTS TypeOK ResumeIsTrue SaveIsAtomic BestAnswerWins
