SPECIFICATION Spec
CONSTANTS
  t1 = t1
  t2 = t2
  s1 = s1
  s2 = s2
  Tasks = {t1, t2}
  Sources = {s1, s2}
  Settings <- All
  MaxChunks = 2
  NumParts = 2
  MaxPiece = 3
  Burst = 1
  SlowBan = 2
  FailBan = 1
  RetryAfter = {3}
  Grace = 1
  MaxRates = 1
  Hole = Hole
  Earlier = Earlier
INVARIANTS TypeOK BytesInPlace ProgressAddsUp NothingForFree SlowKeepsOne
PROPERTY StoreSpec
