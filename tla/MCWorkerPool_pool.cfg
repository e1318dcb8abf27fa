SPECIFICATION FairSpec
CONSTANTS
  w1 = w1
  w2 = w2
  s1 = s1
  s2 = s2
  Chunks = {c1, c2}
  Sources = {s1, s2}
  Workers = {w1, w2}
  SourceOf <- TwoMirrors
  MaxRetries = 2
INVARIANTS TypeOK OnePlace NoChunkLost CountIsExact GivingUpHasAReason
PROPERTY PoolSpec
PROPERTY RunReturns
