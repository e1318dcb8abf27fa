SPECIFICATION FairSpec
CONSTANTS
  Earlier = Earlier
  Hole = Hole
  Chunks = {c1}
  Tasks = {t1, t2}
  NumParts = 2
  MaxSize = 2
  SizeKnown = FALSE
  DiskMayFail = TRUE
  SlowDisk = FALSE
  MaxFailures = 1
INVARIANTS MarkedIsWhole StopFinishesWrites
PROPERTY CallsReturn
PROPERTY WriterEnds
