SPECIFICATION Spec
CONSTANTS
  Earlier = Earlier
  Hole = Hole
  Chunks = {c1, c2}
  Tasks = {t1, t2}
  NumParts = 2
  MaxSize = 2
  SizeKnown = TRUE
  DiskMayFail = TRUE
  SlowDisk = TRUE
  MaxFailures = 1
SYMMETRY Symmetry
INVARIANTS TypeOK NoSilentLoss
PROPERTY StoreSpec
