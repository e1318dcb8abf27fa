SPECIFICATION FairSpec
CONSTANTS
  MaxChunks = 2
  NumParts = 2
  Tasks = {t1, t2}
  Earlier = Earlier
  Hole = Hole
  Good = {t1, Earlier}
  Wants = {"none", "compute", "verify"}
  DiskMayFail = TRUE
INVARIANTS TypeOK DigestIsOfTheFile AnswerIsRight IncompleteHasAReason SecondOpinionAgrees
PROPERTY StopIsAnswered
