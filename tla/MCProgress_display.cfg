SPECIFICATION FairSpec
CONSTANTS
  loop = loop
  user = user
  Callers = {loop, user}
  Duties <- Divided
  UI = UI
  Nobody = Nobody
  MaxBars = 2
  MaxCalls <- Few
  Total = 1
INVARIANTS TypeOK ScreenIsRight NoUpdateIsLost
PROPERTY CallsReturn
