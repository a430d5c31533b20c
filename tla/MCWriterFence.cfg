SPECIFICATION FairSpec
CONSTANTS
  Window = {w1, w2}
  Proc = {p1, p2}
  NoWindow = NoWindow
  NoProc = NoProc
  FirstWindow = w1
  FirstProc = p1
CONSTRAINT FirstSpawns
INVARIANTS
  HeldMeansFenced
PROPERTIES
  ImplementsSingleWriter
  OrphansLeave
  CallsReturn
CHECK_DEADLOCK FALSE
