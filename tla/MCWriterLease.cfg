SPECIFICATION LeaseSpec
CONSTANTS
  Window = {w1, w2}
  Task = {main, t2}
  Main = main
  NoWindow = NoWindow
  Work = {"renew", "write"}
  MaxAttempts = 4
  ClockStepsBack = FALSE
  MaxNow = 2
  MaxVersion = 1
  MaxDeaths = 1
INVARIANTS
  LeaseMatchesRecord
PROPERTIES
  DataUnderOwnRecord
SYMMETRY Symmetry
CHECK_DEADLOCK FALSE
