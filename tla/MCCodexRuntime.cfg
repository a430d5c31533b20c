SPECIFICATION FairSpec
CONSTANTS
  c = c
  e = e
  s = s
  Run = {c, e, s}
  Chat = {c}
  Status = {s}
  KillFails = FALSE
  MaxFaults = 2
INVARIANTS
  DoneMeansStopped
  CleanMeansQuiet
PROPERTIES
  StopIsComplete
  StopsEnd
CHECK_DEADLOCK FALSE
