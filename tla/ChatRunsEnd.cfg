SPECIFICATION FairSpec
CONSTANTS
  Run = {r1, r2}
  Lane = {a}
  NoRun = NoRun
  NoLane = NoLane
  MaxWrites = 1
  MaxClaims = 0
  MaxArts = 1
  FaultKind = {"start", "activation", "cancellation", "final"}
  MaxFaults = 1
PROPERTIES
  StoppedRunsEnd
CHECK_DEADLOCK FALSE
