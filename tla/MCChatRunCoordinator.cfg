SPECIFICATION Spec
CONSTANTS
  Run = {r1, r2}
  Lane = {a, b}
  NoRun = NoRun
  NoLane = NoLane
  MaxWrites = 1
  MaxClaims = 1
  MaxArts = 0
  FaultKind = {"load", "start", "activation", "checkpoint", "session", "cancellation", "final"}
  MaxFaults = 1
SYMMETRY Symmetry
INVARIANTS
  AskedTurnIsComplete
  UnsavedIsKept
  CompletionIsLast
PROPERTIES
  EntersClean
CHECK_DEADLOCK FALSE
