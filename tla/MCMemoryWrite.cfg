SPECIFICATION Spec
CONSTANTS
  Proposal = {p1, p2}
INVARIANTS
  OneOperationAtATime
  HalfDoneIsTracked
  ShutdownSettles
PROPERTIES
  ImplementsBarrier
  ShutdownEnds
CHECK_DEADLOCK FALSE
