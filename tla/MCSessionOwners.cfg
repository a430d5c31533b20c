SPECIFICATION Spec
CONSTANTS
  Conversation = {a, b}
  Session = {s1, s2, s3}
  Low = {s1, s2}
  NoSession = none
  Reader = reader
  Nobody = nobody
  MaxRev = 2
SYMMETRY Symmetry
INVARIANTS
  OneOwner
  OwnersResolve
PROPERTIES
  AnswersAreTrue
CHECK_DEADLOCK FALSE
