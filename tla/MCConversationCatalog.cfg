SPECIFICATION Spec
CONSTANTS
  Conversation = {a, b, d}
  Reader = reader
  Nobody = nobody
  MaxRev = 3
SYMMETRY Symmetry
INVARIANTS
  RevisionsAreFresh
  CatalogIsBehind
  LagsOnlyWhenRobbed
  NobodyIsStuck
CHECK_DEADLOCK FALSE
