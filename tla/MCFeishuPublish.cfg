SPECIFICATION Spec
CONSTANTS
  Job = {p, q}
  Note = {m, n}
  Account = {x, y}
  None = None
  MaxText = 2
  MaxDoc = 2
  MaxStart = 2
  MaxSwitch = 1
SYMMETRY Symmetry
INVARIANTS
  SyncedMeansEqual
  PinnedIsConfirmed
  WorkGoesOn
PROPERTIES
  SendsAsConfirmed
  OwnsByConsent
CHECK_DEADLOCK FALSE
