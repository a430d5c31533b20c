SPECIFICATION JournalSpec
CONSTANTS
  Turn = {t1, t2}
  MaxRev = 4
INVARIANTS
  LoadsWhereverItStops
  AckedSurvive
PROPERTIES
  ImplementsTurns
SYMMETRY Symmetry
CHECK_DEADLOCK FALSE
