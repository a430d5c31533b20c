SPECIFICATION Spec
CONSTANTS
    v1 = v1
    v2 = v2
    View = {v1, v2}
    Idle = Idle
    NoRun = NoRun
    NoDraft = NoDraft
    WindowTurns = 1
    RawTail = 1
    TurnLimit = 2
    NewItems = 1
    SummaryItems = 1
    MaxTurns = 3
    MaxRev = 9
    MaxRestarts = 1
SYMMETRY ViewSymmetry
 
PROPERTIES NothingIsForgotten
CHECK_DEADLOCK FALSE
