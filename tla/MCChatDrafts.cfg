SPECIFICATION DraftsSpec
CONSTANTS
    c1 = c1
    c2 = c2
    Conv = {c1, c2}
    NoConv = NoConv
    NoEntry = NoEntry
    NoSave = NoSave
    NotStored = NotStored
    MaxEdits = 2
    MaxBinds = 2
    MaxFaults = 1
    MaxRounds = 2
CONSTRAINT TwoMishaps
SYMMETRY ConvSymmetry
INVARIANTS UnsavedStaysInMemory EditorShowsTheDraft
PROPERTIES CleanShutdownSaves
CHECK_DEADLOCK FALSE
