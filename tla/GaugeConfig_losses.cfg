SPECIFICATION Spec
CONSTANTS
    Recognised = TRUE
    rpm = rpm
    boost = boost
    Items = {rpm}
    Short = Short
    Add = Add
    None = None
    Originals <- MCOneGauge
    MaxSessions = 2
    MaxEdits = 2
    MaxSaves = 2
    MaxBlocks = 2
    MaxRefusals = 1
    MaxLosses = 1
INVARIANTS
    UnsavedIsFlagged
    SavingIsPending
CHECK_DEADLOCK FALSE
