SPECIFICATION Spec
CONSTANTS
    Recognised = TRUE
    rpm = rpm
    boost = boost
    Items = {rpm}
    Short = Short
    Add = Add
    None = None
    Originals <- MCOneGauge
    MaxSessions = 1
    MaxEdits = 1
    MaxSaves = 1
    MaxBlocks = 2
    MaxRefusals = 1
    MaxLosses = 0
INVARIANT
    FailedSaveIsReported
CHECK_DEADLOCK FALSE
