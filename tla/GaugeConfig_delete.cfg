SPECIFICATION Spec
CONSTANTS
    Recognised = TRUE
    rpm = rpm
    boost = boost
    Items = {rpm, boost}
    Short = Short
    Add = Add
    None = None
    Originals <- MCOriginals
    MaxSessions = 1
    MaxEdits = 1
    MaxSaves = 1
    MaxBlocks = 2
    MaxRefusals = 0
    MaxLosses = 0
PROPERTY
    DeleteRemovesItem
CHECK_DEADLOCK FALSE
