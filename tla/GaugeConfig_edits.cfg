SPECIFICATION FairSpec
CONSTANTS
    Recognised = TRUE
    rpm = rpm
    boost = boost
    Items = {rpm, boost}
    Short = Short
    Add = Add
    None = None
    Originals <- MCOriginals
    MaxSessions = 2
    MaxEdits = 2
    MaxSaves = 2
    MaxBlocks = 2
    MaxRefusals = 0
    MaxLosses = 0
INVARIANTS
    TypeOK
    StaleTableOnlyIfEarly
    ScreenShowsModel
    
PROPERTIES
    LeavingSaves
    SavingEnds
    
CHECK_DEADLOCK FALSE
