SPECIFICATION StreamingSpec
CONSTANTS
    p1 = p1
    p2 = p2
    layoutConfig = layoutConfig
    engineData = engineData
    None = None
    char = engineData
    Peripherals = {p1, p2}
    Characteristics = {engineData}
    Notifying = {engineData}
    Recognised = {}
    MaxWrites = 1
    MaxReads = 1
    MaxListeners = 2
    MaxLosses = 2
    MaxErrors = 1
INVARIANTS
    StatusIsHonest
    IndInv
    ListenersHearEveryValue
PROPERTIES
    ScanEndsUsable
    ScanFeedsListeners
    ImplementsChannel
CHECK_DEADLOCK FALSE
