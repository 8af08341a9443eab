SPECIFICATION FairSpec
CONSTANTS
    p1 = p1
    p2 = p2
    layoutConfig = layoutConfig
    engineData = engineData
    None = None
    char = layoutConfig
    Peripherals = {p1}
    Characteristics = {layoutConfig}
    Notifying = {}
    Recognised = {layoutConfig}
    MaxWrites = 3
    MaxReads = 2
    MaxListeners = 0
    MaxLosses = 2
    MaxErrors = 1
INVARIANTS
    TypeOK
    IndInv
    WritesStrandedOnlyByLoss
    ReadsForgottenOnlyByFault
PROPERTIES
    WrongClosureOnlyIfDropped
    ReadsAreFresh
    KeepsPromise
    ImplementsChannel
    KeepsFairPromise
    EveryReadAnswered
CHECK_DEADLOCK FALSE
