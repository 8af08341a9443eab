SPECIFICATION FairSpec
CONSTANTS
    warning = warning
    Types = {warning}
    Stored <- MCStored
    High = 3
    Typed = Typed
    Notifies = TRUE
    MaxReads = 3
    MaxLosses = 2
INVARIANTS
    TypeOK
    ControlsShowModel
    FetchIsPending
PROPERTY
    FetchRecovers
