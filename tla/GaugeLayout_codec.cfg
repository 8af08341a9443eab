SPECIFICATION Spec
CONSTANTS
    Items <- MCItems
    OtherBytes <- MCOtherBytes
    MaxItems = 2
    MaxBytes = 6
INVARIANT TypeOK
PROPERTY ReadsBackWhatIsStored
