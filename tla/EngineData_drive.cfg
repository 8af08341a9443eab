SPECIFICATION Spec
CONSTANTS
    None = None
    Commands <- MCCommands
    Lengths <- MCLengths
    Times <- MCTimes
    Rpms <- MCRpms
    RpmModulus = 4
    Excess <- MCExcess
    MaxMessages = 3
    MaxFixes = 2
INVARIANTS
    TypeOK
    NeverLocated
    UploadsFollowDrive
PROPERTY
    FollowsFeed
CHECK_DEADLOCK FALSE
