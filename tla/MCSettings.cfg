SPECIFICATION FairSpec
CONSTANTS
    MaxSession = 4
    MaxSpawn = 3
    MaxWire = 2
    MaxMessages = 2
    Profiles <- MCProfiles
    UserModes = {"auto", "dontAsk"}
    Forbidden = {"auto"}
    New = New
    Continue = Continue
    None = None
CHECK_DEADLOCK FALSE
INVARIANTS
    StorageSafe
    ModeShown
PROPERTIES
    SkipSettles
