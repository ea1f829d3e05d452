SPECIFICATION FairSpec
CONSTANTS
    MaxSockets = 3
    MaxAttempts = 3
    Call = {f1, f2}
INVARIANTS
    TypeOK
    WaitIsLive
    HookFirst
    OneSocket
PROPERTIES
    QuietAfterClose
    SendSettles
CHECK_DEADLOCK FALSE
