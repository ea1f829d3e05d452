SPECIFICATION FairSpec
CONSTANTS
    MaxReq = 3
    Mode = {plan, auto}
    None = None
INVARIANTS
    TypeOK
    EntryPerPromise
    NoStuckSpinner
    LastGrantShown
PROPERTIES
    IntentSettles
CHECK_DEADLOCK FALSE
