SPECIFICATION FairSpec
CONSTANTS
    MaxConn = 2
    MaxRespawn = 3
    Mode = {m1, m2}
    Effort = {low, high}
    DefaultEffort = low
    FirstMode = m1
    FirstEffort = {None, high}
    None = None
INVARIANTS
    TypeOK
    StatusTruth
    OneConnection
    NextAsShown
    EffortShown
    SessionIsLast
PROPERTIES
    EffortSettles
CHECK_DEADLOCK FALSE
