SPECIFICATION Spec
CONSTANTS
    MaxConn = 2
    MaxRespawn = 3
    Mode = {m1, m2}
    Effort = {low, high}
    DefaultEffort = low
    FirstMode = m1
    FirstEffort = {None, high}
    None = None
CHECK_DEADLOCK FALSE
INVARIANT EffortIsCurrent
