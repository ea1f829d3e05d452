SPECIFICATION FairSpec
CONSTANTS
    Request = {r1, r2, r3}
    None = None
    MaxFrames = 1
INVARIANTS
    TypeOK
    NoOrphan
PROPERTIES
    SupersededIsCutOff
    ImplementsConsumerView
    RespawnAnswered
    NoHangOnDeadChild
    CloseReapsChildren
CHECK_DEADLOCK FALSE
