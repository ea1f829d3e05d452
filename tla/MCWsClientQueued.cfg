SPECIFICATION Spec
CONSTANTS
    MaxSockets = 3
    MaxAttempts = 3
    Call = {f1, f2}
INVARIANT
    PendingSendResolves
SYMMETRY Symmetry
CHECK_DEADLOCK FALSE
