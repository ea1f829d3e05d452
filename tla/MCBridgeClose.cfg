SPECIFICATION Spec
CONSTANTS
    Request = {r1, r2, r3}
    None = None
    MaxFrames = 1
INVARIANT
    OnCloseKillTheChild
SYMMETRY Symmetry
CHECK_DEADLOCK FALSE
