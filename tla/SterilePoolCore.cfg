SPECIFICATION Spec
CONSTANTS
    k1 = k1
    k2 = k2
    c2 = c2
    Cells = {c1, c2}
    Claims = {k1, k2}
    Fenced <- MCFenced
    NoClaim = NoClaim
    Target = 1
    MaxProvisioning = 1
    ReadyFloor = 0
    MaxReleases = 1
    Ageing = TRUE
SYMMETRY CellSymmetry
INVARIANT HardTarget
INVARIANT AbsentMeansGone
PROPERTY OneUse
CHECK_DEADLOCK FALSE
