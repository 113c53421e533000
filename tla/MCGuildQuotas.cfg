SPECIFICATION Spec
CONSTANTS
    k1 = k1
    k2 = k2
    k3 = k3
    k4 = k4
    k5 = k5
    h1 = h1
    h2 = h2
    h3 = h3
    Keys <- MCKeys
    Handlers <- MCHandlers
    Limit <- MCLimit
INVARIANTS TypeOK OvershootIsBounded
SYMMETRY MCSymmetry
