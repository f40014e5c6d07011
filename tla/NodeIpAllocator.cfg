SPECIFICATION Spec
CONSTANTS
    HostCount = 16
    PairPods = {p1, p2, p3}
    SinglePods = {s1}
SYMMETRY PodSymmetry
INVARIANTS
    TypeOK
    NoDoubleUse
    PairIntact
    NoBlockLost
    ExhaustedOnlyWhenFull
