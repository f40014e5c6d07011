SPECIFICATION Spec
SYMMETRY Symmetry
CONSTANTS
    Targets = {w1, w2}
    Ttl = 24
    CheckInterval = 1
    MaxDelay = 1
    Cids = {3, 4}
    Sessions = {s1}
    Production = TRUE
INVARIANTS
    TypeOK
    KeysSurviveFailures
    PushedToProven
PROPERTY
    IdentityDelivered
