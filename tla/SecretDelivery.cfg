SPECIFICATION Spec
CONSTANTS
    MaxRedirectHops = 1
    MaxRuns = 3
    MaxLosses = 1
    t1 = t1
    other = other
    Ids <- MCIds
    Targets <- MCTargets
    Misnamed <- MCMisnamed
    MaxAnnounced = 2
    MaxSequence = 2
INVARIANTS
    TypeOK
    InstalledUsable
    SealingKeyRegistered
    CacheOnDisk
PROPERTIES
    NoReplay
    
CHECK_DEADLOCK FALSE
