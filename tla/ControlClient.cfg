SPECIFICATION Spec
CONSTANTS
    Streams = {s1}
    Calls = {c1}
    MaxTransientRetries = 1
    Nodes = {n1, n2}
    MaxRedirectHops = 1
    MaxGeneration = 2
    MaxVersion = 1
INVARIANTS
    TypeOK
    ChannelFollowsTarget
    ChannelMatchesSvid
    CachedKeyMatches
CHECK_DEADLOCK FALSE
