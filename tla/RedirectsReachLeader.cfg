SPECIFICATION Spec
CONSTANTS
    Streams = {s1}
    Calls = {}
    MaxTransientRetries = 3
    Nodes = {n1, n2}
    MaxRedirectHops = 5
    MaxGeneration = 2
    MaxVersion = 1
PROPERTY RedirectsReachLeader
CHECK_DEADLOCK FALSE
