SPECIFICATION Spec
CONSTANTS
    Streams = {s1}
    Calls = {c1}
    MaxTransientRetries = 1
    Nodes = {n1, n2}
    MaxRedirectHops = 1
    MaxGeneration = 1
    MaxVersion = 1
PROPERTY GetChannelReturns
CHECK_DEADLOCK FALSE
