SPECIFICATION ProbeSpec
CONSTANTS
    p1 = p1
    w1 = w1
    Pods <- MCPods
    WorkloadOf <- MCWorkloadOf
    Threshold <- MCThreshold
    MaxRestarts = 2
PROPERTY RulingD
