SPECIFICATION Spec
CONSTANTS
    vm1 = vm1
    vm2 = vm2
    ctr = ctr
    Pods <- MCPods
    MicroVms <- MCMicroVms
    WorkloadOf <- MCWorkloadOf
    DesiredSets <- MCDesiredSets
    HostCount = 16
    MaxFrames = 3
    MaxCid = 4
INVARIANT LiveAttributed
CHECK_DEADLOCK FALSE
