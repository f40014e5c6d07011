SPECIFICATION Spec
CONSTANTS
    vm1 = vm1
    vm2 = vm2
    ctr = ctr
    Pods <- MCPods
    MicroVms <- MCMicroVms
    WorkloadOf <- MCWorkloadOf
    DesiredSets <- MCDesiredSets
    HostCount = 16
    MaxFrames = 3
    MaxCid = 5
SYMMETRY Symmetry
INVARIANTS
    TypeOK
    GuardedVm
    ManagedAttributed
    NoAddressLeak
    Converged
PROPERTIES
    LifecycleSpec
    OthersUntouched
CHECK_DEADLOCK FALSE
