SPECIFICATION ProbeSpec
CONSTANTS
    p1 = p1
    w1 = w1
    Pods <- MCPods
    WorkloadOf <- MCWorkloadOf
    MaxRestarts = 2
    Threshold <- MCThreshold
INVARIANTS
    TypeOK
    RunnersMatchTable
    FailureAnnouncedOnce
PROPERTIES
    LifecycleSpec
    PodManagerSpec
    RestartJustified
    HealthyPodRuns
