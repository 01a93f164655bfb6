SPECIFICATION Spec
CONSTANTS
    s1 = s1
    s2 = s2
    SharedNode = SharedNode
    Sims <- MCSims
    Targets <- MCTargets
    Workloads <- MCWorkloads
    EthAmount = 8
    EthFunded = 50
    EthDefault = 99
    Gas = 1
INVARIANTS
    YesMeansItHappened
    UndisturbedVerdict
    ImpersonationClosed
PROPERTY
    EverySimulationEnds
