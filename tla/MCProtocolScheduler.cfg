CONSTANTS
    Nodes <- Addresses
    Graphs <- MCGraphs
    MaxWorkers = 2
    MaxAttempts = 3

SPECIFICATION FairSpec

INVARIANTS
    SkippedExactly
    PlanAgreement

PROPERTIES
    ImplementsDependencyScan
    Terminates

\* run() returns: the system stops.
CHECK_DEADLOCK FALSE
