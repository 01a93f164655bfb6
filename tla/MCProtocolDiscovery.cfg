\* The discovery ends: no deadlock check.
SPECIFICATION TraversalSpec
CONSTANTS
    Addresses <- MCAddresses
    Root <- MCRoot
    Pools <- MCPools
    None = None
    Deployments <- MCDeployments
    Links <- MCLinks
    Signs <- MCSigns
    Scores <- MCScores
    Levels <- MCLevels
INVARIANTS
    RootStands
    ProxyIsTied
    RefusedForSelfLoops
    TraversalsAgree
CHECK_DEADLOCK FALSE
