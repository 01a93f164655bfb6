CONSTANTS
    impl = impl
    proxyAdmin = proxyAdmin
    timelock = timelock
    safe = safe
    wallet = wallet
    creator = creator
    NoAddress = NoAddress
    NoPool = NoPool
    NoReport = NoReport
    Timelock = timelock
    Nodes <- MCNodes
    Cases <- MCCases
SPECIFICATION Spec
INVARIANTS
    EdgesStand
    SurfaceAgrees
    LowIsEarned
    FindingsReachTheReport
    RemediesHelp
CHECK_DEADLOCK FALSE
