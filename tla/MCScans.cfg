CONSTANTS
    Jobs = {j1, j2, j3}
    mainnet = mainnet
    Chains = {mainnet, sepolia}
    Endpoints <- SepoliaUrlServesMainnet
    NoChain = NoChain
    PoolSize = 2
    NoJob = NoJob
    Submitted = {j1, j2}
    MaxAttempts = 3
    MaxInFlight = 3

SPECIFICATION EitherSpec

INVARIANTS
    NoPartialRows
    BannerIsTrue
    EndIsTold

PROPERTIES
    SettledRowsFrozen
    CompletedOnAskedChain
    ImplementsScanStore
    CapturedJobsSettle
    PollingStops
