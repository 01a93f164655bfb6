CONSTANTS
    Jobs = {j1, j2}
    mainnet = mainnet
    Chains = {mainnet, sepolia}
    Endpoints <- SepoliaUrlServesMainnet
    NoChain = NoChain
    PoolSize = 1

SPECIFICATION FairSpec

PROPERTY RunningIsShown
