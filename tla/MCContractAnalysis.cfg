CONSTANTS
    token = token
    impl1 = impl1
    impl2 = impl2
    proxyAdmin = proxyAdmin
    timelock = timelock
    safe = safe
    wallet = wallet
    creator = creator
    uniswap = uniswap
    sushiswap = sushiswap
    NoAddress = NoAddress
    NoPool = NoPool
    Target = token
    Addresses <- MCAddresses
    Dexes <- MCDexes
    Chains <- MCChains
SPECIFICATION Spec
INVARIANTS
    EvidenceIsTrue
    AuthorityAgrees
    TradeCountsOnce
CHECK_DEADLOCK FALSE
