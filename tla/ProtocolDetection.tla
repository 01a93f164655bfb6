------------------------- MODULE ProtocolDetection -------------------------
(***************************************************************************)
(* ProtocolIntelligenceAnalyzer: which protocols, standards and frameworks *)
(* the code of a contract betrays, from the selectors in it and the tables *)
(* of known deployments, and what sort of proxy it is.                     *)
(*                                                                         *)
(* A contract x: code, the selectors of its logic, by name; verified;      *)
(* deployed, what the tables know of its address.  A scan hands over       *)
(* neither source nor name, so the markers looked for in them never match; *)
(* the score of the detection as a whole and its reasons are left out.     *)
(***************************************************************************)
EXTENDS Integers, FiniteSets, FiniteSetsExt, Sequences

Profile(name, role, partial, selectors) ==
    [name |-> name, role |-> role, partial |-> partial, selectors |-> selectors]
Named(name, role, selectors) == Profile(name, role, role, selectors)

Pair == {"getReserves", "swapV2"}
DexProfiles ==
    {Profile("Uniswap V2", "pool", "factory", Pair), Profile("SushiSwap", "pool", "factory", Pair),
     Profile("PancakeSwap", "pool", "factory", Pair), Profile("Aerodrome", "pool", "router", Pair),
     Profile("Uniswap V3", "pool", "factory", {"slot0", "swapV3"}),
     Profile("Curve", "pool", "router", {"exchange", "getVirtualPrice"}),
     Profile("Balancer", "pool", "vault", {"getPoolId", "onSwap"})}

\* One selector is Compound's mint and Morpho's supply; Aave and Spark share all theirs.
LendingProfiles ==
    {Named("Aave", "pool", {"supply", "borrow", "getReserveData"}),
     Named("Spark", "pool", {"supply", "borrow", "getReserveData"}),
     Named("Compound", "market", {"mint", "redeemUnderlying", "exchangeRate"}),
     Named("Morpho", "market", {"mint", "market"})}

OracleProfiles ==
    {Named("Chainlink", "", {"latestAnswer", "latestRoundData", "description"}),
     Named("Pyth", "", {"getPrice", "getPriceNoOlderThan"}), Named("Redstone", "", {"getData", "getValue"})}

\* Stargate's swap has the selector that initialize(address) has in the registry of
\* the transaction decoder.
BridgeProfiles ==
    {Named("LayerZero", "endpoint", {"lzReceive", "lzSend", "endpointId"}),
     Named("Wormhole", "core", {"publishMessage", "verify"}),
     Named("Hyperlane", "mailbox", {"dispatch", "process"}),
     Named("Axelar", "gateway", {"callContract", "validate"}),
     Named("Stargate", "router", {"initialize", "sendStargate"}),
     Named("Circle CCTP", "messenger", {"depositForBurn", "receiveMessage"})}

ERC4626 == {"asset", "totalAssets", "deposit", "redeem"}
VaultProfiles ==
    {Named("ERC4626", "ERC4626 Vault", ERC4626),
     Named("Yearn", "ERC4626 Vault", {"pricePerShare", "deposit", "asset"}),
     Named("Beefy", "Yield Vault", {"strategy", "deposit"}),
     Named("Pendle", "Yield Token", {"sy", "redeem"}),
     Named("EigenLayer", "Restaking Vault", {"restake"})}

\* the role of an NFT profile is its marketplace
NftProfiles ==
    {Named("ERC721", "", {"ownerOf", "safeTransferFrom721", "tokenURI"}),
     Named("ERC1155", "", {"balanceOfBatch", "safeTransferFrom1155"}), Named("ERC2981", "", {"royaltyInfo"}),
     Named("ERC721", "OpenSea", {"operator", "ownerOf"}), Named("ERC721", "Blur", {"blur", "ownerOf"})}

GovernanceProfiles ==
    {Named("Governor Bravo", "", {"propose", "castVote", "queue", "executeProposal"}),
     Named("OpenZeppelin Governor", "", {"propose", "castVote", "queue"}),
     Named("Safe Governor", "", {"getVotes", "castVote"}),
     Named("Compound Governor", "", {"propose", "castVote", "executeProposal"}),
     Named("Timelock Governor", "", {"scheduleGovernor", "executeProposal"})}

Category(profiles, base, hit, listed) == [profiles |-> profiles, base |-> base, hit |-> hit, listed |-> listed]
Catalogue ==
    [dex |-> Category(DexProfiles, 45, 15, 95), lending |-> Category(LendingProfiles, 40, 18, 95),
     oracle |-> Category(OracleProfiles, 35, 20, 0), bridge |-> Category(BridgeProfiles, 40, 18, 94),
     vault |-> Category(VaultProfiles, 42, 14, 95), nft |-> Category(NftProfiles, 38, 16, 0),
     governance |-> Category(GovernanceProfiles, 38, 14, 92)]
ProfileNames(c) == {p.name : p \in Catalogue[c].profiles}

\* The exchanges a pool can be found on, those that have a profile under its name
PoolDexes == {"uniswap", "SushiSwap", "baseswap", "Aerodrome", "quickswap", "PancakeSwap"}

------------------------------------------------------------------------------
(* The detectors *)

\* The first value of a table of <<value, condition>> whose condition holds
FirstThat(table, otherwise) ==
    LET holding == {i \in DOMAIN table : table[i][2]}
    IN  IF holding = {} THEN otherwise ELSE table[Min(holding)][1]

AtMost100(n) == IF n > 100 THEN 100 ELSE n
Item(name, role, confidence) == [name |-> name, role |-> role, confidence |-> confidence]

\* _upsert_result: of the findings with one name and role the most certain stays.
Best(items) ==
    {i \in items : \A j \in items : (j.name = i.name /\ j.role = i.role) => j.confidence <= i.confidence}

IsERC4626(code) == Cardinality(ERC4626 \cap code) >= 2
Hits(p, x) == Cardinality(p.selectors \cap x.code)
Matched(c, x) ==
    {p \in Catalogue[c].profiles : Hits(p, x) > 0 /\ (p.name = "Yearn" => IsERC4626(x.code))}
Confidence(c, p, x) ==
    AtMost100(Catalogue[c].base + Catalogue[c].hit * Hits(p, x) + IF x.verified THEN 5 ELSE 0)

Registered(c, x) == {Item(d.name, d.role, Catalogue[c].listed) : d \in {e \in x.deployed : e.category = c}}

\* A single selector of a profile is enough; the role is certain with all of them.
Detect(c, x) ==
    Best(Registered(c, x) \cup
         {Item(p.name, IF p.selectors \subseteq x.code THEN p.role ELSE p.partial, Confidence(c, p, x)) :
            p \in Matched(c, x)})

\* The lookup of a factory makes one of every DEX the code resembles.
DetectDexes(x) ==
    LET factories ==
            IF {"getPair", "getPool"} \cap x.code = {} THEN {}
            ELSE {Item(p.name, "factory", Confidence("dex", p, x) - 5) : p \in Matched("dex", x)}
    IN  Best(Detect("dex", x) \cup factories)

DetectLending(x) == Detect("lending", x)
DetectOracles(x) == Detect("oracle", x)
DetectBridges(x) == Detect("bridge", x)
DetectVaults(x) == Detect("vault", x)
DetectNfts(x) == Detect("nft", x)
DetectGovernance(x) == Detect("governance", x)

\* detect_standards: where the fingerprint of a token stops at the first standard
\* it meets, the fallbacks add the others all the same.
Standards(code) ==
    LET erc1155 == {"balanceOfBatch", "safeTransferFrom1155", "uri"}
        erc721 == {"ownerOf", "safeTransferFrom721", "tokenURI"}
        payable == {"totalSupply", "approve", "transferFrom"}
        wrapped == {"wethDeposit", "wethWithdraw"}
        token == {"transfer", "balanceOf"} \subseteq code
        distinct == code \cap (erc1155 \cup erc721) # {}
    IN  (IF code \cap erc1155 # {} THEN {"ERC1155"} ELSE {})
        \cup (IF code \cap erc721 # {} THEN {"ERC721"} ELSE {})
        \cup (IF token /\ (code \cap payable # {} \/ (code \cap wrapped # {} /\ ~distinct)) THEN {"ERC20"} ELSE {})
        \cup (IF IsERC4626(code) THEN {"ERC4626"} ELSE {})

\* detect_frameworks; timelocked: the scan found a delay behind the admin
Frameworks(code, timelocked) ==
    (IF {"owner", "transferOwnership"} \subseteq code THEN {"Ownable"} ELSE {})
    \cup (IF {"hasRole", "getRoleAdmin"} \subseteq code THEN {"AccessControl"} ELSE {})
    \cup (IF {"pause", "unpause"} \subseteq code THEN {"Pausable"} ELSE {})
    \cup (IF timelocked \/ code \cap {"getMinDelay", "schedule"} # {} THEN {"TimelockController"} ELSE {})

\* detect_integrations
Integrations(code) ==
    (IF Pair \subseteq code THEN {"Uniswap V2 Pair"} ELSE {})
    \cup (IF {"latestAnswer", "latestRoundData"} \subseteq code THEN {"Chainlink Aggregator"} ELSE {})
    \cup (IF {"getOwners", "getThreshold"} \subseteq code THEN {"Gnosis Safe"} ELSE {})

\* detect_proxy.  The beacon slot, and the slots the scan found empty, are read
\* here once more, each read failing or not: beacon, implementation and admin say
\* whether there is one by then.
ProxyKind(clone, beacon, implementation, admin, code) ==
    CASE clone -> "minimal_proxy"
      [] ~clone /\ beacon -> "beacon"
      [] ~clone /\ ~beacon /\ ~implementation -> "none"
      [] ~clone /\ ~beacon /\ implementation /\ admin -> "transparent"
      [] ~clone /\ ~beacon /\ implementation /\ ~admin ->
            IF code \cap {"upgradeTo", "upgradeToAndCall"} # {} THEN "uups" ELSE "erc1967"

\* resolve_protocol_identity, the family: the first that anything speaks for.
Family(d) ==
    FirstThat(
        <<<<"BRIDGE", d.bridge # {}>>, <<"DEX", d.dex # {}>>, <<"LENDING", d.lending # {}>>,
          <<"ORACLE", d.oracle # {}>>, <<"VAULT", d.vault # {}>>, <<"GOVERNANCE", d.governance # {}>>,
          <<"NFT", d.nft # {}>>, <<"VAULT", "ERC4626" \in d.standards>>,
          <<"NFT", {"ERC1155", "ERC721"} \cap d.standards # {}>>, <<"TOKEN", "ERC20" \in d.standards>>,
          <<"GOVERNANCE", "TimelockController" \in d.frameworks>>, <<"PROXY", d.proxy # "none">>,
          <<"GOVERNANCE", "Gnosis Safe" \in d.integrations>>, <<"GOVERNANCE", d.frameworks # {}>>>>,
        "UNKNOWN")

\* build_protocol_intelligence
Intelligence(x, proxy, timelocked) ==
    LET found ==
            [dex |-> DetectDexes(x), lending |-> DetectLending(x), oracle |-> DetectOracles(x),
             bridge |-> DetectBridges(x), vault |-> DetectVaults(x), nft |-> DetectNfts(x),
             governance |-> DetectGovernance(x), standards |-> Standards(x.code),
             frameworks |-> Frameworks(x.code, timelocked), integrations |-> Integrations(x.code), proxy |-> proxy]
    IN  [found |-> found, family |-> Family(found)]

\* What is told when the detection raises
NoIntelligence ==
    LET found ==
            [dex |-> {}, lending |-> {}, oracle |-> {}, bridge |-> {}, vault |-> {}, nft |-> {},
             governance |-> {}, standards |-> {}, frameworks |-> {}, integrations |-> {}, proxy |-> "none"]
    IN  [found |-> found, family |-> "UNKNOWN"]
=============================================================================
