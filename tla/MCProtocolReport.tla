-------------------------- MODULE MCProtocolReport --------------------------
(* Contracts of every family, pairwise: tokens with and without liquidity and a
   bad name, a pair, bridges, an oracle with a vault, a governor, a clone, a beacon
   proxy and one not yet initialised; proxies behind every sort of admin. *)
EXTENDS ProtocolReport, TLC

CONSTANTS impl, proxyAdmin, timelock, safe, wallet, creator

MCNodes == {1, 2}

Bare ==
    [contract |-> TRUE, implementation |-> NoAddress, admin |-> NoAddress, adminType |-> "none",
     owner |-> NoAddress, ownerType |-> "none", delay |-> "none", controls |-> {}, abilities |-> {},
     trade |-> NotSimulated, pool |-> NoPool, wallet |-> {}, verified |-> FALSE, code |-> {}, clone |-> FALSE,
     beacon |-> FALSE, uninitialised |-> FALSE, deployed |-> {}, roles |-> {}, governed |-> NoAddress,
     renounced |-> FALSE, creator |-> creator, suspected |-> FALSE, scam |-> FALSE]
Pool(depth, locked) == [depth |-> depth, locked |-> locked, holder |-> IF locked THEN NoAddress ELSE creator, dex |-> "SushiSwap"]

Owned(f) ==
    [f EXCEPT !.code = @ \cup {"owner", "transferOwnership"}, !.governed = wallet, !.abilities = @ \cup {"ownership"}]
ERC20 == {"transfer", "balanceOf", "approve", "totalSupply"}
Token == [Bare EXCEPT !.code = ERC20, !.pool = Pool(3, TRUE)]
Mintable == Owned([Token EXCEPT !.code = @ \cup {"mint"}, !.abilities = {"mint"}, !.pool = Pool(1, FALSE)])
Tokens ==
    {Token, Mintable, [Token EXCEPT !.renounced = TRUE, !.verified = TRUE, !.code = @ \cup {"owner"}],
     \* a honeypot whose sale the simulation saw blocked, funded by an exchange
     [Token EXCEPT !.pool = Pool(2, FALSE), !.suspected = TRUE, !.controls = {"whitelist_control"},
                   !.wallet = {"exchange_funded_deployer", "lp_owner_is_creator", "creator_owns_majority"},
                   !.trade = [NotSimulated EXCEPT !.simulated = TRUE, !.buys = "yes", !.moves = "yes", !.sells = "no"]],
     [Mintable EXCEPT !.wallet = {"fresh_deployer", "wallet_known_scam"}],
     [Mintable EXCEPT !.wallet = {"fresh_deployer", "wallet_known_scam"}, !.scam = TRUE],
     [Mintable EXCEPT !.wallet = {"fresh_deployer", "tornado_funded_deployer"}, !.governed = NoAddress,
                      !.roles = {"MINTER_ROLE", "DEFAULT_ADMIN_ROLE"}, !.code = @ \cup {"hasRole", "getRoleAdmin"}]}

Through(f, admin, adminType) ==
    [f EXCEPT !.implementation = impl, !.admin = admin, !.adminType = adminType, !.code = @ \cup {"initialize"},
              !.wallet = @ \cup When(adminType = "multisig", "treasury_multisig")]
ByOwner(f, owner, type, delay) ==
    [Through(f, proxyAdmin, "contract") EXCEPT !.owner = owner, !.ownerType = type, !.delay = delay,
              !.wallet = @ \cup When(type = "multisig", "treasury_multisig")]
Vault == [Bare EXCEPT !.code = ERC4626 \cup {"latestAnswer", "latestRoundData", "strategy"}]
Bridge == Owned([Bare EXCEPT !.code = {"lzReceive", "lzSend", "endpointId", "pause", "unpause"}, !.abilities = {"pause"}])
Proxies ==
    {Through(Vault, wallet, "eoa"), Through(Bridge, safe, "multisig"), Through(Token, NoAddress, "none"),
     [Through(Bridge, timelock, "contract") EXCEPT !.delay = "delay"], ByOwner(Vault, wallet, "eoa", "none"),
     ByOwner(Bridge, safe, "multisig", "none"), ByOwner(Mintable, timelock, "contract", "delay"),
     [ByOwner(Token, NoAddress, "none", "none") EXCEPT !.verified = TRUE],
     [ByOwner(Token, wallet, "eoa", "none") EXCEPT !.renounced = TRUE]}

Governor == [Bare EXCEPT !.code = {"propose", "castVote", "queue", "getOwners", "getThreshold"}]
Others ==
    {[Bare EXCEPT !.code = Pair \cup {"getPair", "ownerOf"}], Governor, Through(Governor, wallet, "eoa"),
     [Vault EXCEPT !.clone = TRUE, !.governed = wallet], [Token EXCEPT !.beacon = TRUE, !.uninitialised = TRUE],
     [Bare EXCEPT !.deployed = {[category |-> "lending", name |-> "Aave", role |-> "pool"]},
                  !.code = {"supply", "borrow", "mint", "getReserveData"}],
     [Bare EXCEPT !.contract = FALSE, !.creator = NoAddress]}

Finds == Tokens \cup Proxies \cup Others
MCCases == {<<f, g>> : f, g \in Finds}
=============================================================================
