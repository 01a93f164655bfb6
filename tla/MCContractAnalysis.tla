------------------------- MODULE MCContractAnalysis -------------------------
(* A token, or a proxy of one of two implementations, whose admin is a wallet, a
   multisig or a ProxyAdmin with an owner of any kind; and the markets, trades
   and deployers that tell the signals apart. *)
EXTENDS ContractAnalysis, TLC

CONSTANTS token, impl1, impl2, proxyAdmin, timelock, safe, wallet, creator, uniswap, sushiswap

MCAddresses == {token, impl1, impl2, proxyAdmin, timelock, safe, wallet, creator}
MCDexes == {uniswap, sushiswap}

Kind == [a \in MCAddresses |-> CASE a \in {wallet, creator} -> "eoa" [] a = safe -> "multisig" [] OTHER -> "contract"]
Nobody == [a \in MCAddresses |-> NoAddress]

\* who is behind the proxy: implementation, admin, its owner and who answers getMinDelay()
Behind(implementation, admin, owner, delays) ==
    [implementation |-> implementation, admin |-> admin, owner |-> owner,
     delay |-> [a \in MCAddresses |-> CASE a \in delays -> "delay" [] a = token -> "empty" [] OTHER -> "none"]]
Behinds ==
    {Behind(NoAddress, NoAddress, Nobody, {}), Behind(impl1, NoAddress, Nobody, {}),
     Behind(impl1, wallet, Nobody, {}), Behind(impl1, safe, Nobody, {}), Behind(impl1, timelock, Nobody, {timelock}),
     Behind(impl1, timelock, proxyAdmin :> NoAddress @@ timelock :> safe @@ Nobody, {timelock})}
    \cup {Behind(impl1, proxyAdmin, proxyAdmin :> o @@ Nobody, {timelock}) : o \in {wallet, safe, timelock, NoAddress}}

Trade(moves, sells, tax) ==
    [simulated |-> TRUE, buys |-> "yes", moves |-> moves, sells |-> sells, buyTaxHigh |-> FALSE, sellTaxHigh |-> tax]
\* what is traded and what its code tells
Markets ==
    {[trade |-> NotSimulated, code |-> {"mint", "owner", "ownership"}, pools |-> {}, owned |-> TRUE],
     [trade |-> Trade("yes", "no", FALSE), code |-> {"blacklist", "sell_restriction"}, pools |-> {"deep"}, owned |-> FALSE],
     [trade |-> Trade("no", "yes", TRUE), code |-> {"blacklist", "transfer_tax_control"}, pools |-> {"deep", "low"}, owned |-> FALSE],
     [trade |-> Trade("yes", "yes", FALSE), code |-> {"transfer_tax_control", "owner"}, pools |-> {"low"}, owned |-> TRUE]}
Pool(kind) ==
    CASE kind = "deep" -> [depth |-> 3, locked |-> TRUE, holder |-> NoAddress]
      [] kind = "low" -> [depth |-> 1, locked |-> FALSE, holder |-> creator]

Deployers == {[creator |-> creator, deployer |-> {"fresh", "tornado"}, listed |-> {creator}],
              [creator |-> creator, deployer |-> {"exchange"}, listed |-> {}],
              [creator |-> NoAddress, deployer |-> {}, listed |-> {}]}

Chain(b, m, d, verified) ==
    [implementation |-> b.implementation, admin |-> b.admin, kind |-> Kind, delay |-> b.delay,
     owner |-> [a \in MCAddresses |-> IF a \in {token, impl1} /\ m.owned THEN creator ELSE b.owner[a]],
     code |-> [a \in MCAddresses |-> IF a \in {token, impl1} THEN m.code ELSE {}],
     source |-> verified, renounced |-> verified, listed |-> d.listed,
     trade |-> [a \in MCAddresses |-> IF a \in {token, impl1} THEN m.trade ELSE NotSimulated],
     pools |-> [x \in MCDexes |->
                    CASE x = uniswap /\ "deep" \in m.pools -> Pool("deep")
                      [] x = sushiswap /\ "low" \in m.pools -> Pool("low")
                      [] OTHER -> NoPool],
     creator |-> d.creator, deployer |-> d.deployer]
MCChains == {Chain(b, m, d, v) : b \in Behinds, m \in Markets, d \in Deployers, v \in {{}, {token, impl1}}}
    \cup {[Chain(CHOOSE b \in Behinds : TRUE, m, d, {}) EXCEPT !.kind[token] = "eoa"] : m \in Markets, d \in Deployers}
=============================================================================
