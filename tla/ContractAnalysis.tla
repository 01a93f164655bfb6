-------------------------- MODULE ContractAnalysis --------------------------
(***************************************************************************)
(* ContractAnalyzer.analyze: a chain of awaited reads of a contract, its   *)
(* proxy slots, its admin and the admin's owner, its code and source, its  *)
(* pools and its deployer, and the risk assessed from them.  A read of the *)
(* target or its slots that fails fails the scan; most others that fail    *)
(* leave a default behind.  The reads are not of one block: between two of *)
(* them the proxy may be upgraded and its admin change hands.              *)
(*                                                                         *)
(* The chain, the explorer and the simulator are external and modelled by  *)
(* what the analyzers ask of them.                                         *)
(*                                                                         *)
(* An operator named F_xxx is F with a bug, a mutant.                      *)
(***************************************************************************)
EXTENDS ContractRisk

CONSTANTS
    Target,         \* the contract scanned
    Addresses,      \* all addresses
    Dexes,          \* DEX providers of the chain
    Chains          \* what the chain and the explorer hold

MaybeAddress == Addresses \cup {NoAddress}
Trades ==
    [simulated : BOOLEAN, buys : {"yes", "no", "unknown"}, moves : {"yes", "no", "unknown"},
     sells : {"yes", "no", "unknown"}, buyTaxHigh : BOOLEAN, sellTaxHigh : BOOLEAN]
Pools == [depth : Nat, locked : BOOLEAN, holder : MaybeAddress]

\* kind: an account without code is an EOA; code: the traits of the code at an
\* address, as its selectors tell them; delay: the answer to getMinDelay();
\* source: addresses with verified source; renounced: those whose source says so;
\* trade: the answer of the simulator; deployer: the sort of wallet the creator
\* is, exchange and tornado by its first funding
ChainStates ==
    [implementation : MaybeAddress, admin : MaybeAddress, creator : MaybeAddress,
     kind : [Addresses -> {"eoa", "multisig", "contract"}], owner : [Addresses -> MaybeAddress],
     delay : [Addresses -> {"none", "empty", "delay"}],
     code : [Addresses -> SUBSET (Capabilities \cup Controls \cup {"owner", "sell_restriction"})],
     source : SUBSET Addresses, renounced : SUBSET Addresses, listed : SUBSET Addresses,
     trade : [Addresses -> Trades], pools : [Dexes -> Pools \cup {NoPool}],
     deployer : SUBSET {"fresh", "exchange", "tornado"}]

ASSUME AnalysisAssumption ==
    /\ Target \in Addresses /\ NoAddress \notin Addresses
    /\ Chains \subseteq ChainStates

VARIABLES
    chain,          \* the chain now
    held,           \* all it was since the scan started
    stage,          \* the read awaited next
    seen,           \* the findings so far
    ownership,      \* governance_ownership_address
    fetched,        \* implementation_bytecode is known
    authority,      \* upgrade_authority, as the governance analyzer tells it
    failed,         \* reads that failed and were passed over
    assessment      \* the risk, {} before it is assessed

vars == <<chain, held, stage, seen, ownership, fetched, authority, failed, assessment>>
context == <<ownership, fetched, authority>>

Unseen ==
    [contract |-> FALSE, implementation |-> NoAddress, admin |-> NoAddress, adminType |-> "none",
     owner |-> NoAddress, ownerType |-> "none", delay |-> "none", controls |-> {}, abilities |-> {},
     trade |-> NotSimulated, pool |-> NoPool, wallet |-> {}]

Init ==
    /\ chain \in Chains /\ held = {chain}
    /\ stage = "connect" /\ seen = Unseen /\ ownership = NoAddress /\ fetched = FALSE
    /\ authority = "none" /\ failed = {} /\ assessment = {}

------------------------------------------------------------------------------
(* The chain: one upgrade or change of hands during a scan, ever *)

MovesOn(c) ==
    /\ held = {chain} /\ stage \notin {"connect", "done", "failed"}
    /\ chain' = c /\ held' = {chain, c}
    /\ UNCHANGED <<stage, seen, context, failed, assessment>>
Upgrade(i) == chain.implementation \notin {NoAddress, i} /\ MovesOn([chain EXCEPT !.implementation = i])
ChangeHands(a) ==
    /\ chain.admin # NoAddress /\ chain.kind[chain.admin] = "contract" /\ chain.owner[chain.admin] # a
    /\ MovesOn([chain EXCEPT !.owner[chain.admin] = a])

------------------------------------------------------------------------------
(* The reads *)

Logic == IF seen.implementation = NoAddress THEN Target ELSE seen.implementation
AdminType(a) == IF a = NoAddress THEN "none" ELSE chain.kind[a]

Awaits(s) == stage = s /\ UNCHANGED <<chain, held>>
Finds(findings, next) == seen' = findings /\ stage' = next /\ UNCHANGED assessment
Misses(call) == failed' = failed \cup {call}
Raise == stage' = "failed" /\ UNCHANGED <<seen, context, failed, assessment>>

\* An address without code is assessed at once.
Connect ==
    /\ Awaits("connect")
    /\ \/ Raise
       \/ /\ Finds([seen EXCEPT !.contract = chain.kind[Target] # "eoa"],
                   IF chain.kind[Target] # "eoa" THEN "proxy" ELSE "assess")
          /\ UNCHANGED <<context, failed>>

\* ProxyAnalyzer: the implementation slot
ReadProxy ==
    /\ Awaits("proxy")
    /\ \/ Raise
       \/ Finds([seen EXCEPT !.implementation = chain.implementation], "admin") /\ UNCHANGED <<context, failed>>

AfterAdmin == IF seen.implementation = NoAddress THEN "honeypot" ELSE "implementation"

\* AdminAnalyzer and AdminClassifier
ReadAdmin ==
    /\ Awaits("admin")
    /\ \/ Raise
       \/ /\ Finds([seen EXCEPT !.admin = chain.admin, !.adminType = AdminType(chain.admin)],
                   IF AdminType(chain.admin) = "contract" THEN "admin_delay" ELSE AfterAdmin)
          /\ UNCHANGED <<context, failed>>

\* _merge_timelock_probe: an answer to getMinDelay(), an empty one as well, makes
\* a timelock; without one what was found before stands.
ProbeDelay(address, next) ==
    LET answer == chain.delay[address]
    IN  \/ /\ Finds(IF answer = "none" THEN seen ELSE [seen EXCEPT !.delay = answer], next)
           /\ UNCHANGED <<context, failed>>
        \/ Finds(seen, next) /\ Misses("delay") /\ UNCHANGED context
ProbeAdminDelay == Awaits("admin_delay") /\ ProbeDelay(seen.admin, "owner")

\* ProxyAdminAnalyzer: no owner when owner() fails; the type of an owner must be known.
TraceOwner ==
    LET owner == chain.owner[seen.admin]
    IN  /\ Awaits("owner")
        /\ \/ owner # NoAddress /\ Raise
           \/ Finds(seen, AfterAdmin) /\ Misses("owner") /\ UNCHANGED context
           \/ /\ Finds([seen EXCEPT !.owner = owner, !.ownerType = AdminType(owner)],
                       IF AdminType(owner) = "contract" THEN "owner_delay" ELSE AfterAdmin)
              /\ UNCHANGED <<context, failed>>
ProbeOwnerDelay == Awaits("owner_delay") /\ ProbeDelay(seen.owner, AfterAdmin)

ReadImplementation ==
    /\ Awaits("implementation") /\ Finds(seen, "honeypot")
    /\ \/ fetched' = TRUE /\ UNCHANGED failed
       \/ fetched' = FALSE /\ Misses("implementation")
    /\ UNCHANGED <<ownership, authority>>

\* Code not at hand is read again by each analyzer, and taken for empty when that
\* fails; the explorer is asked for the source.  What an analyzer may know:
Readings ==
    LET codes == {chain.code[Logic]} \cup (IF Logic = Target \/ fetched THEN {} ELSE {{}})
    IN  [code : codes, source : {FALSE, (Logic \in chain.source)}]
Traits(r) == IF r.source THEN chain.code[Logic] ELSE r.code

\* legacy_flags_from_findings and to_honeypot_flags: verified source with a
\* blacklist counts as a restriction of sales.
HoneypotFlags(r, trade) ==
    LET t == Traits(r)
    IN  (t \cap {"trading_enabled_control", "whitelist_control"})
        \cup When(\/ "blacklist" \in t /\ ("sell_restriction" \in t \/ r.source)
                  \/ trade.simulated /\ "no" \in {trade.sells, trade.moves},
                  "blacklist_sell_blocking")
        \cup When("transfer_tax_control" \in t \/ HighTax(trade), "transfer_tax_control")

\* HoneypotAnalyzer: the trade is simulated on the logic contract, if at all.
Honeypot ==
    /\ Awaits("honeypot")
    /\ \E r \in Readings, t \in {NotSimulated, chain.trade[Logic]} :
        Finds([seen EXCEPT !.controls = HoneypotFlags(r, t), !.trade = t], "governance")
    /\ UNCHANGED <<context, failed>>

\* GovernanceAnalyzer: owner() of the logic contract itself, if the code at hand
\* (the proxy's own when the implementation's is not) has it.
Governance ==
    LET code == IF fetched /\ chain.kind[Logic] # "eoa" THEN chain.code[Logic] ELSE chain.code[Target]
        asks == code \cap {"owner", "ownership"} # {}
        renounced == Logic \in chain.source \cap chain.renounced
    IN  /\ Awaits("governance") /\ Finds(seen, "capability")
        /\ \/ /\ ownership' \in {IF asks THEN chain.owner[Logic] ELSE NoAddress}
                                 \cup (IF renounced THEN {NoAddress} ELSE {})
              /\ UNCHANGED failed
           \/ asks /\ ownership' = NoAddress /\ Misses("ownership")
        /\ authority' = UpgradeAuthority(seen)
        /\ UNCHANGED fetched

Capability ==
    /\ Awaits("capability")
    /\ \E r \in Readings : Finds([seen EXCEPT !.abilities = Traits(r) \cap Capabilities], "liquidity")
    /\ UNCHANGED <<context, failed>>

\* LiquidityAnalyzer: the deepest pool of the DEXes that answered
Liquidity ==
    /\ Awaits("liquidity")
    /\ \E answered \in SUBSET Dexes :
        LET pools == {chain.pools[d] : d \in answered} \ {NoPool}
        IN  /\ \E p \in IF pools = {} THEN {NoPool} ELSE {q \in pools : \A x \in pools : x.depth <= q.depth} :
                Finds([seen EXCEPT !.pool = p], "wallet")
            /\ IF answered = Dexes THEN UNCHANGED failed ELSE Misses("dex")
    /\ UNCHANGED context

\* compute_wallet_risk_signals without its test for a creator.
F_Holdings(creator, owner, holder) ==
    When(creator \in {owner, holder}, "creator_owns_majority")
    \cup When(creator # NoAddress /\ creator = holder, "lp_owner_is_creator")

\* compute_wallet_risk_signals: what the creator holds
Holdings(creator, owner, holder) ==
    When(creator # NoAddress /\ creator \in {owner, holder}, "creator_owns_majority")
    \cup When(creator # NoAddress /\ creator = holder, "lp_owner_is_creator")

\* build_funding: a history that cannot be had is that of a fresh wallet.
Funding(creator, known) ==
    IF creator = NoAddress THEN {}
    ELSE When(~known \/ "fresh" \in chain.deployer, "fresh_deployer")
         \cup When(known /\ "exchange" \in chain.deployer, "exchange_funded_deployer")
         \cup When(known /\ "tornado" \in chain.deployer, "tornado_funded_deployer")

FirstOf(a, b) == IF a # NoAddress THEN a ELSE b

WalletSignals(creator, known) ==
    LET owner == FirstOf(ownership, seen.owner)
        holder == IF seen.pool = NoPool THEN NoAddress ELSE seen.pool.holder
        subject == FirstOf(creator, FirstOf(owner, Target))
    IN  Holdings(creator, owner, holder) \cup Funding(creator, known)
        \cup When("multisig" \in {seen.adminType, seen.ownerType}, "treasury_multisig")
        \cup When(subject \in chain.listed, "wallet_known_scam")

\* WalletIntelligenceAnalyzer: lookups that fail answer nothing, what else fails
\* leaves no wallet signals at all.
Wallet ==
    /\ Awaits("wallet")
    /\ \/ Finds(seen, "assess") /\ Misses("wallet")
       \/ \E found, known \in BOOLEAN :
            /\ Finds([seen EXCEPT !.wallet =
                        WalletSignals(IF found THEN chain.creator ELSE NoAddress, known)], "assess")
            /\ failed' = failed \cup When(~found, "creation") \cup When(found /\ ~known, "history")
    /\ UNCHANGED context

Assess ==
    /\ Awaits("assess") /\ stage' = "done" /\ assessment' = {Assessment(seen)}
    /\ UNCHANGED <<seen, context, failed>>

Next ==
    \/ Connect \/ ReadProxy \/ ReadAdmin \/ ProbeAdminDelay \/ TraceOwner \/ ProbeOwnerDelay
    \/ ReadImplementation \/ Honeypot \/ Governance \/ Capability \/ Liquidity \/ Wallet \/ Assess
    \/ \E a \in Addresses : Upgrade(a) \/ ChangeHands(a)

Spec == Init /\ [][Next]_vars

------------------------------------------------------------------------------
(* What is true of the chain, signal by signal.  The owner of a proxy is that *)
(* of its logic contract: owner() is asked there.                            *)

Justified(w) ==
    LET logic == IF w.implementation = NoAddress THEN Target ELSE w.implementation
        upgrader == IF w.admin = NoAddress THEN NoAddress ELSE w.owner[w.admin]
        chiefs == {w.admin, upgrader} \ {NoAddress}
        trade == w.trade[logic]
        pools == {w.pools[d] : d \in Dexes} \ {NoPool}
        code == w.code[logic]
    IN  When(w.kind[Target] = "eoa", "not_contract")
        \cup (IF w.implementation = NoAddress THEN {} ELSE {"upgradeable", "implementation_exposed"})
        \cup When(w.admin = NoAddress, "unknown_admin")
        \cup When(\E a \in chiefs : w.delay[a] = "delay", "admin_timelock")
        \cup {CASE w.kind[a] = "eoa" -> "admin_eoa" [] w.kind[a] = "multisig" -> "admin_multisig"
                 [] OTHER -> "admin_contract" : a \in chiefs}
        \cup When(\E a \in chiefs : w.kind[a] = "multisig", "treasury_multisig")
        \cup (code \ {"blacklist_sell_blocking"})
        \cup When(\/ "blacklist" \in code /\ (logic \in w.source \/ "sell_restriction" \in code)
                  \/ "no" \in {trade.sells, trade.moves},
                  "blacklist_sell_blocking")
        \cup When(HighTax(trade), "transfer_tax_control") \cup SimulationEvidence([trade |-> trade])
        \cup (UNION {LiquidityEvidence(p) : p \in IF pools = {} THEN {NoPool} ELSE pools})
        \cup When(w.creator # NoAddress
                     /\ w.creator \in {w.owner[logic], upgrader} \cup {p.holder : p \in pools},
                   "creator_owns_majority")
        \cup When(w.creator # NoAddress /\ \E p \in pools : p.holder = w.creator, "lp_owner_is_creator")
        \cup {CASE x = "fresh" -> "fresh_deployer" [] x = "exchange" -> "exchange_funded_deployer"
                 [] OTHER -> "tornado_funded_deployer" : x \in w.deployer}
        \cup When(w.listed \cap {w.creator, w.owner[logic], upgrader, Target} # {}, "wallet_known_scam")

\* What is taken for a fact of the chain without being one: an answer to
\* getMinDelay() that yields no delay makes a timelock.
Presumed(w) ==
    LET upgrader == IF w.admin = NoAddress THEN NoAddress ELSE w.owner[w.admin]
    IN  When(\E a \in {w.admin, upgrader} \ {NoAddress} : w.delay[a] = "empty", "admin_timelock")

\* What a read that failed makes the analyzer say all the same.
Invented ==
    When("dex" \in failed, "no_liquidity") \cup When("history" \in failed, "fresh_deployer")

Findings ==
    [contract : BOOLEAN, implementation : MaybeAddress, admin : MaybeAddress, adminType : AdminTypes,
     owner : MaybeAddress, ownerType : AdminTypes, delay : {"none", "empty", "delay"},
     controls : SUBSET Controls, abilities : SUBSET Capabilities, trade : Trades, pool : Pools \cup {NoPool},
     wallet : SUBSET WalletFindings]

\* The variables' types; an assessment is that of the findings.
TypeOK ==
    /\ chain \in ChainStates /\ seen \in Findings
    /\ stage \in {"connect", "proxy", "admin", "admin_delay", "owner", "owner_delay", "implementation", "honeypot",
                  "governance", "capability", "liquidity", "wallet", "assess", "done", "failed"}
    /\ ownership \in MaybeAddress /\ fetched \in BOOLEAN
    /\ authority \in AdminTypes \cup {"timelock", "unknown"}
    /\ assessment \in {{}, {Assessment(seen)}}

\* Whichever reads fail, and though the chain moves on between them, every signal
\* of the assessment was true of the chain at some moment of the scan, but for
\* three: a market that could not be read, a history that could not be read, and
\* an admin whose getMinDelay() answered with nothing, which passes for a timelock
\* although "is_timelock=True" is promised only for a call that "yields a delay
\* value" (timelock_analyzer.py:24, RiskEvidenceBuilder over findings whose
\* defaults come from a dozen handlers).
EvidenceIsTrue ==
    \A a \in assessment :
        a.evidence \subseteq Invented \cup UNION {Justified(w) \cup Presumed(w) : w \in held}

\* The places that work out who can upgrade the contract agree: the governance
\* analyzer, the admin evidence, the correlation rule and the wallet signals.
AuthorityAgrees ==
    \A a \in assessment : seen.implementation # NoAddress =>
        /\ authority = "timelock" <=> "admin_timelock" \in a.evidence
        /\ authority = "multisig" <=> "admin_multisig" \in a.evidence
        /\ authority = "contract" <=> "admin_contract" \in a.evidence
        /\ authority = "eoa" <=> "critical_governance_centralization" \in a.correlated
        /\ authority = "unknown" <=> "unknown_admin" \in a.evidence
        /\ "treasury_multisig" \in a.evidence => authority \in {"multisig", "timelock"}

\* What the simulation found counts once, and never less for having been suspected
\* or not: a sale that was blocked makes the threat critical, and a contract that
\* stops transfers or takes a high tax has that against it once.
TradeCountsOnce ==
    \A a \in assessment : seen.trade.simulated =>
        /\ seen.trade.sells = "no" => a.threat = "CRITICAL"
        /\ "no" \in {seen.trade.sells, seen.trade.moves} =>
            Cardinality(a.evidence \cap {"sim_sell_blocked", "blacklist_sell_blocking"}) = 1
        /\ HighTax(seen.trade) =>
            "transfer_tax_control" \in a.evidence <=> a.evidence \cap {"sim_high_buy_tax", "sim_high_sell_tax"} = {}
=============================================================================
