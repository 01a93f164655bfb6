----------------------- MODULE ContractAnalysis_proofs -----------------------
(***************************************************************************)
(* Proofs about a contract scan, for any addresses, DEXes and chains, with *)
(* any reads failing and an upgrade or a change of hands in between.       *)
(***************************************************************************)
EXTENDS ContractAnalysis, FiniteSetTheorems, TLAPS

\* Who can upgrade: the admin is found before its owner and its delay, and only a
\* contract has either.
AdminKnown ==
    /\ stage \notin {"connect", "assess", "done", "failed"} \/ seen.implementation # NoAddress => seen.contract
    /\ stage = "connect" => seen.implementation = NoAddress
    /\ stage \in {"connect", "proxy", "admin"} => seen.admin = NoAddress
    /\ seen.admin = NoAddress <=> seen.adminType = "none"
    /\ stage \in {"admin_delay", "owner", "owner_delay"} => seen.adminType = "contract"
    /\ stage = "owner_delay" => seen.owner # NoAddress
    /\ seen.delay # "none" \/ seen.ownerType # "none" => seen.adminType = "contract"

\* The governance analyzer's answer stays true: no later read changes what it saw.
AuthorityKnown ==
    stage \in {"capability", "liquidity", "wallet", "assess", "done"} /\ seen.implementation # NoAddress =>
        authority = UpgradeAuthority(seen)

\* The wallet signals come last, from the types then known.
WalletKnown ==
    /\ stage \notin {"assess", "done"} => seen.wallet = {}
    /\ "treasury_multisig" \in seen.wallet => "multisig" \in {seen.adminType, seen.ownerType}

\* What the simulation saw is among the controls as well.
TradeKnown ==
    /\ seen.trade.simulated => seen.contract /\ stage # "connect"
    /\ seen.trade.simulated /\ "no" \in {seen.trade.sells, seen.trade.moves} => "blacklist_sell_blocking" \in seen.controls
    /\ HighTax(seen.trade) => "transfer_tax_control" \in seen.controls

AssessedLast == stage # "done" => assessment = {}

AnalysisInv == TypeOK /\ AdminKnown /\ AuthorityKnown /\ WalletKnown /\ TradeKnown /\ AssessedLast

------------------------------------------------------------------------------
(* The steps *)

LEMMA InitHolds == Init => AnalysisInv
<1> SUFFICES ASSUME Init PROVE AnalysisInv
    OBVIOUS
<1>1. chain \in ChainStates /\ seen = Unseen /\ stage = "connect" /\ assessment = {}
    BY AnalysisAssumption DEF Init
<1>2. NotSimulated \in Trades /\ Unseen \in Findings
    BY DEF NotSimulated, Trades, Unseen, Findings, MaybeAddress, AdminTypes
<1>3. TypeOK
    BY <1>1, <1>2 DEF Init, TypeOK, MaybeAddress, AdminTypes
<1> QED
    BY <1>1, <1>3 DEF AnalysisInv, AdminKnown, AuthorityKnown, WalletKnown, TradeKnown, AssessedLast, Unseen,
                      NotSimulated, HighTax

\* The chain stays a chain.
LEMMA MovesOnHolds == ASSUME AnalysisInv, NEW c \in ChainStates, MovesOn(c) PROVE AnalysisInv'
<1>1. stage' = stage /\ seen' = seen /\ authority' = authority /\ stage # "done" /\ assessment' = assessment
      /\ ownership' = ownership /\ fetched' = fetched /\ chain' = c
    BY DEF MovesOn, context
<1> QED
    BY <1>1 DEF AnalysisInv, TypeOK, AdminKnown, AuthorityKnown, WalletKnown, TradeKnown, AssessedLast,
                UpgradeAuthority, HighTax

LEMMA ChainHolds ==
    ASSUME AnalysisInv, NEW a \in Addresses, Upgrade(a) \/ ChangeHands(a) PROVE AnalysisInv'
<1>1. chain \in ChainStates
    BY DEF AnalysisInv, TypeOK
<1>2. [chain EXCEPT !.implementation = a] \in ChainStates /\ [chain EXCEPT !.owner[chain.admin] = a] \in ChainStates
    BY <1>1 DEF ChainStates, MaybeAddress
<1> QED
    BY <1>2, MovesOnHolds DEF Upgrade, ChangeHands

\* A scan that fails keeps what it found.
LEMMA RaiseHolds ==
    ASSUME AnalysisInv, Raise, UNCHANGED chain, stage \in {"connect", "proxy", "admin", "owner"} PROVE AnalysisInv'
BY DEF Raise, context, AnalysisInv, TypeOK, AdminKnown, AuthorityKnown, WalletKnown, TradeKnown, AssessedLast,
       UpgradeAuthority, HighTax

LEMMA ConnectHolds == ASSUME AnalysisInv, Connect PROVE AnalysisInv'
<1>1. stage = "connect" /\ UNCHANGED chain
    BY DEF Connect, Awaits
<1>2. CASE Raise
    BY <1>1, <1>2, RaiseHolds
<1>3. CASE Finds([seen EXCEPT !.contract = chain.kind[Target] # "eoa"],
                 IF chain.kind[Target] # "eoa" THEN "proxy" ELSE "assess")
           /\ UNCHANGED <<context, failed>>
    BY <1>1, <1>3 DEF Finds, context, AnalysisInv, TypeOK, Findings, AdminKnown, AuthorityKnown, WalletKnown,
                      TradeKnown, AssessedLast, HighTax
<1> QED
    BY <1>2, <1>3 DEF Connect

LEMMA ReadProxyHolds == ASSUME AnalysisInv, ReadProxy PROVE AnalysisInv'
<1>1. stage = "proxy" /\ UNCHANGED chain /\ chain.implementation \in MaybeAddress /\ seen.contract
    BY DEF ReadProxy, Awaits, AnalysisInv, TypeOK, ChainStates, AdminKnown
<1>2. CASE Raise
    BY <1>1, <1>2, RaiseHolds
<1>3. CASE Finds([seen EXCEPT !.implementation = chain.implementation], "admin") /\ UNCHANGED <<context, failed>>
    BY <1>1, <1>3 DEF Finds, context, AnalysisInv, TypeOK, Findings, AdminKnown, AuthorityKnown, WalletKnown,
               TradeKnown, AssessedLast, HighTax
<1> QED
    BY <1>2, <1>3 DEF ReadProxy

LEMMA AdminTypeIs ==
    ASSUME chain \in ChainStates, NEW a \in MaybeAddress
    PROVE  AdminType(a) \in AdminTypes /\ (a = NoAddress <=> AdminType(a) = "none")
BY AnalysisAssumption DEF AdminType, AdminTypes, ChainStates, MaybeAddress

LEMMA ReadAdminHolds == ASSUME AnalysisInv, ReadAdmin PROVE AnalysisInv'
<1>1. stage = "admin" /\ UNCHANGED chain /\ chain \in ChainStates /\ chain.admin \in MaybeAddress
      /\ (stage = "admin" => seen.adminType = "none")
    BY DEF ReadAdmin, Awaits, AnalysisInv, TypeOK, ChainStates, AdminKnown
<1>2. CASE Raise
    BY <1>1, <1>2, RaiseHolds
<1>3. CASE Finds([seen EXCEPT !.admin = chain.admin, !.adminType = AdminType(chain.admin)],
                 IF AdminType(chain.admin) = "contract" THEN "admin_delay" ELSE AfterAdmin)
           /\ UNCHANGED <<context, failed>>
    BY <1>1, <1>3, AdminTypeIs DEF Finds, AfterAdmin, context, AnalysisInv, TypeOK, Findings, AdminKnown, AuthorityKnown, WalletKnown,
               TradeKnown, AssessedLast, HighTax
<1> QED
    BY <1>2, <1>3 DEF ReadAdmin

LEMMA ProbeHolds ==
    ASSUME AnalysisInv, UNCHANGED chain, NEW a \in Addresses, NEW next, ProbeDelay(a, next),
           \/ stage = "admin_delay" /\ next = "owner"
           \/ stage = "owner_delay" /\ next = AfterAdmin
    PROVE  AnalysisInv'
<1>1. chain.delay[a] \in {"none", "empty", "delay"}
    BY DEF AnalysisInv, TypeOK, ChainStates
<1> QED
    BY <1>1 DEF ProbeDelay, Finds, Misses, AfterAdmin, context, AnalysisInv, TypeOK, Findings, AdminKnown, AuthorityKnown, WalletKnown,
               TradeKnown, AssessedLast, HighTax

\* Only an address can have an admin's type.
LEMMA ProbeAdminDelayHolds == ASSUME AnalysisInv, ProbeAdminDelay PROVE AnalysisInv'
<1>1. stage = "admin_delay" /\ UNCHANGED chain /\ seen.admin \in Addresses
    BY DEF ProbeAdminDelay, Awaits, AnalysisInv, TypeOK, Findings, MaybeAddress, AdminKnown
<1> QED
    BY <1>1, ProbeHolds DEF ProbeAdminDelay

LEMMA ProbeOwnerDelayHolds == ASSUME AnalysisInv, ProbeOwnerDelay PROVE AnalysisInv'
<1>1. stage = "owner_delay" /\ UNCHANGED chain /\ seen.owner \in Addresses
    BY DEF ProbeOwnerDelay, Awaits, AnalysisInv, TypeOK, Findings, MaybeAddress, AdminKnown
<1> QED
    BY <1>1, ProbeHolds DEF ProbeOwnerDelay

LEMMA TraceOwnerHolds == ASSUME AnalysisInv, TraceOwner PROVE AnalysisInv'
<1> DEFINE owner == chain.owner[seen.admin]
<1>1. stage = "owner" /\ UNCHANGED chain /\ seen.admin \in Addresses /\ chain \in ChainStates
    BY DEF TraceOwner, Awaits, AnalysisInv, TypeOK, Findings, MaybeAddress, AdminKnown
<1>2. owner \in MaybeAddress
    BY <1>1 DEF ChainStates
<1>3. AdminType(owner) \in AdminTypes /\ (owner = NoAddress <=> AdminType(owner) = "none")
    BY <1>1, <1>2, AdminTypeIs
<1>4. CASE Raise
    BY <1>1, <1>4, RaiseHolds
<1>5. CASE Finds(seen, AfterAdmin) /\ Misses("owner") /\ UNCHANGED context
    BY <1>1, <1>5 DEF Finds, AfterAdmin, context, AnalysisInv, TypeOK, Findings, AdminKnown, AuthorityKnown, WalletKnown,
               TradeKnown, AssessedLast, HighTax
<1>6. CASE Finds([seen EXCEPT !.owner = owner, !.ownerType = AdminType(owner)],
                 IF AdminType(owner) = "contract" THEN "owner_delay" ELSE AfterAdmin)
           /\ UNCHANGED <<context, failed>>
    <2> HIDE DEF owner
    <2> QED
        BY <1>1, <1>2, <1>3, <1>6 DEF Finds, AfterAdmin, context, AnalysisInv, TypeOK, Findings, AdminKnown, AuthorityKnown, WalletKnown,
               TradeKnown, AssessedLast, HighTax
<1> QED
    BY <1>4, <1>5, <1>6 DEF TraceOwner

LEMMA ReadImplementationHolds == ASSUME AnalysisInv, ReadImplementation PROVE AnalysisInv'
BY DEF ReadImplementation, Awaits, Finds, AnalysisInv, TypeOK, Findings, AdminKnown, AuthorityKnown, WalletKnown,
               TradeKnown, AssessedLast, HighTax

\* A blocked trade or a high tax is flagged whatever the code tells.
LEMMA FlagsOfTrade ==
    ASSUME NEW r, NEW t
    PROVE  /\ HoneypotFlags(r, t) \subseteq Controls
           /\ t.simulated /\ "no" \in {t.sells, t.moves} => "blacklist_sell_blocking" \in HoneypotFlags(r, t)
           /\ HighTax(t) => "transfer_tax_control" \in HoneypotFlags(r, t)
BY DEF HoneypotFlags, When, Controls

LEMMA HoneypotHolds == ASSUME AnalysisInv, Honeypot PROVE AnalysisInv'
<1>1. PICK r \in Readings, t \in {NotSimulated, chain.trade[Logic]} :
          Finds([seen EXCEPT !.controls = HoneypotFlags(r, t), !.trade = t], "governance")
    BY DEF Honeypot
<1>2. stage = "honeypot" /\ UNCHANGED <<chain, context>>
    BY DEF Honeypot, Awaits
<1>3. Logic \in Addresses
    BY AnalysisAssumption DEF Logic, AnalysisInv, TypeOK, Findings, MaybeAddress
<1>4. t \in Trades
    <2>1. NotSimulated \in Trades
        BY DEF NotSimulated, Trades
    <2>2. chain.trade[Logic] \in Trades
        BY <1>3 DEF AnalysisInv, TypeOK, ChainStates
    <2> QED
        BY <2>1, <2>2
<1>5. /\ HoneypotFlags(r, t) \subseteq Controls
      /\ t.simulated /\ "no" \in {t.sells, t.moves} => "blacklist_sell_blocking" \in HoneypotFlags(r, t)
      /\ HighTax(t) => "transfer_tax_control" \in HoneypotFlags(r, t)
    BY FlagsOfTrade
<1> QED
    BY <1>1, <1>2, <1>4, <1>5 DEF Finds, context, AnalysisInv, TypeOK, Findings, AdminKnown, AuthorityKnown, WalletKnown,
               TradeKnown, AssessedLast, HighTax

LEMMA GovernanceHolds == ASSUME AnalysisInv, Governance PROVE AnalysisInv'
<1>1. stage = "governance" /\ stage' = "capability" /\ UNCHANGED <<chain, seen, assessment, fetched>>
      /\ authority' = UpgradeAuthority(seen)
    BY DEF Governance, Awaits, Finds
<1>2. ownership' \in MaybeAddress
    <2>1. Logic \in Addresses
        BY AnalysisAssumption DEF Logic, AnalysisInv, TypeOK, Findings, MaybeAddress
    <2>2. chain.owner[Logic] \in MaybeAddress /\ NoAddress \in MaybeAddress
        BY <2>1 DEF AnalysisInv, TypeOK, ChainStates, MaybeAddress
    <2> QED
        BY <2>2 DEF Governance
<1>3. UpgradeAuthority(seen) \in AdminTypes \cup {"timelock", "unknown"}
    BY DEF UpgradeAuthority, AnalysisInv, TypeOK, Findings, AdminTypes
<1> QED
    BY <1>1, <1>2, <1>3 DEF AnalysisInv, TypeOK, Findings, AdminKnown, AuthorityKnown, WalletKnown,
               TradeKnown, AssessedLast, HighTax

LEMMA CapabilityHolds == ASSUME AnalysisInv, Capability PROVE AnalysisInv'
<1>1. PICK r \in Readings : Finds([seen EXCEPT !.abilities = Traits(r) \cap Capabilities], "liquidity")
    BY DEF Capability
<1> DEFINE abilities == Traits(r) \cap Capabilities
<1>2. stage = "capability" /\ UNCHANGED <<chain, context>> /\ abilities \in SUBSET Capabilities
    BY DEF Capability, Awaits
<1> HIDE DEF abilities
<1> QED
    BY <1>1, <1>2 DEF Finds, context, UpgradeAuthority, AnalysisInv, TypeOK, Findings, AdminKnown, AuthorityKnown, WalletKnown,
               TradeKnown, AssessedLast, HighTax, abilities

LEMMA LiquidityHolds == ASSUME AnalysisInv, Liquidity PROVE AnalysisInv'
<1>1. PICK p \in Pools \cup {NoPool} : Finds([seen EXCEPT !.pool = p], "wallet")
    BY DEF Liquidity, AnalysisInv, TypeOK, ChainStates
<1>2. stage = "liquidity" /\ UNCHANGED <<chain, context>>
    BY DEF Liquidity, Awaits
<1> QED
    BY <1>1, <1>2 DEF Finds, context, UpgradeAuthority, AnalysisInv, TypeOK, Findings, AdminKnown, AuthorityKnown, WalletKnown,
               TradeKnown, AssessedLast, HighTax

\* Only a multisig in charge makes a treasury.
LEMMA SignalsOfWallet ==
    ASSUME NEW creator, NEW known
    PROVE  /\ WalletSignals(creator, known) \subseteq WalletFindings
           /\ "treasury_multisig" \in WalletSignals(creator, known) => "multisig" \in {seen.adminType, seen.ownerType}
BY DEF WalletSignals, WalletFindings, Holdings, Funding, When

LEMMA WalletHolds == ASSUME AnalysisInv, Wallet PROVE AnalysisInv'
<1>1. stage = "wallet" /\ UNCHANGED <<chain, context>>
    BY DEF Wallet, Awaits
<1>2. CASE Finds(seen, "assess") /\ Misses("wallet")
    BY <1>1, <1>2 DEF Finds, context, UpgradeAuthority, AnalysisInv, TypeOK, Findings, AdminKnown, AuthorityKnown, WalletKnown,
               TradeKnown, AssessedLast, HighTax
<1>3. CASE \E found, known \in BOOLEAN :
              Finds([seen EXCEPT !.wallet = WalletSignals(IF found THEN chain.creator ELSE NoAddress, known)], "assess")
    <2>1. PICK found \in BOOLEAN, known \in BOOLEAN :
              Finds([seen EXCEPT !.wallet = WalletSignals(IF found THEN chain.creator ELSE NoAddress, known)], "assess")
        BY <1>3
    <2> DEFINE signals == WalletSignals(IF found THEN chain.creator ELSE NoAddress, known)
    <2>2. /\ signals \subseteq WalletFindings
          /\ "treasury_multisig" \in signals => "multisig" \in {seen.adminType, seen.ownerType}
        BY SignalsOfWallet
    <2>3. Finds([seen EXCEPT !.wallet = signals], "assess")
        BY <2>1
    <2> HIDE DEF signals
    <2> QED
        BY <1>1, <2>2, <2>3 DEF Finds, context, UpgradeAuthority, AnalysisInv, TypeOK, Findings, AdminKnown, AuthorityKnown, WalletKnown,
               TradeKnown, AssessedLast, HighTax
<1> QED
    BY <1>2, <1>3 DEF Wallet

LEMMA AssessHolds == ASSUME AnalysisInv, Assess PROVE AnalysisInv'
BY DEF Assess, Awaits, context, AnalysisInv, TypeOK, Findings, AdminKnown, AuthorityKnown, WalletKnown,
               TradeKnown, AssessedLast, HighTax

\* The inductive invariant: every read finds the findings before it as they must be,
\* whatever fails and whenever the chain moves on.
THEOREM AnalysisInvariant == Spec => []AnalysisInv
<1>1. AnalysisInv /\ [Next]_vars => AnalysisInv'
    <2> SUFFICES ASSUME AnalysisInv, [Next]_vars PROVE AnalysisInv'
        OBVIOUS
    <2>1. ASSUME NEW a \in Addresses, Upgrade(a) \/ ChangeHands(a) PROVE AnalysisInv'
        BY <2>1, ChainHolds
    <2>2. CASE UNCHANGED vars
        BY <2>2 DEF vars, context, AnalysisInv, TypeOK, AdminKnown, AuthorityKnown, WalletKnown, TradeKnown,
                    AssessedLast, UpgradeAuthority, HighTax
    <2> QED
        BY <2>1, <2>2, ConnectHolds, ReadProxyHolds, ReadAdminHolds, ProbeAdminDelayHolds, TraceOwnerHolds,
           ProbeOwnerDelayHolds, ReadImplementationHolds, HoneypotHolds, GovernanceHolds, CapabilityHolds,
           LiquidityHolds, WalletHolds, AssessHolds DEF Next
<1> QED
    BY InitHolds, <1>1, PTL DEF Spec

\* The variables keep their types, and an assessment is that of the findings.
THEOREM AnalysisTypes == Spec => []TypeOK
<1>1. AnalysisInv => TypeOK
    BY DEF AnalysisInv
<1> QED
    BY AnalysisInvariant, <1>1, PTL

------------------------------------------------------------------------------
(* What an assessment says *)

\* An assessment is made once, of the findings in their final state.
LEMMA Assessed == AnalysisInv => \A a \in assessment : stage = "done" /\ a = Assessment(seen)
BY DEF AnalysisInv, TypeOK, AssessedLast

\* Every signal is the business of one part of the evidence.
Apart(f) ==
    LET e == Evidence(f)
    IN  /\ \A x \in {"upgradeable", "implementation_exposed", "unknown_admin"} : x \in e <=> x \in ProxyEvidence(f)
        /\ \A x \in {"admin_timelock", "admin_multisig", "admin_contract", "admin_eoa"} :
                x \in e <=> x \in AdminEvidence(f)
        /\ \A x \in Controls : x \in e <=> x \in HoneypotEvidence(f)
        /\ \A x \in {"sim_buy_blocked", "sim_sell_blocked", "sim_high_buy_tax", "sim_high_sell_tax"} :
                x \in e <=> x \in SimulationEvidence(f)
        /\ \A x \in Capabilities : x \in e <=> x \in f.abilities
        /\ "treasury_multisig" \in e <=> "treasury_multisig" \in f.wallet

LEMMA EvidenceApart ==
    ASSUME NEW f, f.contract, f.abilities \subseteq Capabilities, f.controls \subseteq Controls,
           f.wallet \subseteq WalletFindings
    PROVE  Apart(f)
BY DEF Apart, Evidence, ProxyEvidence, AdminEvidence, HoneypotEvidence, SimulationEvidence, LiquidityEvidence,
       Controls, Capabilities, WalletFindings, When

LEMMA SeenApart == AnalysisInv /\ seen.contract => Apart(seen)
<1>1. AnalysisInv => /\ seen.abilities \subseteq Capabilities /\ seen.controls \subseteq Controls
                     /\ seen.wallet \subseteq WalletFindings
    BY DEF AnalysisInv, TypeOK, Findings
<1> QED
    BY <1>1, EvidenceApart

\* The governance analyzer, the admin evidence, the correlation rule and the wallet
\* signals agree on who can upgrade, for any proxy, admin and owner and whatever
\* reads fail.
THEOREM AuthoritiesAgree == Spec => []AuthorityAgrees
<1>1. AnalysisInv => AuthorityAgrees
    <2> SUFFICES ASSUME AnalysisInv, NEW a \in assessment, seen.implementation # NoAddress
                 PROVE  /\ authority = "timelock" <=> "admin_timelock" \in a.evidence
                        /\ authority = "multisig" <=> "admin_multisig" \in a.evidence
                        /\ authority = "contract" <=> "admin_contract" \in a.evidence
                        /\ authority = "eoa" <=> "critical_governance_centralization" \in a.correlated
                        /\ authority = "unknown" <=> "unknown_admin" \in a.evidence
                        /\ "treasury_multisig" \in a.evidence => authority \in {"multisig", "timelock"}
        BY DEF AuthorityAgrees
    <2> DEFINE e == Evidence(seen)
    <2>1. stage = "done" /\ a = Assessment(seen)
        BY Assessed
    <2>2. a.evidence = e /\ a.correlated = Correlated(seen, e)
        BY <2>1 DEF Assessment
    <2>3. /\ authority = UpgradeAuthority(seen) /\ seen.contract
          /\ seen.adminType \in AdminTypes /\ seen.ownerType \in AdminTypes
          /\ seen.delay \in {"none", "empty", "delay"}
          /\ seen.admin = NoAddress <=> seen.adminType = "none"
          /\ seen.delay # "none" \/ seen.ownerType # "none" => seen.adminType = "contract"
          /\ "treasury_multisig" \in seen.wallet => "multisig" \in {seen.adminType, seen.ownerType}
        BY <2>1 DEF AnalysisInv, TypeOK, Findings, AdminKnown, AuthorityKnown, WalletKnown
    <2>4. /\ \A x \in {"upgradeable", "unknown_admin"} : x \in e <=> x \in ProxyEvidence(seen)
          /\ \A x \in {"admin_timelock", "admin_multisig", "admin_contract", "admin_eoa"} :
                  x \in e <=> x \in AdminEvidence(seen)
          /\ "treasury_multisig" \in e <=> "treasury_multisig" \in seen.wallet
        BY <2>3, SeenApart DEF Apart
    <2>5. "upgradeable" \in e /\ ("unknown_admin" \in e <=> seen.admin = NoAddress)
        BY <2>4 DEF ProxyEvidence, When
    <2>6. "critical_governance_centralization" \in Correlated(seen, e) <=> EoaWithoutTimelock(seen)
        BY <2>5 DEF Correlated, When
    <2> HIDE DEF e
    <2> QED
        BY <2>2, <2>3, <2>4, <2>5, <2>6 DEF UpgradeAuthority, AdminEvidence, EoaWithoutTimelock, AdminTypes
<1> QED
    BY AnalysisInvariant, <1>1, PTL

\* What the simulation of a trade found is in the assessment once, for any trade and
\* any suspicion.
THEOREM TradesCountOnce == Spec => []TradeCountsOnce
<1>1. AnalysisInv => TradeCountsOnce
    <2> SUFFICES ASSUME AnalysisInv, NEW a \in assessment, seen.trade.simulated
                 PROVE  /\ seen.trade.sells = "no" => a.threat = "CRITICAL"
                        /\ "no" \in {seen.trade.sells, seen.trade.moves} =>
                                Cardinality(a.evidence \cap {"sim_sell_blocked", "blacklist_sell_blocking"}) = 1
                        /\ HighTax(seen.trade) =>
                                "transfer_tax_control" \in a.evidence
                                    <=> a.evidence \cap {"sim_high_buy_tax", "sim_high_sell_tax"} = {}
        BY DEF TradeCountsOnce
    <2> DEFINE e == Evidence(seen)
    <2>1. stage = "done" /\ a = Assessment(seen)
        BY Assessed
    <2>2. a.evidence = e /\ a.threat = ThreatLevel(e)
        BY <2>1 DEF Assessment
    <2>3. CASE seen.contract
        <3>1. /\ \A x \in Controls : x \in e <=> x \in HoneypotEvidence(seen)
              /\ \A x \in {"sim_buy_blocked", "sim_sell_blocked", "sim_high_buy_tax", "sim_high_sell_tax"} :
                      x \in e <=> x \in SimulationEvidence(seen)
            BY <2>3, SeenApart DEF Apart
        <3>2. /\ "sim_sell_blocked" \in e <=> seen.trade.sells = "no"
              /\ "sim_high_buy_tax" \in e <=> seen.trade.buyTaxHigh
              /\ "sim_high_sell_tax" \in e <=> seen.trade.sellTaxHigh
            BY <3>1 DEF SimulationEvidence, When
        <3>3. /\ "blacklist_sell_blocking" \in e
                    <=> "blacklist_sell_blocking" \in seen.controls /\ seen.trade.sells # "no"
              /\ "transfer_tax_control" \in e <=> "transfer_tax_control" \in seen.controls /\ ~HighTax(seen.trade)
            BY <3>1 DEF HoneypotEvidence, Controls
        <3> HIDE DEF e
        <3>4. seen.trade.sells = "no" => a.threat = "CRITICAL"
            BY <2>2, <3>2 DEF ThreatLevel
        <3>5. ASSUME "no" \in {seen.trade.sells, seen.trade.moves}
              PROVE  Cardinality(a.evidence \cap {"sim_sell_blocked", "blacklist_sell_blocking"}) = 1
            <4>1. "blacklist_sell_blocking" \in seen.controls
                BY <3>5 DEF AnalysisInv, TradeKnown
            <4>2. CASE seen.trade.sells = "no"
                <5>1. e \cap {"sim_sell_blocked", "blacklist_sell_blocking"} = {"sim_sell_blocked"}
                    BY <3>2, <3>3, <4>2
                <5> QED
                    BY <2>2, <5>1, FS_Singleton
            <4>3. CASE seen.trade.sells # "no"
                <5>1. e \cap {"sim_sell_blocked", "blacklist_sell_blocking"} = {"blacklist_sell_blocking"}
                    BY <3>2, <3>3, <4>1, <4>3
                <5> QED
                    BY <2>2, <5>1, FS_Singleton
            <4> QED
                BY <4>2, <4>3
        <3>6. ASSUME HighTax(seen.trade)
              PROVE  "transfer_tax_control" \in a.evidence
                         <=> a.evidence \cap {"sim_high_buy_tax", "sim_high_sell_tax"} = {}
            BY <2>2, <3>2, <3>3, <3>6 DEF HighTax
        <3> QED
            BY <3>4, <3>5, <3>6
    <2>4. seen.contract
        BY DEF AnalysisInv, TradeKnown
    <2> QED
        BY <2>3, <2>4
<1> QED
    BY AnalysisInvariant, <1>1, PTL

------------------------------------------------------------------------------
(* What the findings say is true *)

\* The chain moves on in one of two ways.
Same(w, c) ==
    /\ w.admin = c.admin /\ w.creator = c.creator /\ w.kind = c.kind /\ w.delay = c.delay /\ w.code = c.code
    /\ w.source = c.source /\ w.listed = c.listed /\ w.trade = c.trade /\ w.pools = c.pools
    /\ w.deployer = c.deployer
HeldInv ==
    /\ chain \in held /\ held \subseteq ChainStates
    /\ \A w \in held : Same(w, chain) /\ (w.implementation = chain.implementation \/ w.owner = chain.owner)

Truth == Invented \cup UNION {Justified(w) \cup Presumed(w) : w \in held}

ProxyTrue ==
    /\ stage \notin {"connect", "failed"} /\ ~seen.contract => chain.kind[Target] = "eoa"
    /\ stage \notin {"connect", "proxy", "failed"} /\ seen.contract =>
          \E w \in held : w.implementation = seen.implementation

AdminTrue ==
    /\ stage \notin {"connect", "proxy", "admin", "failed"} /\ seen.contract =>
          seen.admin = chain.admin /\ seen.adminType = AdminType(chain.admin)
    /\ stage \in {"connect", "proxy", "admin", "admin_delay", "owner"} => seen.owner = NoAddress
    /\ seen.ownerType = AdminType(seen.owner)
    /\ seen.owner # NoAddress =>
          seen.admin = chain.admin /\ chain.admin # NoAddress /\ \E w \in held : w.owner[chain.admin] = seen.owner
    /\ seen.delay # "none" =>
          /\ seen.admin = chain.admin /\ chain.admin # NoAddress
          /\ \E a \in {chain.admin, seen.owner} \ {NoAddress} : chain.delay[a] # "none"

OwnershipTrue ==
    ownership # NoAddress =>
        /\ stage \in {"capability", "liquidity", "wallet", "assess", "done", "failed"}
        /\ \E w \in held : w.implementation = seen.implementation /\ w.owner[Logic] = ownership

PoolTrue ==
    /\ seen.pool # NoPool => \E d \in Dexes : chain.pools[d] = seen.pool
    /\ stage \in {"wallet", "assess", "done"} /\ seen.contract => LiquidityEvidence(seen.pool) \subseteq Truth

SignalsTrue ==
    /\ seen.controls \subseteq Truth /\ SimulationEvidence(seen) \subseteq Truth
    /\ seen.abilities \subseteq Truth /\ seen.wallet \subseteq Truth

TruthInv == HeldInv /\ ProxyTrue /\ AdminTrue /\ OwnershipTrue /\ PoolTrue /\ SignalsTrue

LogicOf(w) == IF w.implementation = NoAddress THEN Target ELSE w.implementation
UpgraderOf(w) == IF w.admin = NoAddress THEN NoAddress ELSE w.owner[w.admin]
PoolsOf(w) == {w.pools[d] : d \in Dexes} \ {NoPool}

\* What is true of a state of the chain, part by part.
LEMMA JustifiedProxy ==
    ASSUME NEW w
    PROVE  /\ w.kind[Target] = "eoa" => "not_contract" \in Justified(w)
           /\ w.implementation # NoAddress => {"upgradeable", "implementation_exposed"} \subseteq Justified(w)
           /\ w.admin = NoAddress => "unknown_admin" \in Justified(w)
BY DEF Justified, When

LEMMA JustifiedAdmin ==
    ASSUME NEW w, NEW a \in {w.admin, UpgraderOf(w)} \ {NoAddress}
    PROVE  /\ w.delay[a] = "delay" => "admin_timelock" \in Justified(w)
           /\ w.delay[a] = "empty" => "admin_timelock" \in Presumed(w)
           /\ w.kind[a] = "eoa" => "admin_eoa" \in Justified(w)
           /\ w.kind[a] = "multisig" => {"admin_multisig", "treasury_multisig"} \subseteq Justified(w)
           /\ w.kind[a] = "contract" => "admin_contract" \in Justified(w)
BY DEF Justified, Presumed, When, UpgraderOf

LEMMA JustifiedCode ==
    ASSUME NEW w, NEW x \in w.code[LogicOf(w)], x # "blacklist_sell_blocking"
    PROVE  x \in Justified(w)
BY DEF Justified, LogicOf

LEMMA JustifiedTrade ==
    ASSUME NEW w
    PROVE  LET logic == LogicOf(w)
               code == w.code[logic]
               trade == w.trade[logic]
           IN  /\ \/ "blacklist" \in code /\ (logic \in w.source \/ "sell_restriction" \in code)
                  \/ "no" \in {trade.sells, trade.moves}
                  => "blacklist_sell_blocking" \in Justified(w)
               /\ HighTax(trade) => "transfer_tax_control" \in Justified(w)
               /\ SimulationEvidence([trade |-> trade]) \subseteq Justified(w)
BY DEF Justified, When, LogicOf

LEMMA JustifiedPool ==
    ASSUME NEW w
    PROVE  /\ PoolsOf(w) = {} => LiquidityEvidence(NoPool) \subseteq Justified(w)
           /\ \A p \in PoolsOf(w) : LiquidityEvidence(p) \subseteq Justified(w)
<1> DEFINE pools == IF PoolsOf(w) = {} THEN {NoPool} ELSE PoolsOf(w)
           said == UNION {LiquidityEvidence(p) : p \in pools}
<1>1. said \subseteq Justified(w)
    BY DEF Justified, PoolsOf
<1>2. \A p \in pools : LiquidityEvidence(p) \subseteq said
    OBVIOUS
<1> QED
    BY <1>1, <1>2

LEMMA JustifiedWallet ==
    ASSUME NEW w
    PROVE  /\ w.creator # NoAddress
              /\ w.creator \in {w.owner[LogicOf(w)], UpgraderOf(w)} \cup {p.holder : p \in PoolsOf(w)}
                => "creator_owns_majority" \in Justified(w)
           /\ w.creator # NoAddress /\ (\E p \in PoolsOf(w) : p.holder = w.creator)
                => "lp_owner_is_creator" \in Justified(w)
           /\ "fresh" \in w.deployer => "fresh_deployer" \in Justified(w)
           /\ "exchange" \in w.deployer => "exchange_funded_deployer" \in Justified(w)
           /\ "tornado" \in w.deployer => "tornado_funded_deployer" \in Justified(w)
           /\ w.listed \cap {w.creator, w.owner[LogicOf(w)], UpgraderOf(w), Target} # {}
                => "wallet_known_scam" \in Justified(w)
<1>1. w.creator # NoAddress
      /\ w.creator \in {w.owner[LogicOf(w)], UpgraderOf(w)} \cup {p.holder : p \in PoolsOf(w)}
        => "creator_owns_majority" \in Justified(w)
    BY DEF Justified, When, LogicOf, UpgraderOf, PoolsOf
<1>2. w.creator # NoAddress /\ (\E p \in PoolsOf(w) : p.holder = w.creator)
        => "lp_owner_is_creator" \in Justified(w)
    BY DEF Justified, When, PoolsOf
<1>3. /\ "fresh" \in w.deployer => "fresh_deployer" \in Justified(w)
      /\ "exchange" \in w.deployer => "exchange_funded_deployer" \in Justified(w)
      /\ "tornado" \in w.deployer => "tornado_funded_deployer" \in Justified(w)
    <2> DEFINE Of(x) == CASE x = "fresh" -> "fresh_deployer" [] x = "exchange" -> "exchange_funded_deployer"
                          [] OTHER -> "tornado_funded_deployer"
               said == {Of(x) : x \in w.deployer}
    <2>1. said \subseteq Justified(w)
        BY DEF Justified
    <2>2. Of("fresh") = "fresh_deployer" /\ Of("exchange") = "exchange_funded_deployer"
          /\ Of("tornado") = "tornado_funded_deployer"
        OBVIOUS
    <2>3. \A x \in w.deployer : Of(x) \in said
        OBVIOUS
    <2> HIDE DEF Of, said
    <2> QED
        BY <2>1, <2>2, <2>3
<1>4. w.listed \cap {w.creator, w.owner[LogicOf(w)], UpgraderOf(w), Target} # {}
        => "wallet_known_scam" \in Justified(w)
    BY DEF Justified, When, LogicOf, UpgraderOf
<1> QED
    BY <1>1, <1>2, <1>3, <1>4

LEMMA JustifiedIsTrue ==
    ASSUME NEW w \in held, NEW x \in Justified(w) \cup Presumed(w)
    PROVE  x \in Truth
BY DEF Truth

\* What was once true of the chain stays so.
LEMMA TruthGrows ==
    ASSUME held \subseteq held', failed \subseteq failed'
    PROVE  Truth \subseteq Truth'
BY DEF Truth, Invented, When

------------------------------------------------------------------------------
(* Truth, step by step *)

\* The chain moves on: what was seen was true before.
LEMMA ChainMovesTruly ==
    ASSUME AnalysisInv, TruthInv, NEW a \in Addresses, Upgrade(a) \/ ChangeHands(a)
    PROVE  TruthInv'
<1>1. chain \in ChainStates
    BY DEF AnalysisInv, TypeOK
<1>2. /\ held = {chain} /\ held' = {chain, chain'} /\ chain' \in ChainStates
      /\ Same(chain', chain) /\ (chain'.implementation = chain.implementation \/ chain'.owner = chain.owner)
    <2>1. CASE Upgrade(a)
        <3>1. chain' = [chain EXCEPT !.implementation = a] /\ held = {chain} /\ held' = {chain, chain'}
            BY <2>1 DEF Upgrade, MovesOn
        <3>2. chain' \in ChainStates
            BY <1>1, <3>1 DEF ChainStates, MaybeAddress
        <3> QED
            BY <1>1, <3>1, <3>2 DEF Same, ChainStates
    <2>2. CASE ChangeHands(a)
        <3>1. chain' = [chain EXCEPT !.owner[chain.admin] = a] /\ held = {chain} /\ held' = {chain, chain'}
            BY <2>2 DEF ChangeHands, MovesOn
        <3>2. chain' \in ChainStates
            BY <1>1, <3>1 DEF ChainStates, MaybeAddress
        <3> QED
            BY <1>1, <3>1, <3>2 DEF Same, ChainStates
    <2> QED
        BY <2>1, <2>2
<1>3. /\ stage' = stage /\ seen' = seen /\ ownership' = ownership /\ fetched' = fetched /\ failed' = failed
      /\ stage \notin {"connect", "done", "failed"}
    BY DEF Upgrade, ChangeHands, MovesOn, context
<1>4. Truth \subseteq Truth' /\ held \subseteq held'
    BY <1>2, <1>3, TruthGrows
<1>5. HeldInv'
    BY <1>1, <1>2 DEF HeldInv, Same
<1>6. ProxyTrue'
    BY <1>2, <1>3 DEF TruthInv, ProxyTrue, Same
<1>7. AdminTrue'
    BY <1>2, <1>3 DEF TruthInv, AdminTrue, AdminType, Same
<1>8. OwnershipTrue'
    BY <1>2, <1>3 DEF TruthInv, OwnershipTrue, Logic
<1>9. PoolTrue'
    <2>1. chain'.pools = chain.pools
        BY <1>2 DEF Same
    <2> QED
        BY <1>3, <1>4, <2>1 DEF TruthInv, PoolTrue
<1>10. SignalsTrue'
    BY <1>3, <1>4 DEF TruthInv, SignalsTrue
<1> QED
    BY <1>5, <1>6, <1>7, <1>8, <1>9, <1>10 DEF TruthInv

\* What a read leaves alone.
LEMMA ReadKeeps ==
    ASSUME TruthInv, UNCHANGED <<chain, held>>, failed \subseteq failed'
    PROVE  /\ HeldInv' /\ Truth \subseteq Truth'
           /\ \A a : AdminType(a)' = AdminType(a)
BY TruthGrows DEF TruthInv, HeldInv, Same, AdminType

\* A scan that fails says no more.
LEMMA RaiseTruly ==
    ASSUME AnalysisInv, TruthInv, UNCHANGED <<chain, held>>, Raise
    PROVE  TruthInv'
<1>1. HeldInv' /\ Truth \subseteq Truth' /\ AdminType(seen.owner)' = AdminType(seen.owner)
    BY ReadKeeps DEF Raise, AdminType
<1>2. stage' = "failed" /\ UNCHANGED <<chain, held, seen, ownership, fetched>>
    BY DEF Raise, context
<1>3. ProxyTrue' /\ AdminTrue' /\ OwnershipTrue' /\ PoolTrue'
    BY <1>1, <1>2 DEF TruthInv, ProxyTrue, AdminTrue, OwnershipTrue, PoolTrue, Logic
<1>4. SignalsTrue'
    BY <1>1, <1>2 DEF TruthInv, SignalsTrue
<1> QED
    BY <1>1, <1>3, <1>4 DEF TruthInv

\* A read that finds nothing about signals, before the pools are read.
LEMMA SignalsStay ==
    ASSUME TruthInv, UNCHANGED <<chain, held>>, failed \subseteq failed',
           seen'.controls = seen.controls, seen'.trade = seen.trade, seen'.abilities = seen.abilities,
           seen'.wallet = seen.wallet, seen'.pool = seen.pool,
           stage \notin {"wallet", "assess", "done"}, stage' \notin {"wallet", "assess", "done"} \/ ~seen'.contract
    PROVE  PoolTrue' /\ SignalsTrue'
<1>1. Truth \subseteq Truth'
    BY ReadKeeps
<1>2. SimulationEvidence(seen') = SimulationEvidence(seen)
    BY DEF SimulationEvidence
<1> QED
    BY <1>1, <1>2 DEF TruthInv, PoolTrue, SignalsTrue

LEMMA ConnectTruly == ASSUME AnalysisInv, TruthInv, Connect PROVE TruthInv'
<1>1. stage = "connect" /\ UNCHANGED <<chain, held>>
    BY DEF Connect, Awaits
<1>2. CASE Raise
    BY <1>1, <1>2, RaiseTruly
<1>3. CASE Finds([seen EXCEPT !.contract = chain.kind[Target] # "eoa"],
                 IF chain.kind[Target] # "eoa" THEN "proxy" ELSE "assess")
           /\ UNCHANGED <<context, failed>>
    <2>1. /\ seen' = [seen EXCEPT !.contract = chain.kind[Target] # "eoa"]
          /\ stage' = IF chain.kind[Target] # "eoa" THEN "proxy" ELSE "assess"
          /\ UNCHANGED <<ownership, fetched, failed>> /\ seen \in Findings
        BY <1>3 DEF Finds, context, AnalysisInv, TypeOK
    <2>2. seen'.contract = (chain.kind[Target] # "eoa") /\ seen'.implementation = seen.implementation
          /\ seen'.admin = seen.admin /\ seen'.owner = seen.owner /\ seen'.ownerType = seen.ownerType
          /\ seen'.delay = seen.delay
          /\ seen'.controls = seen.controls /\ seen'.trade = seen.trade /\ seen'.abilities = seen.abilities
          /\ seen'.wallet = seen.wallet /\ seen'.pool = seen.pool
        BY <2>1 DEF Findings
    <2>3. HeldInv' /\ AdminType(seen.owner)' = AdminType(seen.owner)
        BY <1>1, <2>1, ReadKeeps
    <2>4. PoolTrue' /\ SignalsTrue'
        BY <1>1, <2>1, <2>2, SignalsStay
    <2>5. ProxyTrue' /\ AdminTrue' /\ OwnershipTrue'
        BY <1>1, <2>1, <2>2, <2>3 DEF TruthInv, ProxyTrue, AdminTrue, OwnershipTrue, AdminType
    <2> QED
        BY <2>3, <2>4, <2>5 DEF TruthInv
<1> QED
    BY <1>2, <1>3 DEF Connect

LEMMA ReadProxyTruly == ASSUME AnalysisInv, TruthInv, ReadProxy PROVE TruthInv'
<1>1. stage = "proxy" /\ UNCHANGED <<chain, held>> /\ seen.contract
    BY DEF ReadProxy, Awaits, AnalysisInv, AdminKnown
<1>2. CASE Raise
    BY <1>1, <1>2, RaiseTruly
<1>3. CASE Finds([seen EXCEPT !.implementation = chain.implementation], "admin") /\ UNCHANGED <<context, failed>>
    <2>1. /\ seen' = [seen EXCEPT !.implementation = chain.implementation] /\ stage' = "admin"
          /\ UNCHANGED <<ownership, fetched, failed>> /\ seen \in Findings
        BY <1>3 DEF Finds, context, AnalysisInv, TypeOK
    <2>2. seen'.contract /\ seen'.implementation = chain.implementation
          /\ seen'.admin = seen.admin /\ seen'.owner = seen.owner /\ seen'.ownerType = seen.ownerType
          /\ seen'.delay = seen.delay
          /\ seen'.controls = seen.controls /\ seen'.trade = seen.trade /\ seen'.abilities = seen.abilities
          /\ seen'.wallet = seen.wallet /\ seen'.pool = seen.pool
        BY <1>1, <2>1 DEF Findings
    <2>3. HeldInv' /\ AdminType(seen.owner)' = AdminType(seen.owner)
        BY <1>1, <2>1, ReadKeeps
    <2>4. PoolTrue' /\ SignalsTrue'
        BY <1>1, <2>1, <2>2, SignalsStay
    <2>5. ProxyTrue' /\ AdminTrue' /\ OwnershipTrue'
        BY <1>1, <2>1, <2>2, <2>3 DEF TruthInv, HeldInv, ProxyTrue, AdminTrue, OwnershipTrue, AdminType
    <2> QED
        BY <2>3, <2>4, <2>5 DEF TruthInv
<1> QED
    BY <1>2, <1>3 DEF ReadProxy

LEMMA ReadAdminTruly == ASSUME AnalysisInv, TruthInv, ReadAdmin PROVE TruthInv'
<1>1. stage = "admin" /\ UNCHANGED <<chain, held>> /\ seen.contract /\ seen.delay = "none"
    BY DEF ReadAdmin, Awaits, AnalysisInv, AdminKnown
<1>2. CASE Raise
    BY <1>1, <1>2, RaiseTruly
<1>3. CASE Finds([seen EXCEPT !.admin = chain.admin, !.adminType = AdminType(chain.admin)],
                 IF AdminType(chain.admin) = "contract" THEN "admin_delay" ELSE AfterAdmin)
           /\ UNCHANGED <<context, failed>>
    <2>1. /\ seen' = [seen EXCEPT !.admin = chain.admin, !.adminType = AdminType(chain.admin)]
          /\ stage' \in {"admin_delay", "honeypot", "implementation"}
          /\ UNCHANGED <<ownership, fetched, failed>> /\ seen \in Findings
        BY <1>3 DEF Finds, context, AnalysisInv, TypeOK, AfterAdmin
    <2>2. seen'.contract /\ seen'.implementation = seen.implementation
          /\ seen'.admin = chain.admin /\ seen'.adminType = AdminType(chain.admin)
          /\ seen'.owner = seen.owner /\ seen'.ownerType = seen.ownerType /\ seen'.delay = "none"
          /\ seen'.controls = seen.controls /\ seen'.trade = seen.trade /\ seen'.abilities = seen.abilities
          /\ seen'.wallet = seen.wallet /\ seen'.pool = seen.pool
        BY <1>1, <2>1 DEF Findings
    <2>3. HeldInv' /\ \A a : AdminType(a)' = AdminType(a)
        BY <1>1, <2>1, ReadKeeps
    <2>4. PoolTrue' /\ SignalsTrue'
        BY <1>1, <2>1, <2>2, SignalsStay
    <2>5. ProxyTrue' /\ OwnershipTrue'
        BY <1>1, <2>1, <2>2, <2>3 DEF TruthInv, HeldInv, ProxyTrue, OwnershipTrue
    <2>6. AdminTrue'
        BY <1>1, <2>1, <2>2, <2>3 DEF TruthInv, AdminTrue, AdminType
    <2> QED
        BY <2>3, <2>4, <2>5, <2>6 DEF TruthInv
<1> QED
    BY <1>2, <1>3 DEF ReadAdmin

\* A delay is that of the address asked.
LEMMA ProbeTruly ==
    ASSUME AnalysisInv, TruthInv, UNCHANGED <<chain, held>>, NEW a \in {seen.admin, seen.owner}, a # NoAddress,
           NEW next, ProbeDelay(a, next),
           \/ stage = "admin_delay" /\ next = "owner"
           \/ stage = "owner_delay" /\ next \in {"honeypot", "implementation"}
    PROVE  TruthInv'
<1>1. /\ seen' = seen \/ (seen' = [seen EXCEPT !.delay = chain.delay[a]] /\ chain.delay[a] # "none")
      /\ stage' = next /\ UNCHANGED <<ownership, fetched>> /\ failed \subseteq failed'
      /\ seen \in Findings
    BY DEF ProbeDelay, Finds, Misses, context, AnalysisInv, TypeOK
<1>2. seen'.contract = seen.contract /\ seen'.implementation = seen.implementation
      /\ seen'.admin = seen.admin /\ seen'.adminType = seen.adminType
      /\ seen'.owner = seen.owner /\ seen'.ownerType = seen.ownerType
      /\ (seen'.delay = seen.delay \/ chain.delay[a] # "none")
      /\ seen'.controls = seen.controls /\ seen'.trade = seen.trade /\ seen'.abilities = seen.abilities
      /\ seen'.wallet = seen.wallet /\ seen'.pool = seen.pool
    BY <1>1 DEF Findings
<1>3. HeldInv' /\ \A x : AdminType(x)' = AdminType(x)
    BY <1>1, ReadKeeps
<1>4. PoolTrue' /\ SignalsTrue'
    BY <1>1, <1>2, SignalsStay
<1>5. seen.contract /\ seen.admin = chain.admin /\ chain.admin # NoAddress
    BY AnalysisAssumption DEF AnalysisInv, AdminKnown, TruthInv, AdminTrue
<1>6. ProxyTrue' /\ OwnershipTrue'
    BY <1>1, <1>2, <1>3 DEF TruthInv, HeldInv, ProxyTrue, OwnershipTrue
<1>7. AdminTrue'
    BY <1>1, <1>2, <1>3, <1>5 DEF TruthInv, AdminTrue, AdminType
<1> QED
    BY <1>3, <1>4, <1>6, <1>7 DEF TruthInv

LEMMA ProbeAdminDelayTruly == ASSUME AnalysisInv, TruthInv, ProbeAdminDelay PROVE TruthInv'
<1>1. stage = "admin_delay" /\ UNCHANGED <<chain, held>> /\ seen.admin # NoAddress
    BY DEF ProbeAdminDelay, Awaits, AnalysisInv, AdminKnown
<1> QED
    BY <1>1, ProbeTruly DEF ProbeAdminDelay

LEMMA ProbeOwnerDelayTruly == ASSUME AnalysisInv, TruthInv, ProbeOwnerDelay PROVE TruthInv'
<1>1. stage = "owner_delay" /\ UNCHANGED <<chain, held>> /\ seen.owner # NoAddress
    BY DEF ProbeOwnerDelay, Awaits, AnalysisInv, AdminKnown
<1>2. AfterAdmin \in {"honeypot", "implementation"}
    BY DEF AfterAdmin
<1> QED
    BY <1>1, <1>2, ProbeTruly DEF ProbeOwnerDelay

LEMMA TraceOwnerTruly == ASSUME AnalysisInv, TruthInv, TraceOwner PROVE TruthInv'
<1> DEFINE owner == chain.owner[seen.admin]
<1>1. stage = "owner" /\ UNCHANGED <<chain, held>> /\ seen.contract /\ seen.admin # NoAddress
      /\ seen.admin = chain.admin /\ seen \in Findings
    BY DEF TraceOwner, Awaits, AnalysisInv, AdminKnown, TypeOK, TruthInv, AdminTrue
<1>2. CASE Raise
    BY <1>1, <1>2, RaiseTruly
<1>3. CASE /\ \/ seen' = seen
              \/ seen' = [seen EXCEPT !.owner = owner, !.ownerType = AdminType(owner)]
           /\ stage' \in {"owner_delay", "honeypot", "implementation"}
           /\ UNCHANGED <<ownership, fetched>> /\ failed \subseteq failed'
    <2>1. seen'.contract = seen.contract /\ seen'.implementation = seen.implementation
          /\ seen'.admin = seen.admin /\ seen'.adminType = seen.adminType
          /\ \/ seen'.owner = seen.owner /\ seen'.ownerType = seen.ownerType /\ seen'.delay = seen.delay
             \/ seen'.owner = owner /\ seen'.ownerType = AdminType(owner) /\ seen'.delay = seen.delay
          /\ seen'.controls = seen.controls /\ seen'.trade = seen.trade /\ seen'.abilities = seen.abilities
          /\ seen'.wallet = seen.wallet /\ seen'.pool = seen.pool
        BY <1>1, <1>3 DEF Findings
    <2>2. HeldInv' /\ \A x : AdminType(x)' = AdminType(x)
        BY <1>1, <1>3, ReadKeeps
    <2>3. PoolTrue' /\ SignalsTrue'
        BY <1>1, <1>3, <2>1, SignalsStay
    <2>4. ProxyTrue' /\ OwnershipTrue'
        BY <1>1, <1>3, <2>1, <2>2 DEF TruthInv, HeldInv, ProxyTrue, OwnershipTrue
    <2>5. seen.delay # "none" => chain.delay[chain.admin] # "none"
        <3>1. seen.owner = NoAddress
            BY <1>1 DEF TruthInv, AdminTrue
        <3> QED
            BY <3>1 DEF TruthInv, AdminTrue
    <2>6. AdminTrue'
        BY <1>1, <1>3, <2>1, <2>2, <2>5 DEF TruthInv, HeldInv, AdminTrue
    <2> QED
        BY <2>2, <2>3, <2>4, <2>6 DEF TruthInv
<1> QED
    BY <1>2, <1>3 DEF TraceOwner, Finds, Misses, AfterAdmin, context

LEMMA ReadImplementationTruly == ASSUME AnalysisInv, TruthInv, ReadImplementation PROVE TruthInv'
<1>1. /\ stage = "implementation" /\ stage' = "honeypot" /\ UNCHANGED <<chain, held, seen, ownership>>
      /\ failed \subseteq failed'
    BY DEF ReadImplementation, Awaits, Finds, Misses
<1>2. HeldInv' /\ \A x : AdminType(x)' = AdminType(x)
    BY <1>1, ReadKeeps
<1>3. PoolTrue' /\ SignalsTrue'
    BY <1>1, SignalsStay
<1>4. ProxyTrue' /\ OwnershipTrue' /\ AdminTrue'
    BY <1>1, <1>2 DEF TruthInv, HeldInv, ProxyTrue, OwnershipTrue, AdminTrue
<1> QED
    BY <1>2, <1>3, <1>4 DEF TruthInv

\* The logic contract's code, source and trade are the same at every moment, and at
\* some moment it was the logic contract.
LEMMA LogicHeld ==
    ASSUME AnalysisInv, TruthInv, seen.contract, stage \notin {"connect", "proxy", "failed"}
    PROVE  /\ Logic \in Addresses
           /\ \E w \in held : LogicOf(w) = Logic /\ Same(w, chain) /\ w \in ChainStates
                              /\ w.implementation = seen.implementation
BY AnalysisAssumption DEF TruthInv, ProxyTrue, HeldInv, Logic, LogicOf, AnalysisInv, TypeOK, Findings, MaybeAddress

\* Flags are raised by what the code, the source or the trade tells.
LEMMA FlagsAreTrue ==
    ASSUME AnalysisInv, TruthInv, seen.contract, stage \notin {"connect", "proxy", "failed"},
           NEW r \in Readings, NEW t \in {NotSimulated, chain.trade[Logic]}
    PROVE  HoneypotFlags(r, t) \subseteq Truth /\ SimulationEvidence([trade |-> t]) \subseteq Truth
<1>1. PICK w \in held : LogicOf(w) = Logic /\ Same(w, chain)
    BY LogicHeld
<1>2. /\ r.source => Logic \in chain.source
      /\ r.code \subseteq chain.code[Logic]
    BY DEF Readings
<1>3. Traits(r) \subseteq w.code[LogicOf(w)]
    BY <1>1, <1>2 DEF Traits, Same
<1>4. \A x \in Traits(r) : x # "blacklist_sell_blocking" => x \in Truth
    BY <1>3, JustifiedCode, JustifiedIsTrue
<1>5. SimulationEvidence([trade |-> t]) \subseteq Truth
    <2>1. CASE t = NotSimulated
        BY <2>1 DEF SimulationEvidence, NotSimulated
    <2>2. CASE t = chain.trade[Logic]
        BY <1>1, <2>2, JustifiedTrade, JustifiedIsTrue DEF Same
    <2> QED
        BY <2>1, <2>2
<1>6. t.simulated => t = chain.trade[Logic]
    BY DEF NotSimulated
<1>7. \/ "blacklist" \in Traits(r) /\ ("sell_restriction" \in Traits(r) \/ r.source)
      \/ t.simulated /\ "no" \in {t.sells, t.moves}
      => "blacklist_sell_blocking" \in Truth
    BY <1>1, <1>2, <1>3, <1>6, JustifiedTrade, JustifiedIsTrue DEF Same
<1>8. HighTax(t) => "transfer_tax_control" \in Truth
    BY <1>1, <1>6, JustifiedTrade, JustifiedIsTrue DEF Same, HighTax
<1> QED
    BY <1>4, <1>5, <1>7, <1>8 DEF HoneypotFlags, When

LEMMA HoneypotTruly == ASSUME AnalysisInv, TruthInv, Honeypot PROVE TruthInv'
<1>1. PICK r \in Readings, t \in {NotSimulated, chain.trade[Logic]} :
          Finds([seen EXCEPT !.controls = HoneypotFlags(r, t), !.trade = t], "governance")
    BY DEF Honeypot
<1> DEFINE flags == HoneypotFlags(r, t)
<1>2. stage = "honeypot" /\ UNCHANGED <<chain, held, context, failed>> /\ seen.contract /\ seen \in Findings
    BY DEF Honeypot, Awaits, AnalysisInv, TypeOK, AdminKnown
<1>3. flags \subseteq Truth /\ SimulationEvidence([trade |-> t]) \subseteq Truth
    BY <1>2, FlagsAreTrue
<1> HIDE DEF flags
<1>4. seen'.controls = flags /\ seen'.trade = t
      /\ seen'.contract = seen.contract /\ seen'.implementation = seen.implementation
      /\ seen'.admin = seen.admin /\ seen'.adminType = seen.adminType
      /\ seen'.owner = seen.owner /\ seen'.ownerType = seen.ownerType /\ seen'.delay = seen.delay
      /\ seen'.abilities = seen.abilities
      /\ seen'.wallet = seen.wallet /\ seen'.pool = seen.pool /\ stage' = "governance"
    BY <1>1, <1>2 DEF Finds, Findings, flags
<1>5. HeldInv' /\ Truth \subseteq Truth' /\ \A x : AdminType(x)' = AdminType(x)
    BY <1>2, ReadKeeps
<1>6. SimulationEvidence(seen') = SimulationEvidence([trade |-> t])
    BY <1>4 DEF SimulationEvidence
<1>7. PoolTrue' /\ SignalsTrue'
    BY <1>2, <1>3, <1>4, <1>5, <1>6 DEF TruthInv, PoolTrue, SignalsTrue
<1>8. ProxyTrue' /\ OwnershipTrue' /\ AdminTrue'
    BY <1>2, <1>4, <1>5 DEF TruthInv, HeldInv, ProxyTrue, OwnershipTrue, AdminTrue, context
<1> QED
    BY <1>5, <1>7, <1>8 DEF TruthInv

\* An owner asked of the logic contract is that of some moment at which it was the logic contract.
LEMMA GovernanceTruly == ASSUME AnalysisInv, TruthInv, Governance PROVE TruthInv'
<1>1. /\ stage = "governance" /\ stage' = "capability" /\ UNCHANGED <<chain, held, seen, fetched>>
      /\ failed \subseteq failed' /\ ownership' \in {NoAddress, chain.owner[Logic]}
      /\ seen.contract /\ Logic' = Logic
    BY DEF Governance, Awaits, Finds, Misses, AnalysisInv, AdminKnown, Logic
<1>2. HeldInv' /\ \A x : AdminType(x)' = AdminType(x)
    BY <1>1, ReadKeeps
<1>3. PoolTrue' /\ SignalsTrue'
    BY <1>1, SignalsStay
<1>4. \E w \in held : w.implementation = seen.implementation /\ w.owner[Logic] = chain.owner[Logic]
    <2>1. PICK w \in held : w.implementation = seen.implementation
        BY <1>1, LogicHeld
    <2>2. w.implementation = chain.implementation \/ w.owner = chain.owner
        BY DEF TruthInv, HeldInv
    <2> QED
        BY <2>1, <2>2 DEF TruthInv, HeldInv
<1>5. OwnershipTrue'
    BY <1>1, <1>4 DEF OwnershipTrue
<1>6. ProxyTrue' /\ AdminTrue'
    BY <1>1, <1>2 DEF TruthInv, HeldInv, ProxyTrue, AdminTrue
<1> QED
    BY <1>2, <1>3, <1>5, <1>6 DEF TruthInv

LEMMA CapabilityTruly == ASSUME AnalysisInv, TruthInv, Capability PROVE TruthInv'
<1>1. PICK r \in Readings : Finds([seen EXCEPT !.abilities = Traits(r) \cap Capabilities], "liquidity")
    BY DEF Capability
<1> DEFINE abilities == Traits(r) \cap Capabilities
<1>2. stage = "capability" /\ UNCHANGED <<chain, held, context, failed>> /\ seen.contract /\ seen \in Findings
    BY DEF Capability, Awaits, AnalysisInv, TypeOK, AdminKnown
<1>3. abilities \subseteq Truth
    <2>1. PICK w \in held : LogicOf(w) = Logic /\ Same(w, chain)
        BY <1>2, LogicHeld
    <2>2. Traits(r) \subseteq w.code[LogicOf(w)]
        BY <2>1 DEF Traits, Same, Readings
    <2> QED
        BY <2>2, JustifiedCode, JustifiedIsTrue DEF Capabilities
<1> HIDE DEF abilities
<1>4. seen'.abilities = abilities
      /\ seen'.contract = seen.contract /\ seen'.implementation = seen.implementation
      /\ seen'.admin = seen.admin /\ seen'.adminType = seen.adminType
      /\ seen'.owner = seen.owner /\ seen'.ownerType = seen.ownerType /\ seen'.delay = seen.delay
      /\ seen'.controls = seen.controls /\ seen'.trade = seen.trade
      /\ seen'.wallet = seen.wallet /\ seen'.pool = seen.pool /\ stage' = "liquidity"
    BY <1>1, <1>2 DEF Finds, Findings, abilities
<1>5. HeldInv' /\ Truth \subseteq Truth' /\ \A x : AdminType(x)' = AdminType(x)
    BY <1>2, ReadKeeps
<1>6. SimulationEvidence(seen') = SimulationEvidence(seen)
    BY <1>4 DEF SimulationEvidence
<1>7. PoolTrue' /\ SignalsTrue'
    BY <1>2, <1>3, <1>4, <1>5, <1>6 DEF TruthInv, PoolTrue, SignalsTrue
<1>8. ProxyTrue' /\ OwnershipTrue' /\ AdminTrue'
    BY <1>2, <1>4, <1>5 DEF TruthInv, HeldInv, ProxyTrue, OwnershipTrue, AdminTrue, context, Logic
<1> QED
    BY <1>5, <1>7, <1>8 DEF TruthInv

\* A market that is said to be missing is, or could not be read.
LEMMA LiquidityTruly == ASSUME AnalysisInv, TruthInv, Liquidity PROVE TruthInv'
<1>1. PICK answered \in SUBSET Dexes :
        LET pools == {chain.pools[d] : d \in answered} \ {NoPool}
        IN  /\ \E p \in IF pools = {} THEN {NoPool} ELSE {q \in pools : \A x \in pools : x.depth <= q.depth} :
                Finds([seen EXCEPT !.pool = p], "wallet")
            /\ IF answered = Dexes THEN UNCHANGED failed ELSE Misses("dex")
    BY DEF Liquidity
<1> DEFINE pools == {chain.pools[d] : d \in answered} \ {NoPool}
<1>2. PICK p \in IF pools = {} THEN {NoPool} ELSE pools : Finds([seen EXCEPT !.pool = p], "wallet")
    BY <1>1
<1>3. /\ stage = "liquidity" /\ UNCHANGED <<chain, held, context>> /\ seen.contract /\ seen \in Findings
      /\ failed \subseteq failed' /\ (answered # Dexes => "dex" \in failed')
    BY <1>1 DEF Liquidity, Awaits, AnalysisInv, TypeOK, AdminKnown, Misses
<1>4. p # NoPool => \E d \in Dexes : chain.pools[d] = p
    BY <1>2
<1>5. LiquidityEvidence(p) \subseteq Truth'
    <2>1. chain \in held /\ chain' = chain /\ held' = held
        BY <1>3 DEF TruthInv, HeldInv
    <2>2. \A x \in Justified(chain) : x \in Truth'
        BY <2>1 DEF Truth
    <2>3. CASE p # NoPool
        BY <1>4, <2>2, <2>3, JustifiedPool DEF PoolsOf
    <2>4. CASE p = NoPool /\ answered = Dexes
        <3>1. PoolsOf(chain) = {}
            BY <1>2, <2>4 DEF PoolsOf
        <3> QED
            BY <2>2, <2>4, <3>1, JustifiedPool
    <2>5. CASE p = NoPool /\ answered # Dexes
        BY <1>3, <2>5 DEF LiquidityEvidence, Truth, Invented, When
    <2> QED
        BY <2>3, <2>4, <2>5
<1>6. seen'.pool = p
      /\ seen'.contract = seen.contract /\ seen'.implementation = seen.implementation
      /\ seen'.admin = seen.admin /\ seen'.adminType = seen.adminType
      /\ seen'.owner = seen.owner /\ seen'.ownerType = seen.ownerType /\ seen'.delay = seen.delay
      /\ seen'.controls = seen.controls /\ seen'.trade = seen.trade
      /\ seen'.wallet = seen.wallet /\ seen'.abilities = seen.abilities /\ stage' = "wallet"
    BY <1>2, <1>3 DEF Finds, Findings
<1>7. HeldInv' /\ Truth \subseteq Truth' /\ \A x : AdminType(x)' = AdminType(x)
    BY <1>3, ReadKeeps
<1>8. SimulationEvidence(seen') = SimulationEvidence(seen)
    BY <1>6 DEF SimulationEvidence
<1>9. PoolTrue' /\ SignalsTrue'
    BY <1>3, <1>4, <1>5, <1>6, <1>7, <1>8 DEF TruthInv, PoolTrue, SignalsTrue
<1>10. ProxyTrue' /\ OwnershipTrue' /\ AdminTrue'
    BY <1>3, <1>6, <1>7 DEF TruthInv, HeldInv, ProxyTrue, OwnershipTrue, AdminTrue, context, Logic
<1> QED
    BY <1>7, <1>9, <1>10 DEF TruthInv

\* Who the owner is said to be was the owner at some moment.
LEMMA OwnerIsTrue ==
    ASSUME AnalysisInv, TruthInv
    PROVE  LET owner == FirstOf(ownership, seen.owner) IN
           owner # NoAddress =>
               \E w \in held : Same(w, chain) /\ owner \in {w.owner[LogicOf(w)], UpgraderOf(w)}
<1>1. CASE ownership # NoAddress
    <2>1. PICK w \in held : w.implementation = seen.implementation /\ w.owner[Logic] = ownership
        BY <1>1 DEF TruthInv, OwnershipTrue
    <2>2. LogicOf(w) = Logic /\ Same(w, chain)
        BY <2>1 DEF LogicOf, Logic, TruthInv, HeldInv
    <2> QED
        BY <1>1, <2>1, <2>2 DEF FirstOf
<1>2. CASE ownership = NoAddress /\ seen.owner # NoAddress
    <2>1. PICK w \in held : w.owner[chain.admin] = seen.owner
        BY <1>2 DEF TruthInv, AdminTrue
    <2>2. Same(w, chain) /\ UpgraderOf(w) = seen.owner
        BY <1>2, <2>1 DEF Same, UpgraderOf, TruthInv, HeldInv, AdminTrue
    <2> QED
        BY <1>2, <2>1, <2>2 DEF FirstOf
<1> QED
    BY <1>1, <1>2 DEF FirstOf

\* A chief of any moment has the type found.
LEMMA ChiefIsTrue ==
    ASSUME AnalysisInv, TruthInv, seen.contract, stage \notin {"connect", "proxy", "admin", "failed"}
    PROVE  /\ seen.admin # NoAddress =>
                \E w \in held : Same(w, chain) /\ seen.admin \in {w.admin, UpgraderOf(w)} \ {NoAddress}
                                /\ w.kind[seen.admin] = seen.adminType
           /\ seen.owner # NoAddress =>
                \E w \in held : Same(w, chain) /\ seen.owner \in {w.admin, UpgraderOf(w)} \ {NoAddress}
                                /\ w.kind[seen.owner] = seen.ownerType
<1>1. ASSUME seen.admin # NoAddress
      PROVE  \E w \in held : Same(w, chain) /\ seen.admin \in {w.admin, UpgraderOf(w)} \ {NoAddress}
                             /\ w.kind[seen.admin] = seen.adminType
    BY <1>1 DEF TruthInv, HeldInv, AdminTrue, AdminType, Same
<1>2. ASSUME seen.owner # NoAddress
      PROVE  \E w \in held : Same(w, chain) /\ seen.owner \in {w.admin, UpgraderOf(w)} \ {NoAddress}
                             /\ w.kind[seen.owner] = seen.ownerType
    <2>1. PICK w \in held : w.owner[chain.admin] = seen.owner
        BY <1>2 DEF TruthInv, AdminTrue
    <2>2. Same(w, chain) /\ UpgraderOf(w) = seen.owner
        BY <1>2, <2>1 DEF Same, UpgraderOf, TruthInv, HeldInv, AdminTrue
    <2>3. w.kind[seen.owner] = seen.ownerType
        BY <1>2, <2>2 DEF Same, TruthInv, AdminTrue, AdminType
    <2> QED
        BY <1>2, <2>1, <2>2, <2>3
<1> QED
    BY <1>1, <1>2

LEMMA WalletIsTrue ==
    ASSUME AnalysisInv, TruthInv, stage = "wallet", seen.contract, UNCHANGED <<chain, held>>, failed \subseteq failed',
           NEW creator \in {chain.creator, NoAddress}, NEW known \in BOOLEAN,
           creator # NoAddress /\ ~known => "history" \in failed'
    PROVE  WalletSignals(creator, known) \subseteq Truth'
<1> DEFINE owner == FirstOf(ownership, seen.owner)
           holder == IF seen.pool = NoPool THEN NoAddress ELSE seen.pool.holder
           subject == FirstOf(creator, FirstOf(owner, Target))
<1>1. Truth \subseteq Truth' /\ \A w \in held : Justified(w) \subseteq Truth'
    BY TruthGrows, JustifiedIsTrue
<1>2. chain \in held /\ Same(chain, chain) /\ chain \in ChainStates
    BY DEF TruthInv, HeldInv, Same
<1>3. holder # NoAddress => \E p \in PoolsOf(chain) : p.holder = holder
    BY DEF PoolsOf, TruthInv, PoolTrue
<1>4. owner # NoAddress => \E w \in held : Same(w, chain) /\ owner \in {w.owner[LogicOf(w)], UpgraderOf(w)}
    BY OwnerIsTrue
<1> HIDE DEF owner, holder
<1>5. creator # NoAddress /\ creator \in {owner, holder} => "creator_owns_majority" \in Truth'
    <2>1. CASE creator # NoAddress /\ creator = owner
        <3>1. PICK w \in held : Same(w, chain) /\ owner \in {w.owner[LogicOf(w)], UpgraderOf(w)}
            BY <1>4, <2>1
        <3>2. w.creator = creator
            BY <2>1, <3>1 DEF Same
        <3>3. w.creator # NoAddress
              /\ w.creator \in {w.owner[LogicOf(w)], UpgraderOf(w)} \cup {p.holder : p \in PoolsOf(w)}
            BY <2>1, <3>1, <3>2
        <3> QED
            BY <1>1, <3>1, <3>3, JustifiedWallet
    <2>2. CASE creator # NoAddress /\ creator = holder
        <3>1. chain.creator # NoAddress
              /\ chain.creator \in {chain.owner[LogicOf(chain)], UpgraderOf(chain)} \cup {p.holder : p \in PoolsOf(chain)}
            BY <1>3, <2>2
        <3> QED
            BY <1>1, <1>2, <3>1, JustifiedWallet
    <2> QED
        BY <2>1, <2>2
<1>6. creator # NoAddress /\ creator = holder => "lp_owner_is_creator" \in Truth'
    <2>1. creator # NoAddress /\ creator = holder =>
              chain.creator # NoAddress /\ \E p \in PoolsOf(chain) : p.holder = chain.creator
        BY <1>3
    <2> QED
        BY <1>1, <1>2, <2>1, JustifiedWallet
<1>7. Funding(creator, known) \subseteq Truth'
    <2>1. creator # NoAddress /\ ~known => "fresh_deployer" \in Truth'
        BY DEF Truth, Invented, When
    <2>2. /\ "fresh" \in chain.deployer => "fresh_deployer" \in Truth'
          /\ "exchange" \in chain.deployer => "exchange_funded_deployer" \in Truth'
          /\ "tornado" \in chain.deployer => "tornado_funded_deployer" \in Truth'
        BY <1>1, <1>2, JustifiedWallet
    <2> QED
        BY <2>1, <2>2 DEF Funding, When
<1>8. "multisig" \in {seen.adminType, seen.ownerType} => "treasury_multisig" \in Truth'
    <2>1. CASE seen.adminType = "multisig"
        <3>1. seen.admin # NoAddress
            BY <2>1 DEF AnalysisInv, AdminKnown
        <3>2. PICK w \in held : seen.admin \in {w.admin, UpgraderOf(w)} \ {NoAddress}
                                /\ w.kind[seen.admin] = "multisig"
            BY <2>1, <3>1, ChiefIsTrue
        <3> QED
            BY <1>1, <3>2, JustifiedAdmin
    <2>2. CASE seen.ownerType = "multisig"
        <3>1. seen.owner # NoAddress
            BY <2>2 DEF TruthInv, AdminTrue, AdminType
        <3>2. PICK w \in held : seen.owner \in {w.admin, UpgraderOf(w)} \ {NoAddress}
                                /\ w.kind[seen.owner] = "multisig"
            BY <2>2, <3>1, ChiefIsTrue
        <3> QED
            BY <1>1, <3>2, JustifiedAdmin
    <2> QED
        BY <2>1, <2>2
<1>9. subject \in chain.listed => "wallet_known_scam" \in Truth'
    <2>1. CASE creator # NoAddress
        BY <1>1, <1>2, <2>1, JustifiedWallet DEF FirstOf
    <2>2. CASE creator = NoAddress /\ owner # NoAddress
        <3>1. PICK w \in held : Same(w, chain) /\ owner \in {w.owner[LogicOf(w)], UpgraderOf(w)}
            BY <1>4, <2>2
        <3>2. subject = owner /\ w.listed = chain.listed
            BY <2>2, <3>1 DEF FirstOf, Same
        <3> QED
            BY <1>1, <3>1, <3>2, JustifiedWallet
    <2>3. CASE creator = NoAddress /\ owner = NoAddress
        BY <1>1, <1>2, <2>3, JustifiedWallet DEF FirstOf
    <2> QED
        BY <2>1, <2>2, <2>3
<1> HIDE DEF subject
<1>10. WalletSignals(creator, known) =
          Holdings(creator, owner, holder) \cup Funding(creator, known)
          \cup When("multisig" \in {seen.adminType, seen.ownerType}, "treasury_multisig")
          \cup When(subject \in chain.listed, "wallet_known_scam")
    BY DEF WalletSignals, owner, holder, subject
<1> QED
    BY <1>5, <1>6, <1>7, <1>8, <1>9, <1>10 DEF Holdings, When

LEMMA WalletTruly == ASSUME AnalysisInv, TruthInv, Wallet PROVE TruthInv'
<1>1. stage = "wallet" /\ UNCHANGED <<chain, held, context>> /\ seen.contract /\ seen \in Findings
    BY DEF Wallet, Awaits, AnalysisInv, TypeOK, AdminKnown
<1>2. PICK signals : /\ seen' = [seen EXCEPT !.wallet = signals] /\ stage' = "assess"
                     /\ failed \subseteq failed' /\ signals \subseteq Truth'
    <2>1. CASE Finds(seen, "assess") /\ Misses("wallet")
        <3>1. failed \subseteq failed' /\ seen' = [seen EXCEPT !.wallet = seen.wallet] /\ stage' = "assess"
            BY <1>1, <2>1 DEF Misses, Finds, Findings
        <3>2. seen.wallet \subseteq Truth'
            BY <1>1, <3>1, ReadKeeps DEF TruthInv, SignalsTrue
        <3> QED
            BY <3>1, <3>2
    <2>2. ASSUME NEW found \in BOOLEAN, NEW known \in BOOLEAN,
                 Finds([seen EXCEPT !.wallet =
                            WalletSignals(IF found THEN chain.creator ELSE NoAddress, known)], "assess"),
                 failed' = failed \cup When(~found, "creation") \cup When(found /\ ~known, "history")
          PROVE  \E signals : /\ seen' = [seen EXCEPT !.wallet = signals] /\ stage' = "assess"
                              /\ failed \subseteq failed' /\ signals \subseteq Truth'
        <3> DEFINE creator == IF found THEN chain.creator ELSE NoAddress
        <3>1. failed \subseteq failed' /\ (creator # NoAddress /\ ~known => "history" \in failed')
            BY <2>2 DEF When
        <3>2. creator \in {chain.creator, NoAddress}
            OBVIOUS
        <3>3. seen' = [seen EXCEPT !.wallet = WalletSignals(creator, known)] /\ stage' = "assess"
            BY <2>2 DEF Finds
        <3> HIDE DEF creator
        <3>4. WalletSignals(creator, known) \subseteq Truth'
            BY <1>1, <3>1, <3>2, WalletIsTrue
        <3> QED
            BY <3>1, <3>3, <3>4
    <2> QED
        BY <2>1, <2>2 DEF Wallet
<1>3. seen'.wallet = signals
      /\ seen'.contract = seen.contract /\ seen'.implementation = seen.implementation
      /\ seen'.admin = seen.admin /\ seen'.adminType = seen.adminType
      /\ seen'.owner = seen.owner /\ seen'.ownerType = seen.ownerType /\ seen'.delay = seen.delay
      /\ seen'.controls = seen.controls /\ seen'.trade = seen.trade
      /\ seen'.pool = seen.pool /\ seen'.abilities = seen.abilities
    BY <1>1, <1>2 DEF Findings
<1>4. HeldInv' /\ Truth \subseteq Truth' /\ \A x : AdminType(x)' = AdminType(x)
    BY <1>1, <1>2, ReadKeeps
<1>5. SimulationEvidence(seen') = SimulationEvidence(seen)
    BY <1>3 DEF SimulationEvidence
<1>6. PoolTrue' /\ SignalsTrue'
    BY <1>1, <1>2, <1>3, <1>4, <1>5 DEF TruthInv, PoolTrue, SignalsTrue
<1>7. ProxyTrue' /\ OwnershipTrue' /\ AdminTrue'
    BY <1>1, <1>2, <1>3, <1>4 DEF TruthInv, HeldInv, ProxyTrue, OwnershipTrue, AdminTrue, context, Logic
<1> QED
    BY <1>4, <1>6, <1>7 DEF TruthInv

LEMMA AssessTruly == ASSUME AnalysisInv, TruthInv, Assess PROVE TruthInv'
<1>1. stage = "assess" /\ stage' = "done" /\ UNCHANGED <<chain, held, seen, context, failed>>
    BY DEF Assess, Awaits
<1>2. HeldInv' /\ Truth \subseteq Truth' /\ \A x : AdminType(x)' = AdminType(x)
    BY <1>1, ReadKeeps
<1>3. PoolTrue' /\ SignalsTrue'
    <2>1. seen.contract => LiquidityEvidence(seen.pool) \subseteq Truth
        BY <1>1 DEF TruthInv, PoolTrue
    <2> QED
        BY <1>1, <1>2, <2>1 DEF TruthInv, PoolTrue, SignalsTrue
<1>4. ProxyTrue' /\ OwnershipTrue' /\ AdminTrue'
    BY <1>1, <1>2 DEF TruthInv, HeldInv, ProxyTrue, OwnershipTrue, AdminTrue, context, Logic
<1> QED
    BY <1>2, <1>3, <1>4 DEF TruthInv

LEMMA InitTruly == Init => TruthInv
<1> SUFFICES ASSUME Init PROVE TruthInv
    OBVIOUS
<1>1. chain \in ChainStates /\ held = {chain} /\ seen = Unseen /\ stage = "connect" /\ ownership = NoAddress
    BY AnalysisAssumption DEF Init
<1>2. HeldInv
    BY <1>1 DEF HeldInv, Same
<1>3. ProxyTrue /\ OwnershipTrue /\ AdminTrue
    BY <1>1 DEF ProxyTrue, OwnershipTrue, AdminTrue, Unseen, AdminType
<1>4. PoolTrue /\ SignalsTrue
    BY <1>1 DEF PoolTrue, SignalsTrue, Unseen, SimulationEvidence, NotSimulated
<1> QED
    BY <1>2, <1>3, <1>4 DEF TruthInv

\* The findings say at every stage only what was true at some moment, or what a failed
\* read made them say.
THEOREM FindingsAreTrue == Spec => []TruthInv
<1>1. AnalysisInv /\ TruthInv /\ [Next]_vars => TruthInv'
    <2> SUFFICES ASSUME AnalysisInv, TruthInv, [Next]_vars PROVE TruthInv'
        OBVIOUS
    <2>1. ASSUME NEW a \in Addresses, Upgrade(a) \/ ChangeHands(a) PROVE TruthInv'
        BY <2>1, ChainMovesTruly
    <2>2. CASE UNCHANGED vars
        <3>1. UNCHANGED <<chain, held, stage, seen, ownership, fetched, failed>>
            BY <2>2 DEF vars, context
        <3>2. HeldInv' /\ Truth \subseteq Truth' /\ \A x : AdminType(x)' = AdminType(x)
            BY <3>1, ReadKeeps
        <3>3. PoolTrue' /\ SignalsTrue'
            BY <3>1, <3>2 DEF TruthInv, PoolTrue, SignalsTrue
        <3>4. ProxyTrue' /\ OwnershipTrue' /\ AdminTrue'
            BY <3>1, <3>2 DEF TruthInv, HeldInv, ProxyTrue, OwnershipTrue, AdminTrue, Logic
        <3> QED
            BY <3>2, <3>3, <3>4 DEF TruthInv
    <2> QED
        BY <2>1, <2>2, ConnectTruly, ReadProxyTruly, ReadAdminTruly, ProbeAdminDelayTruly, TraceOwnerTruly,
           ProbeOwnerDelayTruly, ReadImplementationTruly, HoneypotTruly, GovernanceTruly, CapabilityTruly,
           LiquidityTruly, WalletTruly, AssessTruly DEF Next
<1> QED
    BY InitTruly, AnalysisInvariant, <1>1, PTL DEF Spec

\* Every signal of an assessment was true of the chain at some moment of the scan, for
\* any chain and whatever reads fail, but for a market or a history that could not be read
\* and for an empty answer to getMinDelay(), which passes for a timelock
\* (risk/evidence_builder.py over contract_analyzer.py:236-417, timelock_analyzer.py:24-45).
THEOREM EvidenceStaysTrue == Spec => []EvidenceIsTrue
<1>1. AnalysisInv /\ TruthInv => EvidenceIsTrue
    <2> SUFFICES ASSUME AnalysisInv, TruthInv, NEW a \in assessment PROVE a.evidence \subseteq Truth
        BY DEF EvidenceIsTrue, Truth
    <2>1. stage = "done" /\ a.evidence = Evidence(seen)
        BY Assessed DEF Assessment
    <2>2. CASE ~seen.contract
        <3>1. chain.kind[Target] = "eoa" /\ chain \in held
            BY <2>1, <2>2 DEF TruthInv, ProxyTrue, HeldInv
        <3> QED
            BY <2>1, <2>2, <3>1, JustifiedProxy, JustifiedIsTrue DEF Evidence
    <2>3. CASE seen.contract
        <3>1. ProxyEvidence(seen) \subseteq Truth
            <4>1. seen.implementation # NoAddress => {"upgradeable", "implementation_exposed"} \subseteq Truth
                <5>1. PICK w \in held : w.implementation = seen.implementation
                    BY <2>1, <2>3 DEF TruthInv, ProxyTrue
                <5> QED
                    BY <5>1, JustifiedProxy, JustifiedIsTrue
            <4>2. seen.admin = NoAddress => "unknown_admin" \in Truth
                <5>1. chain \in held /\ seen.admin = chain.admin
                    BY <2>1, <2>3 DEF TruthInv, HeldInv, AdminTrue
                <5> QED
                    BY <5>1, JustifiedProxy, JustifiedIsTrue
            <4> QED
                BY <4>1, <4>2 DEF ProxyEvidence, When
        <3>2. AdminEvidence(seen) \subseteq Truth
            <4>1. CASE seen.admin = NoAddress
                BY <4>1 DEF AdminEvidence
            <4>2. CASE seen.admin # NoAddress /\ seen.delay # "none"
                <5>1. PICK x \in {chain.admin, seen.owner} \ {NoAddress} : chain.delay[x] # "none"
                    BY <4>2 DEF TruthInv, AdminTrue
                <5>2. \E w \in held : Same(w, chain) /\ x \in {w.admin, UpgraderOf(w)} \ {NoAddress}
                    BY <2>1, <2>3, <4>2, <5>1, ChiefIsTrue DEF TruthInv, AdminTrue
                <5>3. PICK w \in held : w.delay[x] # "none" /\ x \in {w.admin, UpgraderOf(w)} \ {NoAddress}
                    BY <5>1, <5>2 DEF Same
                <5>4. w.delay[x] \in {"none", "empty", "delay"}
                    BY <5>3 DEF AnalysisInv, TypeOK, TruthInv, HeldInv, Same, ChainStates, MaybeAddress, UpgraderOf
                <5>5. "admin_timelock" \in Truth
                    BY <5>3, <5>4, JustifiedAdmin, JustifiedIsTrue
                <5> QED
                    BY <4>2, <5>5 DEF AdminEvidence
            <4>3. CASE seen.admin # NoAddress /\ seen.delay = "none"
                <5> DEFINE type == IF seen.ownerType # "none" THEN seen.ownerType ELSE seen.adminType
                <5>1. \E x, w : /\ w \in held /\ x \in {w.admin, UpgraderOf(w)} \ {NoAddress}
                                /\ w.kind[x] = type
                    <6>1. CASE seen.ownerType # "none"
                        <7>1. seen.owner # NoAddress
                            BY <6>1 DEF TruthInv, AdminTrue, AdminType
                        <7> QED
                            BY <2>1, <2>3, <6>1, <7>1, ChiefIsTrue
                    <6>2. CASE seen.ownerType = "none"
                        BY <2>1, <2>3, <4>3, <6>2, ChiefIsTrue
                    <6> QED
                        BY <6>1, <6>2
                <5>2. type \in {"eoa", "multisig", "contract"}
                    BY <4>3 DEF AnalysisInv, TypeOK, Findings, AdminTypes, AdminKnown
                <5> HIDE DEF type
                <5>3. /\ type = "eoa" => "admin_eoa" \in Truth
                      /\ type = "multisig" => "admin_multisig" \in Truth
                      /\ type = "contract" => "admin_contract" \in Truth
                    <6>1. PICK x, w : /\ w \in held /\ x \in {w.admin, UpgraderOf(w)} \ {NoAddress}
                                      /\ w.kind[x] = type
                        BY <5>1
                    <6> QED
                        BY <6>1, JustifiedAdmin, JustifiedIsTrue
                <5> QED
                    BY <4>3, <5>2, <5>3 DEF AdminEvidence, type
            <4> QED
                BY <4>1, <4>2, <4>3
        <3>3. seen.abilities \subseteq Truth /\ HoneypotEvidence(seen) \subseteq Truth
              /\ SimulationEvidence(seen) \subseteq Truth /\ seen.wallet \subseteq Truth
            BY DEF TruthInv, SignalsTrue, HoneypotEvidence
        <3>4. LiquidityEvidence(seen.pool) \subseteq Truth
            BY <2>1, <2>3 DEF TruthInv, PoolTrue
        <3> QED
            BY <2>1, <2>3, <3>1, <3>2, <3>3, <3>4 DEF Evidence
    <2> QED
        BY <2>2, <2>3
<1> QED
    BY AnalysisInvariant, FindingsAreTrue, <1>1, PTL
=============================================================================
