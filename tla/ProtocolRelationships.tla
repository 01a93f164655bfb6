----------------------- MODULE ProtocolRelationships -----------------------
(***************************************************************************)
(* ProtocolRelationshipAnalyzer: from the findings about a contract f and  *)
(* the protocols found in it d, how it relates to protocols, governance,   *)
(* wallets, pools and capabilities, as a list of relationships, each known *)
(* by a label, and a graph whose nodes are known by an id.                 *)
(*                                                                         *)
(* A candidate has a target <<kind, value>>, a label, a type, a confidence *)
(* and a rank, its place in the list.  Its source is always the contract.  *)
(* No analyzer finds a treasury, so its candidates are left out.           *)
(*                                                                         *)
(* An operator named F_xxx is F with a bug, a mutant.                      *)
(***************************************************************************)
EXTENDS ContractRisk, ProtocolDetection

Upgradeable(f) == f.implementation # NoAddress
Timelocked(f) == f.delay # "none"
Confirmed(f) == f.trade.simulated /\ f.trade.sells = "no"
Suspected(f) == f.suspected \/ Confirmed(f)
Or(a, b) == IF a # NoAddress THEN a ELSE b

\* build_relationship_context_from_scan hands the findings over; the owner is the one
\* the wallet analyzer has, or else that of the admin.
WalletOwner(f) == Or(f.governed, f.owner)

\* _resolve_governance_type
GovernanceType(f) ==
    FirstThat(
        <<<<"multisig", {"getOwners", "getThreshold"} \subseteq f.code>>, <<"timelock", Timelocked(f)>>,
          <<"access_control", f.roles # {}>>,
          <<"proxy_admin", Upgradeable(f) /\ f.admin # NoAddress /\ f.adminType = "contract">>,
          <<"ownable2step", "pendingOwner" \in f.code>>,
          <<"ownable", "ownership" \in f.abilities \/ "owner" \in f.code>>,
          <<"unknown", Upgradeable(f) \/ f.admin # NoAddress>>>>,
        "none")
IsKnown(kind) == kind \notin {"none", "unknown"}

\* The role that guards a capability, and CapabilityIntelligence._resolve_controller:
\* whatever is enabled has a controller, if only the name of a role or "unknown".
RoleOf ==
    [mint |-> "MINTER_ROLE", pause |-> "PAUSER_ROLE", blacklist |-> "none", ownership |-> "DEFAULT_ADMIN_ROLE"]
Controller(f, capability) ==
    FirstThat(
        <<<<RoleOf[capability], RoleOf[capability] \in f.roles>>, <<f.governed, f.governed # NoAddress>>,
          <<f.owner, f.owner # NoAddress>>, <<f.admin, f.admin # NoAddress>>>>,
        "unknown")
CapabilityRank == [mint |-> 1, pause |-> 2, blacklist |-> 3, ownership |-> 4]

------------------------------------------------------------------------------
(* build_relationship_candidates: groups a thousand ranks apart *)

Candidate(rank, target, label, type, confidence) ==
    [rank |-> rank, target |-> target, label |-> label, type |-> type, confidence |-> confidence]
If(condition, candidate) == IF condition THEN {candidate} ELSE {}

CategoryType ==
    [dex |-> "TRADES_ON", lending |-> "INTEGRATES", oracle |-> "PRICES_WITH", bridge |-> "BRIDGES_WITH",
     vault |-> "USES", governance |-> "GOVERNED_BY", nft |-> "INTEGRATES"]
CategoryRank ==
    [dex |-> 0, lending |-> 1000, oracle |-> 2000, bridge |-> 3000, vault |-> 4000, governance |-> 5000, nft |-> 7000]
ItemLabel(i) == IF i.role = "" THEN <<i.name>> ELSE <<i.name, i.role>>
\* the roles of a protocol are one node, the marketplaces of a standard are several
ItemNode(c, i) ==
    CASE c = "nft" -> <<"nft", i.name, i.role>>
      [] c = "governance" -> <<"governance_protocol", i.name>>
      [] OTHER -> <<c, i.name>>

\* _protocol_integration_candidates: the most certain first
IntegrationCandidates(d) ==
    {Candidate(CategoryRank[p[1]] + 100 - p[2].confidence, ItemNode(p[1], p[2]), ItemLabel(p[2]),
               CategoryType[p[1]], p[2].confidence) :
        p \in UNION {{<<c, i>> : i \in d[c]} : c \in DOMAIN CategoryType}}
    \cup {Candidate(6000, <<"integration", i>>, <<i>>, "INTEGRATES", 75) : i \in d.integrations}

\* _governance_candidates
GovernanceCandidates(f) ==
    LET authority == UpgradeAuthority(f)
        kind == GovernanceType(f)
    IN  If(f.governed # NoAddress /\ ~f.renounced,
           Candidate(8000, <<"wallet", f.governed>>, <<"Governance_Owner">>, "OWNED_BY", 88))
        \cup If(Timelocked(f),
                Candidate(8001, <<"governance", "timelock">>, <<"Timelock_Controller">>, "GOVERNED_BY", 85))
        \cup If(IsKnown(authority),
                Candidate(8002, <<"governance", authority>>, <<"Upgrade_Authority", authority>>, "UPGRADEABLE_BY", 82))
        \cup If(IsKnown(kind),
                Candidate(8003, <<"governance", kind>>, <<"Governance", kind>>, "GOVERNED_BY", 80))

\* _wallet_candidates: the deployer is the creator.
WalletCandidates(f) ==
    LET link(rank, address, label, type) ==
            If(address # NoAddress, Candidate(rank, <<"wallet", address>>, <<label>>, type, 86))
    IN  link(9000, f.creator, "Deployer", "CREATED_BY") \cup link(9001, f.creator, "Creator", "CREATED_BY")
        \cup link(9002, WalletOwner(f), "Owner", "OWNED_BY") \cup link(9003, f.admin, "Proxy_Admin", "UPGRADEABLE_BY")

\* _liquidity_candidates, _proxy_candidates, _capability_candidates and
\* _source_candidates
LiquidityCandidates(f) ==
    IF f.pool = NoPool THEN {}
    ELSE {Candidate(10000, <<"dex", f.pool.dex>>, <<f.pool.dex>>, "TRADES_ON", 84),
          Candidate(10001, <<"liquidity", "pair">>, <<"Primary_Liquidity_Pool">>, "DEPENDS_ON", 83)}
ProxyCandidates(f) ==
    If(Upgradeable(f),
       Candidate(11000, <<"implementation", f.implementation>>, <<"Implementation">>, "DEPENDS_ON", 90))
    \cup If(Upgradeable(f) /\ f.admin # NoAddress,
            Candidate(11001, <<"wallet", f.admin>>, <<"Proxy_Admin">>, "UPGRADEABLE_BY", 87))
CapabilityCandidates(f) ==
    {Candidate(12000 + CapabilityRank[c], <<"wallet", Controller(f, c)>>, <<c, "Controller">>, "GOVERNED_BY", 78) :
        c \in f.abilities}
SourceCandidates(f) ==
    If(Suspected(f), Candidate(13000, <<"risk", "honeypot_controls">>, <<"Honeypot_Controls">>, "SECURED_BY", 70))

Candidates(f, d) ==
    IntegrationCandidates(d) \cup GovernanceCandidates(f) \cup WalletCandidates(f) \cup LiquidityCandidates(f)
    \cup ProxyCandidates(f) \cup CapabilityCandidates(f) \cup SourceCandidates(f)

------------------------------------------------------------------------------
(* The relationships and the graph *)

\* The most certain of those that agree in what key says, the first of equals
Foremost(candidates, key(_)) ==
    {c \in candidates : \A o \in candidates :
        key(o) = key(c) => (o.confidence < c.confidence \/ (o.confidence = c.confidence /\ o.rank >= c.rank))}

\* normalize_relationships without the type in its key
F_Normalize(candidates) == Foremost(candidates, LAMBDA c : c.target)

\* normalize_relationships, by target and type
Normalize(candidates) == Foremost(candidates, LAMBDA c : <<c.target, c.type>>)

\* merge_duplicate_wallet_relationships, by label and type
Relationships(candidates) == Foremost(Normalize(candidates), LAMBDA c : <<c.label, c.type>>)

Contract == <<"contract">>

\* build_architecture_graph: a node keeps the label it was first met under, an edge
\* finds its node by the label of its relationship, and else ends at the contract.
NodeLabels(candidates) ==
    [n \in {c.target : c \in candidates} |->
        (CHOOSE c \in candidates : c.target = n /\ \A o \in candidates : o.target = n => c.rank <= o.rank).label]
EdgeEnd(labels, label) ==
    LET known == {n \in DOMAIN labels : labels[n] = label}
    IN  IF known = {} THEN Contract ELSE CHOOSE n \in known : TRUE

Architecture(f, d) ==
    LET candidates == Candidates(f, d)
        labels == NodeLabels(candidates)
        relationships == Relationships(candidates)
    IN  [candidates |-> candidates, labels |-> labels, relationships |-> relationships,
         edges |-> {[relationship |-> r, end |-> EdgeEnd(labels, r.label)] : r \in relationships}]
=============================================================================
