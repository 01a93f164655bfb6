---------------------------- MODULE ThreatSurface ----------------------------
(***************************************************************************)
(* ThreatSurfaceAnalyzer: from the findings about a contract f, the        *)
(* protocols found in it d and its relationships, on what it depends, the  *)
(* boundaries of trust around it, who has privileges over it, what is at   *)
(* stake and the paths of an attack.  Each list holds one entry to a key,  *)
(* the most certain.  How certain, and the graph drawn of it, are left out *)
(* but for the paths.                                                      *)
(*                                                                         *)
(* An operator named F_xxx is F with a bug, a mutant.                      *)
(***************************************************************************)
EXTENDS ProtocolRelationships

IsProxy(f, d) == Upgradeable(f) \/ IsKnown(d.proxy)
ProxyName(d) == IF IsKnown(d.proxy) THEN d.proxy ELSE "upgradeable_proxy"
Names(items) == {i.name : i \in items}

\* analyze_external_dependencies: <<category, name>>, whatever the role
Dependencies(f, d) ==
    (UNION {{<<c, n>> : n \in Names(d[c])} : c \in {"bridge", "oracle", "dex", "vault", "governance", "lending"}})
    \cup (IF IsProxy(f, d) THEN {<<"proxy", ProxyName(d)>>} ELSE {})
    \cup (IF f.pool # NoPool THEN {<<"dex", f.pool.dex>>} ELSE {})
    \cup (IF IsKnown(GovernanceType(f)) THEN {<<"governance", GovernanceType(f)>>} ELSE {})

\* detect_trust_boundaries: <<kind, label>>
TrustBoundaries(f, d) ==
    {<<"ORACLE", i.name>> : i \in d.oracle} \cup {<<"BRIDGE", i.name, i.role>> : i \in d.bridge}
    \cup {<<"VAULT", i.name>> : i \in d.vault} \cup {<<"ROUTER", i.name, i.role>> : i \in d.dex}
    \cup (IF f.pool # NoPool THEN {<<"ROUTER", f.pool.dex>>} ELSE {})
    \cup {<<"GOVERNOR", i.name>> : i \in d.governance}
    \cup (IF Timelocked(f) THEN {<<"TIMELOCK">>} ELSE {})
    \cup (IF WalletOwner(f) # NoAddress /\ ~f.renounced THEN {<<"OWNER">>} ELSE {})
    \cup (IF "treasury_multisig" \in f.wallet THEN {<<"MULTISIG">>} ELSE {})
    \cup (IF IsProxy(f, d) THEN {<<"UPGRADEABLE_PROXY", ProxyName(d)>>} ELSE {})

\* What a governor is taken for, by its name
GovernorKind(name) ==
    CASE name = "Safe Governor" -> "SAFE" [] name = "Compound Governor" -> "DAO" [] OTHER -> "GOVERNOR"

\* analyze_privileged_entities, but for the owners
OtherEntities(f, d) ==
    (IF Upgradeable(f) /\ f.admin # NoAddress THEN {<<"PROXY_ADMIN", f.admin>>} ELSE {})
    \cup (IF Timelocked(f) THEN {<<"TIMELOCK">>} ELSE {})
    \cup {<<GovernorKind(i.name), i.name>> : i \in d.governance}
    \cup (IF "treasury_multisig" \in f.wallet THEN {<<"MULTISIG">>} ELSE {})
    \cup {<<"BRIDGE_RELAYER", i.name>> : i \in {b \in d.bridge : b.role \in {"endpoint", "messenger", "router"}}}
    \cup {<<"ORACLE_ADMIN", i.name>> : i \in d.oracle}
    \cup {<<"CAPABILITY_CONTROLLER", Controller(f, c)>> : c \in f.abilities}

\* analyze_privileged_entities with an owner listed though ownership was renounced.
F_PrivilegedEntities(f, d) ==
    OtherEntities(f, d) \cup {<<"OWNER", a>> : a \in {WalletOwner(f), f.governed} \ {NoAddress}}

\* analyze_privileged_entities: <<kind, address or label>>
PrivilegedEntities(f, d) ==
    OtherEntities(f, d)
    \cup (IF f.renounced THEN {} ELSE {<<"OWNER", a>> : a \in {WalletOwner(f), f.governed} \ {NoAddress}})

\* build_critical_assets
CriticalAssets(f, d) ==
    {Contract} \cup {<<"implementation", a>> : a \in {f.implementation} \ {NoAddress}}
    \cup (IF f.pool # NoPool THEN {<<"liquidity_reserves">>} ELSE {})
    \cup {p \in Dependencies(f, d) : p[1] \in {"vault", "bridge", "oracle"}}

\* ATTACK_PATH_TEMPLATES: what each requires, and how certain it is at least
Templates ==
    [owner_proxy_impl_funds |-> [requires |-> {"proxy"}, base |-> 82],
     oracle_price_vault |-> [requires |-> {"oracle", "vault"}, base |-> 80],
     bridge_message_mint |-> [requires |-> {"bridge"}, base |-> 78],
     governor_upgrade_impl |-> [requires |-> {"governance", "proxy"}, base |-> 84],
     dex_liquidity_drain |-> [requires |-> {"dex"}, base |-> 76]]

\* _template_matches
Matches(t, f, d) ==
    \/ Templates[t].requires \subseteq {p[1] : p \in Dependencies(f, d)}
    \/ t = "owner_proxy_impl_funds" /\ Upgradeable(f) /\ PrivilegedEntities(f, d) # {}
    \/ t = "governor_upgrade_impl" /\ Upgradeable(f) /\ (d.governance # {} \/ Timelocked(f))

\* _confidence_boost
Boosted(t, f, d) ==
    AtMost100(Templates[t].base + (IF f.verified THEN 3 ELSE 0)
              + (IF PrivilegedEntities(f, d) # {} THEN 5 ELSE 0)
              + (CASE t = "oracle_price_vault" -> 8
                   [] t = "bridge_message_mint" /\ "mint" \in f.abilities -> 6
                   [] OTHER -> 0))

Path(name, confidence) == [name |-> name, confidence |-> confidence]

\* build_attack_paths
AttackPaths(f, d, relationships) ==
    {Path(<<t>>, Boosted(t, f, d)) : t \in {u \in DOMAIN Templates : Matches(u, f, d)}}
    \cup (IF Suspected(f) THEN {Path(<<"honeypot_exit">>, IF Confirmed(f) THEN 90 ELSE 75)} ELSE {})
    \cup (IF "mint" \in f.abilities /\ PrivilegedEntities(f, d) # {} THEN {Path(<<"mint_inflation">>, 80)} ELSE {})
    \cup {Path(<<"rel_upgrade", r.label>>, r.confidence) : r \in {x \in relationships : x.type = "UPGRADEABLE_BY"}}

\* build_threat_surface
Surface(f, d, relationships) ==
    [dependencies |-> Dependencies(f, d), boundaries |-> TrustBoundaries(f, d),
     privileged |-> PrivilegedEntities(f, d), assets |-> CriticalAssets(f, d),
     paths |-> AttackPaths(f, d, relationships)]

\* ContractAnalyzer.analyze, its last steps: the protocols, the relationships, the
\* threat surface and the risk.  What is not a contract has none but the last.
Analysis(f, intelligence) ==
    LET architecture == Architecture(f, intelligence.found)
    IN  [facts |-> f, intelligence |-> intelligence, architecture |-> architecture,
         surface |-> Surface(f, intelligence.found, architecture.relationships), assessment |-> Assessment(f)]
=============================================================================
