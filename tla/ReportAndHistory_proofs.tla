------------------------ MODULE ReportAndHistory_proofs ------------------------
(***************************************************************************)
(* Proofs about the report on a protocol, for any number of contracts and  *)
(* any findings about them, and about the history of its monitoring, for   *)
(* any number of cycles, restarts and retention policies.                  *)
(***************************************************************************)
EXTENDS ProtocolReport, History, FiniteSetTheorems, SequenceTheorems, WellFoundedInduction, TLAPS

\* A report is that of the findings and the results as they are: nothing settles
\* while it stands, since all have.
ReportInv ==
    report # NoReport =>
        /\ report = Report(facts, results)
        /\ \A n \in Nodes : results[n].status # "pending"

THEOREM ReportStands == Spec => []ReportInv
<1>1. Init => ReportInv
    BY DEF Init, ReportInv
<1>2. ReportInv /\ [Next]_vars => ReportInv'
    <2> SUFFICES ASSUME ReportInv, [Next]_vars PROVE ReportInv'
        OBVIOUS
    <2>1. CASE Build
        BY <2>1 DEF Build, ReportInv
    <2>2. ASSUME NEW n \in Nodes, NEW result, Settle(n, result) PROVE ReportInv'
        BY <2>2 DEF Settle, ReportInv
    <2>3. ASSUME NEW n \in Nodes, NEW remedy, NEW hardened, Act(n, remedy, hardened) PROVE ReportInv'
        BY <2>3 DEF Act, ReportInv
    <2>4. CASE UNCHANGED vars
        BY <2>4 DEF vars, ReportInv
    <2>5. ASSUME NEW n \in Nodes, Complete(n) PROVE ReportInv'
        BY <2>2, <2>5 DEF Complete
    <2>6. ASSUME NEW n \in Nodes, CompleteBare(n) \/ Fail(n) \/ Skip(n) PROVE ReportInv'
        BY <2>2, <2>6 DEF CompleteBare, Fail, Skip
    <2>7. ASSUME NEW n \in Nodes, AddTimelock(n) PROVE ReportInv'
        BY <2>3, <2>7 DEF AddTimelock
    <2>8. ASSUME NEW n \in Nodes, LockLiquidity(n) PROVE ReportInv'
        BY <2>3, <2>8 DEF LockLiquidity
    <2> QED
        BY <2>1, <2>4, <2>5, <2>6, <2>7, <2>8 DEF Next
<1> QED
    BY <1>1, <1>2, PTL DEF Spec

------------------------------------------------------------------------------
(* The findings of one contract among the evidence of all *)

Completed == {n \in Nodes : results[n].status = "completed"}

\* What the report has of a node whose scan completed
LEMMA ReportOfNode ==
    ASSUME ReportInv, report # NoReport
    PROVE  /\ DOMAIN report.done = Completed
           /\ \A n \in Completed : report.done[n] = AnalysisOf(facts[n], results[n])
           /\ report.findings = Findings(report.done)
           /\ report.failed = {n \in Nodes : results[n].status = "failed"}
           /\ report.level = OverallLevel(Overall(report.posture), report.failed)
<1> DEFINE done == [n \in Completed |-> AnalysisOf(facts[n], results[n])]
<1>1. report = Report(facts, results)
    BY DEF ReportInv
<1>2. /\ report.done = done /\ report.findings = Findings(done)
      /\ report.failed = {n \in Nodes : results[n].status = "failed"}
      /\ report.level = OverallLevel(Overall(report.posture), report.failed)
    BY <1>1 DEF Report, Completed
<1> QED
    BY <1>2

LEMMA AnalysisOfNode ==
    ASSUME NEW f, NEW r
    PROVE  /\ AnalysisOf(f, r).facts = f
           /\ AnalysisOf(f, r).assessment.evidence = Evidence(f)
           /\ AnalysisOf(f, r).assessment.correlated = Correlated(f, Evidence(f))
<1>1. /\ Assessment(f).evidence = Evidence(f) /\ Assessment(f).correlated = Correlated(f, Evidence(f))
    BY DEF Assessment
<1>2. CASE ~f.contract
    BY <1>1, <1>2 DEF AnalysisOf
<1>3. CASE f.contract
    BY <1>1, <1>3 DEF AnalysisOf, Analysis
<1> QED
    BY <1>2, <1>3

Tainted == {"wallet_known_scam", "tornado_funded_deployer"}

\* The rules that concern one contract, over the pooled evidence
LEMMA PooledFindings ==
    ASSUME NEW done
    PROVE  /\ "upgradeable" \in Pooled(done) /\ EoaAdmin(done) => "critical_governance_centralization" \in Findings(done)
           /\ "mint" \in Pooled(done) /\ Pooled(done) \cap {"no_liquidity", "low_liquidity"} # {} =>
                "exit_liquidity_risk" \in Findings(done)
           /\ {"mint", "fresh_deployer"} \subseteq Pooled(done) /\ Pooled(done) \cap Tainted # {} =>
                "potential_rug_pull_pattern" \in Findings(done)
<1>1. "upgradeable" \in Pooled(done) /\ EoaAdmin(done) => "critical_governance_centralization" \in Findings(done)
    BY DEF Findings, When
<1>2. "mint" \in Pooled(done) /\ Pooled(done) \cap {"no_liquidity", "low_liquidity"} # {} =>
            "exit_liquidity_risk" \in Findings(done)
    BY DEF Findings, When
<1>3. {"mint", "fresh_deployer"} \subseteq Pooled(done) /\ Pooled(done) \cap Tainted # {} =>
            "potential_rug_pull_pattern" \in Findings(done)
    BY DEF Findings, When, Tainted
<1> QED
    BY <1>1, <1>2, <1>3

\* Whatever was correlated in one contract is found again in the report, for any
\* number of contracts, except behind a timelock earlier in the order of addresses
\* or for a wallet that is only sanctioned.
THEOREM FindingsAreNotLost == Spec => []FindingsReachTheReport
<1>1. ReportInv => FindingsReachTheReport
    <2> SUFFICES ASSUME ReportInv, report # NoReport, NEW n \in DOMAIN report.done,
                        NEW c \in report.done[n].assessment.correlated \ report.findings
                 PROVE  LET a == report.done[n]
                        IN  \/ /\ c = "critical_governance_centralization"
                               /\ \E m \in DOMAIN report.done : m < n /\ Timelocked(report.done[m].facts)
                            \/ /\ c = "potential_rug_pull_pattern" /\ ~a.facts.scam
                               /\ "tornado_funded_deployer" \notin a.assessment.evidence
        BY DEF FindingsReachTheReport
    <2> DEFINE done == report.done
               f == done[n].facts
               e == done[n].assessment.evidence
    <2>1. /\ c \in Correlated(f, e) /\ e = Evidence(f)
          /\ report.findings = Findings(done)
        BY ReportOfNode, AnalysisOfNode
    <2> DEFINE pool == Pooled(done)
    <2>2. \A x : x \in e /\ (x = "wallet_known_scam" => f.scam) => x \in pool
        BY DEF Pooled, EvidenceOf
    <2>3. /\ "upgradeable" \in pool /\ EoaAdmin(done) => "critical_governance_centralization" \in report.findings
          /\ "mint" \in pool /\ pool \cap {"no_liquidity", "low_liquidity"} # {} => "exit_liquidity_risk" \in report.findings
          /\ {"mint", "fresh_deployer"} \subseteq pool /\ pool \cap Tainted # {} =>
                "potential_rug_pull_pattern" \in report.findings
        BY <2>1, PooledFindings
    <2>4. n \in DOMAIN done /\ c \notin report.findings
        OBVIOUS
    <2>5. EoaWithoutTimelock(f) /\ ~EoaAdmin(done) => \E m \in DOMAIN done : m < n /\ Timelocked(done[m].facts)
        BY <2>4 DEF EoaAdmin, EoaWithoutTimelock
    <2> HIDE DEF f, e, done, pool
    <2>6. CASE c = "critical_governance_centralization"
        <3>1. "upgradeable" \in e /\ EoaWithoutTimelock(f)
            BY <2>1, <2>6 DEF Correlated, When
        <3>2. ~EoaAdmin(done)
            BY <2>2, <2>3, <2>4, <2>6, <3>1
        <3> QED
            BY <2>5, <2>6, <3>1, <3>2 DEF done
    <2>7. CASE c = "exit_liquidity_risk"
        <3>1. "mint" \in e /\ e \cap {"no_liquidity", "low_liquidity"} # {}
            BY <2>1, <2>7 DEF Correlated, When
        <3> QED
            BY <2>2, <2>3, <2>4, <2>7, <3>1
    <2>8. CASE c = "potential_rug_pull_pattern"
        <3>1. /\ {"mint", "fresh_deployer"} \subseteq e
              /\ "wallet_known_scam" \in e \/ "tornado_funded_deployer" \in e
            BY <2>1, <2>8 DEF Correlated, When
        <3>2. {"mint", "fresh_deployer"} \subseteq pool
            BY <2>2, <3>1
        <3>3. ~f.scam /\ "tornado_funded_deployer" \notin e
            BY <2>2, <2>3, <2>4, <2>8, <3>1, <3>2 DEF Tainted
        <3> QED
            BY <2>8, <3>3 DEF f, e, done
    <2>9. c \in {"critical_governance_centralization", "exit_liquidity_risk", "potential_rug_pull_pattern"}
        BY <2>1 DEF Correlated, When
    <2> QED
        BY <2>6, <2>7, <2>8, <2>9
<1> QED
    BY ReportStands, <1>1, PTL

------------------------------------------------------------------------------
(* The relationships *)

\* A relationship is one of the candidates, and a candidate that is alone with its
\* target and alone with its label is a relationship.
LEMMA AloneIsKept ==
    ASSUME NEW S
    PROVE  /\ Relationships(S) \subseteq S
           /\ \A c \in S :
                /\ c.rank \in Int
                /\ \A o \in S : o.type = c.type /\ (o.target = c.target \/ o.label = c.label) => o = c
                => c \in Relationships(S)
<1>1. Relationships(S) \subseteq Normalize(S) /\ Normalize(S) \subseteq S
    BY DEF Relationships, Normalize, Foremost
<1>2. ASSUME NEW c \in S, c.rank \in Int,
             \A o \in S : o.type = c.type /\ (o.target = c.target \/ o.label = c.label) => o = c
      PROVE  c \in Relationships(S)
    <2>1. c.rank >= c.rank
        BY <1>2
    <2>2. c \in Normalize(S)
        BY <1>2, <2>1 DEF Normalize, Foremost
    <2> QED
        BY <1>1, <1>2, <2>1, <2>2 DEF Relationships, Foremost
<1> QED
    BY <1>1, <1>2

LEMMA CandidateParts ==
    ASSUME NEW rank, NEW target, NEW label, NEW type, NEW confidence
    PROVE  LET c == Candidate(rank, target, label, type, confidence)
           IN  /\ c.rank = rank /\ c.target = target /\ c.label = label /\ c.type = type
               /\ c.confidence = confidence
BY DEF Candidate

UpgradeCandidate(authority) ==
    Candidate(8002, <<"governance", authority>>, <<"Upgrade_Authority", authority>>, "UPGRADEABLE_BY", 82)

\* Who can upgrade: the authority, or the admin by its address
LEMMA Upgraders ==
    ASSUME NEW f, NEW d, NEW c \in Candidates(f, d), c.type = "UPGRADEABLE_BY"
    PROVE  \/ c = UpgradeCandidate(UpgradeAuthority(f)) /\ IsKnown(UpgradeAuthority(f))
           \/ c.label = <<"Proxy_Admin">> /\ c.target[1] = "wallet"
<1>1. c \notin IntegrationCandidates(d)
    BY DEF IntegrationCandidates, Candidate, CategoryType
<1>2. c \notin LiquidityCandidates(f)
    BY CandidateParts DEF LiquidityCandidates
<1>3. c \notin CapabilityCandidates(f)
    BY DEF CapabilityCandidates, Candidate
<1>4. c \notin SourceCandidates(f)
    BY CandidateParts DEF SourceCandidates, If
<1>5. CASE c \in GovernanceCandidates(f)
    BY <1>5, CandidateParts DEF GovernanceCandidates, UpgradeCandidate, If
<1>6. CASE c \in WalletCandidates(f)
    BY <1>6, CandidateParts DEF WalletCandidates, If
<1>7. CASE c \in ProxyCandidates(f)
    BY <1>7, CandidateParts DEF ProxyCandidates, If
<1> QED
    BY <1>1, <1>2, <1>3, <1>4, <1>5, <1>6, <1>7 DEF Candidates

LEMMA TimelockRelation ==
    ASSUME NEW f, NEW d
    PROVE  (\E r \in Relationships(Candidates(f, d)) : r.target = <<"governance", "timelock">> /\ r.type = "UPGRADEABLE_BY")
           <=> UpgradeAuthority(f) = "timelock"
<1> DEFINE S == Candidates(f, d)
           u == UpgradeCandidate("timelock")
<1>1. /\ u.rank = 8002 /\ u.type = "UPGRADEABLE_BY"
      /\ u.target = <<"governance", "timelock">> /\ u.label = <<"Upgrade_Authority", "timelock">>
    BY CandidateParts DEF UpgradeCandidate
<1>2. ASSUME NEW r \in Relationships(S), r.target = <<"governance", "timelock">>, r.type = "UPGRADEABLE_BY"
      PROVE  UpgradeAuthority(f) = "timelock"
    <2>1. r \in S
        BY <1>2, AloneIsKept
    <2>2. r = UpgradeCandidate(UpgradeAuthority(f))
        <3>1. r.target[1] = "governance"
            BY <1>2
        <3> QED
            BY <1>2, <2>1, <3>1, Upgraders
    <2>3. r.target = <<"governance", UpgradeAuthority(f)>>
        BY <2>2, CandidateParts DEF UpgradeCandidate
    <2> QED
        BY <1>2, <2>3
<1>3. ASSUME UpgradeAuthority(f) = "timelock" PROVE u \in Relationships(S)
    <2>1. u \in S
        BY <1>3 DEF Candidates, GovernanceCandidates, If, IsKnown, UpgradeCandidate
    <2>2. ASSUME NEW o \in S, o.type = u.type, o.target = u.target \/ o.label = u.label PROVE o = u
        BY <1>1, <1>3, <2>2, Upgraders
    <2> QED
        BY <1>1, <2>1, <2>2, AloneIsKept
<1> HIDE DEF u
<1> QED
    BY <1>1, <1>2, <1>3

------------------------------------------------------------------------------
(* The views of a threat surface *)

\* Who owns a contract and who delays it: boundaries and entities
LEMMA BoundariesAndEntities ==
    ASSUME NEW f, NEW d
    PROVE  /\ <<"OWNER">> \in TrustBoundaries(f, d) <=> \E e \in PrivilegedEntities(f, d) : e[1] = "OWNER"
           /\ <<"TIMELOCK">> \in TrustBoundaries(f, d) <=> <<"TIMELOCK">> \in PrivilegedEntities(f, d)
<1> DEFINE Kinds == {"PROXY_ADMIN", "SAFE", "DAO", "GOVERNOR", "MULTISIG", "BRIDGE_RELAYER", "ORACLE_ADMIN",
                     "CAPABILITY_CONTROLLER"}
           owners == {WalletOwner(f), f.governed} \ {NoAddress}
<1>1. \A e \in OtherEntities(f, d) : e[1] \in Kinds \/ (e = <<"TIMELOCK">> /\ Timelocked(f))
    <2> DEFINE delays == IF Timelocked(f) THEN {<<"TIMELOCK">>} ELSE {}
               governors == {<<GovernorKind(i.name), i.name>> : i \in d.governance}
               admins == IF Upgradeable(f) /\ f.admin # NoAddress THEN {<<"PROXY_ADMIN", f.admin>>} ELSE {}
               wallets == IF "treasury_multisig" \in f.wallet THEN {<<"MULTISIG">>} ELSE {}
               relayers == {<<"BRIDGE_RELAYER", i.name>> :
                                i \in {b \in d.bridge : b.role \in {"endpoint", "messenger", "router"}}}
               oracles == {<<"ORACLE_ADMIN", i.name>> : i \in d.oracle}
               controllers == {<<"CAPABILITY_CONTROLLER", Controller(f, c)>> : c \in f.abilities}
    <2>1. \A n : GovernorKind(n) \in Kinds
        BY Zenon DEF GovernorKind
    <2>2. \A e \in governors : e[1] \in Kinds
        BY <2>1
    <2>3. \A e \in admins \cup wallets : e[1] \in Kinds
        OBVIOUS
    <2>4. \A e \in relayers \cup oracles \cup controllers : e[1] \in Kinds
        OBVIOUS
    <2>5. \A e \in delays : e = <<"TIMELOCK">> /\ Timelocked(f)
        OBVIOUS
    <2>6. OtherEntities(f, d) = admins \cup delays \cup governors \cup wallets \cup relayers \cup oracles \cup controllers
        BY DEF OtherEntities
    <2> HIDE DEF delays, governors, admins, wallets, relayers, oracles, controllers, Kinds
    <2> QED
        BY <2>2, <2>3, <2>4, <2>5, <2>6
<1>2. Timelocked(f) => <<"TIMELOCK">> \in OtherEntities(f, d)
    BY DEF OtherEntities
<1>3. \A e \in {<<"OWNER", a>> : a \in owners} : e[1] = "OWNER"
    OBVIOUS
<1>4. owners # {} <=> WalletOwner(f) # NoAddress
    BY DEF WalletOwner, Or
<1>5. PrivilegedEntities(f, d) = OtherEntities(f, d) \cup (IF f.renounced THEN {} ELSE {<<"OWNER", a>> : a \in owners})
    BY DEF PrivilegedEntities
<1>6. /\ <<"OWNER">> \in TrustBoundaries(f, d) <=> WalletOwner(f) # NoAddress /\ ~f.renounced
      /\ <<"TIMELOCK">> \in TrustBoundaries(f, d) <=> Timelocked(f)
    <2> DEFINE named ==
                 {<<"ORACLE", i.name>> : i \in d.oracle} \cup {<<"BRIDGE", i.name, i.role>> : i \in d.bridge}
                 \cup {<<"VAULT", i.name>> : i \in d.vault} \cup {<<"ROUTER", i.name, i.role>> : i \in d.dex}
                 \cup (IF f.pool # NoPool THEN {<<"ROUTER", f.pool.dex>>} ELSE {})
                 \cup {<<"GOVERNOR", i.name>> : i \in d.governance}
               guarded ==
                 (IF "treasury_multisig" \in f.wallet THEN {<<"MULTISIG">>} ELSE {})
                 \cup (IF IsProxy(f, d) THEN {<<"UPGRADEABLE_PROXY", ProxyName(d)>>} ELSE {})
    <2>1. \A b \in named \cup guarded : b[1] \notin {"OWNER", "TIMELOCK"}
        OBVIOUS
    <2>2. TrustBoundaries(f, d) =
            named \cup guarded \cup (IF Timelocked(f) THEN {<<"TIMELOCK">>} ELSE {})
            \cup (IF WalletOwner(f) # NoAddress /\ ~f.renounced THEN {<<"OWNER">>} ELSE {})
        BY DEF TrustBoundaries
    <2> HIDE DEF named, guarded
    <2>3. <<"OWNER">>[1] = "OWNER" /\ <<"TIMELOCK">>[1] = "TIMELOCK"
        OBVIOUS
    <2> QED
        BY <2>1, <2>2, <2>3
<1> HIDE DEF owners
<1>7. <<"TIMELOCK">>[1] = "TIMELOCK"
    OBVIOUS
<1> QED
    BY <1>1, <1>2, <1>3, <1>4, <1>5, <1>6, <1>7

\* What may be minted is somebody's to mint.
LEMMA MintPath ==
    ASSUME NEW f, NEW d, NEW relationships
    PROVE  <<"mint_inflation">> \in {p.name : p \in AttackPaths(f, d, relationships)} <=> "mint" \in f.abilities
<1>1. "mint" \in f.abilities => PrivilegedEntities(f, d) # {}
    <2>1. "mint" \in f.abilities => <<"CAPABILITY_CONTROLLER", Controller(f, "mint")>> \in OtherEntities(f, d)
        BY DEF OtherEntities
    <2> QED
        BY <2>1 DEF PrivilegedEntities
<1>2. "mint" \in f.abilities => Path(<<"mint_inflation">>, 80) \in AttackPaths(f, d, relationships)
    BY <1>1 DEF AttackPaths
<1>3. Path(<<"mint_inflation">>, 80).name = <<"mint_inflation">>
    BY DEF Path
<1>4. ASSUME NEW p \in AttackPaths(f, d, relationships), p.name = <<"mint_inflation">>
      PROVE  "mint" \in f.abilities
    <2>1. p.name[1] = "mint_inflation"
        BY <1>4
    <2>2. ASSUME NEW t \in DOMAIN Templates, p = Path(<<t>>, Boosted(t, f, d)) PROVE FALSE
        BY <2>1, <2>2 DEF Templates, Path
    <2>3. ASSUME NEW r, NEW n, p = Path(<<"rel_upgrade", r>>, n) \/ p = Path(<<"honeypot_exit">>, n) PROVE FALSE
        BY <2>1, <2>3 DEF Path
    <2> QED
        BY <2>2, <2>3 DEF AttackPaths
<1> QED
    BY <1>2, <1>3, <1>4

\* What a proxy brings with it, and what the path through its admin takes
LEMMA ProxyPath ==
    ASSUME NEW f, NEW d, NEW relationships
    PROVE  /\ IsProxy(f, d) =>
                /\ <<"proxy", ProxyName(d)>> \in Dependencies(f, d)
                /\ <<"UPGRADEABLE_PROXY", ProxyName(d)>> \in TrustBoundaries(f, d)
                /\ <<"owner_proxy_impl_funds">> \in {p.name : p \in AttackPaths(f, d, relationships)}
           /\ Upgradeable(f) => <<"implementation", f.implementation>> \in CriticalAssets(f, d)
           /\ <<"owner_proxy_impl_funds">> \in {p.name : p \in AttackPaths(f, d, relationships)} => IsProxy(f, d)
<1> DEFINE name == "owner_proxy_impl_funds"
<1>1. IsProxy(f, d) => /\ <<"proxy", ProxyName(d)>> \in Dependencies(f, d)
                       /\ <<"UPGRADEABLE_PROXY", ProxyName(d)>> \in TrustBoundaries(f, d)
    <2>1. IsProxy(f, d) => <<"proxy", ProxyName(d)>> \in Dependencies(f, d)
        BY DEF Dependencies
    <2>2. IsProxy(f, d) => <<"UPGRADEABLE_PROXY", ProxyName(d)>> \in TrustBoundaries(f, d)
        BY DEF TrustBoundaries
    <2> QED
        BY <2>1, <2>2
<1>2. Upgradeable(f) => <<"implementation", f.implementation>> \in CriticalAssets(f, d)
    BY DEF CriticalAssets, Upgradeable
<1>3. name \in DOMAIN Templates /\ Templates[name].requires = {"proxy"}
    BY DEF Templates
<1>4. ASSUME IsProxy(f, d) PROVE <<name>> \in {p.name : p \in AttackPaths(f, d, relationships)}
    <2>1. "proxy" \in {p[1] : p \in Dependencies(f, d)}
        BY <1>1, <1>4
    <2>2. Matches(name, f, d)
        BY <1>3, <2>1 DEF Matches
    <2>3. Path(<<name>>, Boosted(name, f, d)) \in AttackPaths(f, d, relationships)
        BY <1>3, <2>2 DEF AttackPaths
    <2> QED
        BY <2>3 DEF Path
<1>5. ASSUME Matches(name, f, d) PROVE IsProxy(f, d)
    <2>1. CASE Upgradeable(f)
        BY <2>1 DEF IsProxy
    <2>2. CASE "proxy" \in {p[1] : p \in Dependencies(f, d)}
        <3> DEFINE Others == {"bridge", "oracle", "dex", "vault", "governance", "lending"}
        <3>1. \A q \in UNION {{<<c, n>> : n \in Names(d[c])} : c \in Others} : q[1] \in Others
            OBVIOUS
        <3>2. PICK q \in Dependencies(f, d) : q[1] = "proxy"
            BY <2>2
        <3>3. "proxy" \notin Others /\ {"dex", "governance"} \subseteq Others
            OBVIOUS
        <3> QED
            BY <3>1, <3>2, <3>3 DEF Dependencies
    <2> QED
        BY <1>3, <1>5, <2>1, <2>2 DEF Matches
<1>6. ASSUME NEW p \in AttackPaths(f, d, relationships), p.name = <<name>> PROVE Matches(name, f, d)
    <2>1. p.name[1] = name
        BY <1>6
    <2>2. ASSUME NEW r, NEW n, p = Path(<<"rel_upgrade", r>>, n) \/ p = Path(<<"honeypot_exit">>, n)
                               \/ p = Path(<<"mint_inflation">>, n)
          PROVE FALSE
        BY <2>1, <2>2 DEF Path
    <2>3. PICK t \in DOMAIN Templates : Matches(t, f, d) /\ p = Path(<<t>>, Boosted(t, f, d))
        BY <2>2 DEF AttackPaths
    <2> QED
        BY <2>1, <2>3 DEF Path
<1> QED
    BY <1>1, <1>2, <1>4, <1>5, <1>6

------------------------------------------------------------------------------
(* The views agree *)

ProxySeen(f, r) == r.detected /\ IsKnown(r.proxy)

\* The findings stay findings whatever the team does, and a proxy was seen where
\* there is one, or could be by the time of the detection.
SeenInv ==
    /\ DOMAIN facts = Nodes /\ DOMAIN results = Nodes
    /\ \A n \in Nodes :
        /\ IsFacts(facts[n])
        /\ ProxySeen(facts[n], results[n]) =>
            Upgradeable(facts[n]) \/ facts[n].clone \/ facts[n].beacon \/ facts[n].uninitialised

\* Detection invents no proxy.
LEMMA CompleteSees ==
    ASSUME SeenInv, NEW n \in Nodes, Complete(n)
    PROVE  SeenInv'
<1> DEFINE f == facts[n]
           known == When(Upgradeable(f), "implementation") \cup When(f.admin # NoAddress, "admin")
           open == When(f.beacon, "beacon") \cup (IF f.uninitialised THEN {"implementation", "admin"} ELSE {})
           Kind(set) == ProxyKind(f.clone, "beacon" \in set, "implementation" \in set, "admin" \in set, f.code)
<1>1. PICK read \in SUBSET open : Settle(n, Detected(Kind(known \cup read)))
    BY DEF Complete
<1>2. /\ "beacon" \in known \cup read => f.beacon
      /\ "implementation" \in known \cup read => Upgradeable(f) \/ f.uninitialised
    BY <1>1 DEF When
<1> HIDE DEF known, open
<1>3. IsKnown(Kind(known \cup read)) => f.clone \/ "beacon" \in known \cup read \/ "implementation" \in known \cup read
    BY Zenon DEF ProxyKind, IsKnown
<1> HIDE DEF Kind
<1>4. Detected(Kind(known \cup read)).proxy = Kind(known \cup read)
    BY DEF Detected
<1>5. facts' = facts /\ results' = [results EXCEPT ![n] = Detected(Kind(known \cup read))]
    BY <1>1 DEF Settle
<1> QED
    BY <1>2, <1>3, <1>4, <1>5 DEF SeenInv, ProxySeen

\* The findings of a hardened contract
LEMMA HardenedFacts ==
    ASSUME NEW f, IsFacts(f)
    PROVE  /\ f.admin # NoAddress => IsFacts(BehindTimelock(f))
           /\ f.pool # NoPool => IsFacts([f EXCEPT !.pool.locked = TRUE])
<1>1. Timelock # NoAddress
    BY ReportAssumption
<1>2. ASSUME f.admin # NoAddress PROVE IsFacts(BehindTimelock(f))
    <2> DEFINE g == BehindTimelock(f)
    <2>1. DOMAIN g = DOMAIN f
        BY DEF BehindTimelock
    <2>2. /\ g.controls = f.controls /\ g.abilities = f.abilities /\ g.wallet \subseteq f.wallet
          /\ g.delay = "delay" /\ g.adminType = "contract"
          /\ g.roles = f.roles /\ g.deployed = f.deployed /\ g.pool = f.pool
        BY DEF BehindTimelock, IsFacts
    <2>3. g.ownerType = IF f.owner # NoAddress THEN "contract" ELSE f.ownerType
        BY DEF BehindTimelock, IsFacts
    <2>4. g.admin = IF f.owner # NoAddress THEN f.admin ELSE Timelock
        BY DEF BehindTimelock, IsFacts
    <2> HIDE DEF g
    <2>5. IsFacts(g)
        BY <1>1, <1>2, <2>1, <2>2, <2>3, <2>4 DEF IsFacts, AdminTypes
    <2> QED
        BY <2>5 DEF g
<1>3. ASSUME f.pool # NoPool PROVE IsFacts([f EXCEPT !.pool.locked = TRUE])
    <2> DEFINE g == [f EXCEPT !.pool.locked = TRUE]
    <2>1. /\ DOMAIN g = DOMAIN f /\ g.pool = [f.pool EXCEPT !.locked = TRUE]
          /\ \A x \in DOMAIN f : x # "pool" => g[x] = f[x]
        BY DEF IsFacts
    <2>2. /\ {"depth", "locked", "holder", "dex"} \subseteq DOMAIN f.pool /\ f.pool.dex \in PoolDexes
          /\ [f.pool EXCEPT !.locked = TRUE] # NoPool
        BY <1>3 DEF IsFacts
    <2>3. DOMAIN g.pool = DOMAIN f.pool /\ g.pool.dex = f.pool.dex /\ [g.pool EXCEPT !.locked = TRUE] = g.pool
        BY <2>1, <2>2
    <2>4. g.pool # NoPool
        BY <2>1, <2>2
    <2>5. /\ g.adminType = f.adminType /\ g.ownerType = f.ownerType /\ g.delay = f.delay /\ g.admin = f.admin
          /\ g.controls = f.controls /\ g.abilities = f.abilities /\ g.wallet = f.wallet
          /\ g.roles = f.roles /\ g.deployed = f.deployed
        BY <2>1 DEF IsFacts
    <2> HIDE DEF g
    <2>6. IsFacts(g)
        BY <2>1, <2>2, <2>3, <2>4, <2>5 DEF IsFacts
    <2> QED
        BY <2>6 DEF g
<1> QED
    BY <1>2, <1>3

LEMMA SettleSees ==
    ASSUME SeenInv, NEW n \in Nodes, NEW status, Settle(n, Result(status))
    PROVE  SeenInv'
BY DEF SeenInv, ProxySeen, Settle, Result

LEMMA ActSees ==
    ASSUME SeenInv, NEW n \in Nodes, NEW remedy, NEW hardened, IsFacts(hardened), Act(n, remedy, hardened)
    PROVE  SeenInv'
BY DEF SeenInv, ProxySeen, Act, Pending, Result

THEOREM FindingsStayFindings == Spec => []SeenInv
<1>1. Init => SeenInv
    BY ReportAssumption DEF Init, SeenInv, ProxySeen, Pending, Result
<1>2. SeenInv /\ [Next]_vars => SeenInv'
    <2> SUFFICES ASSUME SeenInv, [Next]_vars PROVE SeenInv'
        OBVIOUS
    <2>1. CASE Build
        BY <2>1 DEF Build, SeenInv, ProxySeen
    <2>2. ASSUME NEW n \in Nodes, Complete(n) PROVE SeenInv'
        BY <2>2, CompleteSees
    <2>3. ASSUME NEW n \in Nodes, CompleteBare(n) \/ Fail(n) \/ Skip(n) PROVE SeenInv'
        BY <2>3, SettleSees DEF CompleteBare, Fail, Skip
    <2>4. ASSUME NEW n \in Nodes, AddTimelock(n) PROVE SeenInv'
        <3>1. IsFacts(BehindTimelock(facts[n]))
            BY <2>4, HardenedFacts DEF SeenInv, AddTimelock
        <3> QED
            BY <2>4, <3>1, ActSees DEF AddTimelock
    <2>5. ASSUME NEW n \in Nodes, LockLiquidity(n) PROVE SeenInv'
        <3>1. IsFacts([facts[n] EXCEPT !.pool.locked = TRUE])
            BY <2>5, HardenedFacts DEF SeenInv, LockLiquidity
        <3> QED
            BY <2>5, <3>1, ActSees DEF LockLiquidity
    <2>6. CASE UNCHANGED vars
        BY <2>6 DEF vars, SeenInv, ProxySeen
    <2> QED
        BY <2>1, <2>2, <2>3, <2>4, <2>5, <2>6 DEF Next
<1> QED
    BY <1>1, <1>2, PTL DEF Spec

\* What the risk evidence says of upgrades and of minting
LEMMA EvidenceSays ==
    ASSUME NEW f, IsFacts(f), f.contract
    PROVE  /\ "upgradeable" \in Evidence(f) <=> Upgradeable(f)
           /\ "mint" \in Evidence(f) <=> "mint" \in f.abilities
           /\ {"upgradeable", "admin_timelock"} \subseteq Evidence(f) <=> UpgradeAuthority(f) = "timelock"
<1>1. /\ f.abilities \subseteq Capabilities /\ f.wallet \subseteq WalletFindings
      /\ HoneypotEvidence(f) \subseteq Controls
    BY DEF IsFacts, HoneypotEvidence
<1>2. "upgradeable" \in Evidence(f) <=> Upgradeable(f)
    BY <1>1 DEF Evidence, ProxyEvidence, AdminEvidence, SimulationEvidence, LiquidityEvidence,
                Controls, Capabilities, WalletFindings, Upgradeable, When
<1>3. "mint" \in Evidence(f) <=> "mint" \in f.abilities
    BY <1>1 DEF Evidence, ProxyEvidence, AdminEvidence, SimulationEvidence, LiquidityEvidence,
                Controls, WalletFindings, When
<1>4. "admin_timelock" \in Evidence(f) <=> Timelocked(f)
    <2>1. "admin_timelock" \in Evidence(f) <=> "admin_timelock" \in AdminEvidence(f)
        BY <1>1 DEF Evidence, ProxyEvidence, SimulationEvidence, LiquidityEvidence,
                    Controls, Capabilities, WalletFindings, When
    <2> QED
        BY <2>1 DEF IsFacts, AdminEvidence, Timelocked
<1>5. UpgradeAuthority(f) = "timelock" <=> Upgradeable(f) /\ Timelocked(f)
    BY DEF UpgradeAuthority, IsFacts, Upgradeable, Timelocked, AdminTypes
<1> QED
    BY <1>2, <1>3, <1>4, <1>5

\* The analysis of a contract: its intelligence has the proxy that was detected.
LEMMA AnalysisParts ==
    ASSUME NEW f, NEW r, f.contract
    PROVE  LET a == AnalysisOf(f, r)
               d == a.intelligence.found
           IN  /\ a.facts = f /\ a.assessment.evidence = Evidence(f)
               /\ a.architecture.relationships = Relationships(Candidates(f, d))
               /\ a.surface.dependencies = Dependencies(f, d) /\ a.surface.boundaries = TrustBoundaries(f, d)
               /\ a.surface.privileged = PrivilegedEntities(f, d) /\ a.surface.assets = CriticalAssets(f, d)
               /\ a.surface.paths = AttackPaths(f, d, a.architecture.relationships)
               /\ IsKnown(d.proxy) => ProxySeen(f, r)
<1> DEFINE I == IF r.detected THEN Intelligence(f, r.proxy, Timelocked(f)) ELSE NoIntelligence
<1>1. IsKnown(I.found.proxy) => ProxySeen(f, r)
    BY DEF Intelligence, NoIntelligence, ProxySeen, IsKnown
<1>2. AnalysisOf(f, r) = Analysis(f, I)
    BY DEF AnalysisOf
<1>3. Assessment(f).evidence = Evidence(f)
    BY DEF Assessment
<1> HIDE DEF I
<1> QED
    BY <1>1, <1>2, <1>3 DEF Analysis, Architecture, Surface

\* In every report the boundaries, the privileged, the relationships, the paths and
\* the risk evidence of a contract agree, for any contracts and any findings.
THEOREM SurfacesAgree == Spec => []SurfaceAgrees
<1>1. ReportInv /\ SeenInv => SurfaceAgrees
    <2> SUFFICES ASSUME ReportInv, SeenInv, report # NoReport, NEW n \in Contracts(report.done)
                 PROVE  ViewsAgree(report.done[n])
        BY DEF SurfaceAgrees, Reported
    <2> DEFINE f == facts[n]
               r == results[n]
               a == AnalysisOf(f, r)
               d == a.intelligence.found
    <2>1. n \in Nodes /\ report.done[n] = a
        BY ReportOfNode DEF Contracts, Completed
    <2>2. f.contract
        <3>1. n \in Completed /\ report.done[n].facts.contract
            BY ReportOfNode DEF Contracts
        <3> QED
            BY <2>1, <3>1, AnalysisOfNode
    <2>3. IsFacts(f) /\ (ProxySeen(f, r) => Upgradeable(f) \/ f.clone \/ f.beacon \/ f.uninitialised)
        BY <2>1 DEF SeenInv
    <2> HIDE DEF f, r
    <2>4. /\ a.facts = f /\ a.assessment.evidence = Evidence(f)
          /\ a.architecture.relationships = Relationships(Candidates(f, d))
          /\ a.surface.dependencies = Dependencies(f, d) /\ a.surface.boundaries = TrustBoundaries(f, d)
          /\ a.surface.privileged = PrivilegedEntities(f, d) /\ a.surface.assets = CriticalAssets(f, d)
          /\ a.surface.paths = AttackPaths(f, d, a.architecture.relationships)
          /\ IsKnown(d.proxy) => ProxySeen(f, r)
        BY <2>2, AnalysisParts
    <2> HIDE DEF a, d
    <2> DEFINE names == {p.name : p \in AttackPaths(f, d, a.architecture.relationships)}
    <2>5. IsProxy(f, d) => Upgradeable(f) \/ f.clone \/ f.beacon \/ f.uninitialised
        BY <2>3, <2>4 DEF IsProxy
    <2>6. Upgradeable(f) => IsProxy(f, d)
        BY DEF IsProxy
    <2>7. /\ "upgradeable" \in a.assessment.evidence <=> Upgradeable(f)
          /\ <<"mint_inflation">> \in names <=> "mint" \in a.assessment.evidence
          /\ {"upgradeable", "admin_timelock"} \subseteq a.assessment.evidence
                <=> \E x \in a.architecture.relationships :
                        x.target = <<"governance", "timelock">> /\ x.type = "UPGRADEABLE_BY"
        <3>1. "upgradeable" \in a.assessment.evidence <=> Upgradeable(f)
            BY <2>2, <2>3, <2>4, EvidenceSays
        <3>2. "mint" \in a.assessment.evidence <=> "mint" \in f.abilities
            BY <2>2, <2>3, <2>4, EvidenceSays
        <3>3. <<"mint_inflation">> \in names <=> "mint" \in f.abilities
            BY MintPath
        <3>4. {"upgradeable", "admin_timelock"} \subseteq a.assessment.evidence <=> UpgradeAuthority(f) = "timelock"
            BY <2>2, <2>3, <2>4, EvidenceSays
        <3>5. (\E x \in a.architecture.relationships :
                    x.target = <<"governance", "timelock">> /\ x.type = "UPGRADEABLE_BY")
              <=> UpgradeAuthority(f) = "timelock"
            <4>1. (\E x \in Relationships(Candidates(f, d)) :
                        x.target = <<"governance", "timelock">> /\ x.type = "UPGRADEABLE_BY")
                  <=> UpgradeAuthority(f) = "timelock"
                BY TimelockRelation
            <4>2. a.architecture.relationships = Relationships(Candidates(f, d))
                BY <2>4
            <4> QED
                BY <4>1, <4>2
        <3> QED
            BY <3>1, <3>2, <3>3, <3>4, <3>5
    <2>8. /\ IsProxy(f, d) =>
                /\ <<"proxy", ProxyName(d)>> \in Dependencies(f, d)
                /\ <<"UPGRADEABLE_PROXY", ProxyName(d)>> \in TrustBoundaries(f, d)
                /\ <<"owner_proxy_impl_funds">> \in names
          /\ Upgradeable(f) => <<"implementation", f.implementation>> \in CriticalAssets(f, d)
          /\ <<"owner_proxy_impl_funds">> \in names => IsProxy(f, d)
        BY ProxyPath
    <2>9. {p.name : p \in a.surface.paths} = names /\ d = a.intelligence.found
        BY <2>4 DEF d
    <2> HIDE DEF names
    <2>10. ViewsAgree(a)
        BY <2>4, <2>5, <2>6, <2>7, <2>8, <2>9, BoundariesAndEntities DEF ViewsAgree
    <2> QED
        BY <2>1, <2>10
<1> QED
    BY ReportStands, FindingsStayFindings, <1>1, PTL

------------------------------------------------------------------------------
(* Finite sets, and the sums over them, by the least set of which a claim is   *)
(* not true.                                                                   *)

LEMMA LeastSubset ==
    ASSUME NEW S, IsFiniteSet(S), NEW T \in SUBSET SUBSET S, T # {}
    PROVE  \E x \in T : \A y \in T : y \subseteq x => y = x
<1>1. T \subseteq FiniteSubsetsOf(S)
    BY FS_Subset DEF FiniteSubsetsOf
<1>2. PICK x \in T : \A y \in T : ~ (<<y, x>> \in StrictSubsetOrdering(S))
    BY <1>1, FS_StrictSubsetOrderingWellFounded, WFMin
<1> QED
    BY <1>2 DEF StrictSubsetOrdering

AnyOf(s) == CHOOSE x \in s : TRUE

\* f takes the terms of w one after the other off the subsets of S.
Sums(f, w, S) ==
    /\ f = [s \in SUBSET S |-> f[s]]
    /\ \A s \in SUBSET S : f[s] = IF s = {} THEN 0 ELSE w[AnyOf(s)] + f[s \ {AnyOf(s)}]

LEMMA AnyIsIn == ASSUME NEW s, s # {} PROVE AnyOf(s) \in s
BY DEF AnyOf

LEMMA SumsAgree ==
    ASSUME NEW w, NEW S, IsFiniteSet(S), NEW T \in SUBSET S, NEW f, NEW g, Sums(f, w, S), Sums(g, w, T)
    PROVE  \A s \in SUBSET T : f[s] = g[s]
<1> DEFINE Bad == {s \in SUBSET T : f[s] # g[s]}
<1> SUFFICES ASSUME Bad # {} PROVE FALSE
    OBVIOUS
<1>1. IsFiniteSet(T) /\ Bad \in SUBSET SUBSET T
    BY FS_Subset
<1> HIDE DEF Bad
<1>2. PICK s \in Bad : \A t \in Bad : t \subseteq s => t = s
    BY <1>1, LeastSubset
<1>3. s \in SUBSET T /\ s \in SUBSET S /\ f[s] # g[s]
    BY <1>2 DEF Bad
<1>4. s # {}
    BY <1>3 DEF Sums
<1>5. AnyOf(s) \in s
    BY <1>4, AnyIsIn
<1> DEFINE r == s \ {AnyOf(s)}
<1>6. r \in SUBSET T /\ r \subseteq s /\ r # s
    BY <1>3, <1>5
<1>7. f[r] = g[r]
    BY <1>2, <1>6 DEF Bad
<1>8. f[s] = w[AnyOf(s)] + f[r] /\ g[s] = w[AnyOf(s)] + g[r]
    BY <1>3, <1>4 DEF Sums
<1> QED
    BY <1>3, <1>7, <1>8

LEMMA SumsExist ==
    ASSUME NEW w, NEW S, IsFiniteSet(S)
    PROVE  \E f : Sums(f, w, S)
<1> DEFINE Bad == {T \in SUBSET S : ~ \E f : Sums(f, w, T)}
<1> SUFFICES ASSUME Bad # {} PROVE FALSE
    OBVIOUS
<1>0. Bad \in SUBSET SUBSET S
    OBVIOUS
<1> HIDE DEF Bad
<1>1. PICK T \in Bad : \A U \in Bad : U \subseteq T => U = T
    BY <1>0, LeastSubset
<1>2. T \in SUBSET S /\ ~ \E f : Sums(f, w, T)
    BY <1>1 DEF Bad
<1> DEFINE F(U) == CHOOSE f : Sums(f, w, U)
<1>3. ASSUME NEW U \in SUBSET T, U # T PROVE Sums(F(U), w, U) /\ IsFiniteSet(U)
    BY <1>1, <1>3, <1>2, FS_Subset DEF Bad
<1> HIDE DEF F
<1> DEFINE rest == T \ {AnyOf(T)}
           f == [s \in SUBSET T |-> IF s # T THEN F(s)[s] ELSE IF T = {} THEN 0 ELSE w[AnyOf(T)] + F(rest)[rest]]
<1>4. ASSUME NEW s \in SUBSET T PROVE f[s] = IF s = {} THEN 0 ELSE w[AnyOf(s)] + f[s \ {AnyOf(s)}]
    <2>1. CASE s = T
        <3>1. CASE T = {}
            BY <2>1, <3>1
        <3>2. CASE T # {}
            <4>1. rest \in SUBSET T /\ rest # T
                BY <3>2, AnyIsIn
            <4>2. f[rest] = F(rest)[rest]
                BY <4>1
            <4> QED
                BY <2>1, <3>2, <4>2
        <3> QED
            BY <3>1, <3>2
    <2>2. CASE s # T
        <3>1. f[s] = F(s)[s] /\ Sums(F(s), w, s) /\ IsFiniteSet(s)
            BY <2>2, <1>3
        <3>2. CASE s = {}
            BY <3>1, <3>2 DEF Sums
        <3>3. CASE s # {}
            <4> DEFINE r == s \ {AnyOf(s)}
            <4>1. r \in SUBSET s /\ r \in SUBSET T /\ r # T
                BY <2>2, <3>3, AnyIsIn
            <4>2. f[r] = F(r)[r] /\ Sums(F(r), w, r)
                BY <4>1, <1>3
            <4>3. F(s)[r] = F(r)[r]
                BY <3>1, <4>1, <4>2, SumsAgree
            <4>4. F(s)[s] = w[AnyOf(s)] + F(s)[r]
                BY <3>1, <3>3 DEF Sums
            <4> QED
                BY <3>1, <3>3, <4>2, <4>3, <4>4
        <3> QED
            BY <3>2, <3>3
    <2> QED
        BY <2>1, <2>2
<1>5. f = [s \in SUBSET T |-> f[s]]
    OBVIOUS
<1> HIDE DEF f
<1>6. Sums(f, w, T)
    BY <1>4, <1>5 DEF Sums
<1> QED
    BY <1>2, <1>6 DEF Bad

LEMMA SumIsOne ==
    ASSUME NEW w, NEW S, IsFiniteSet(S)
    PROVE  \E f : Sums(f, w, S) /\ SumFunctionOnSet(w, S) = f[S]
<1> DEFINE Rec(f) == f = [s \in SUBSET S |-> IF s = {} THEN 0 ELSE w[AnyOf(s)] + f[s \ {AnyOf(s)}]]
           it == CHOOSE f : Rec(f)
<1>1. \E f : Rec(f)
    <2>1. PICK f : Sums(f, w, S)
        BY SumsExist
    <2>2. f = [s \in SUBSET S |-> f[s]]
        BY <2>1 DEF Sums
    <2>3. \A s \in SUBSET S : f[s] = IF s = {} THEN 0 ELSE w[AnyOf(s)] + f[s \ {AnyOf(s)}]
        BY <2>1 DEF Sums
    <2>4. Rec(f)
        BY <2>2, <2>3
    <2> QED
        BY <2>4
<1>2. Rec(it)
    BY <1>1
<1>3. SumFunctionOnSet(w, S) = it[S]
    BY DEF SumFunctionOnSet, FoldFunctionOnSet, MapThenFoldSet, AnyOf
<1> HIDE DEF it
<1>4. Sums(it, w, S)
    BY <1>2 DEF Sums
<1> QED
    BY <1>3, <1>4

\* The sum of any terms of w: none is 0, and it does not matter which is added last.
LEMMA SumOfTerms ==
    ASSUME NEW w, NEW S, IsFiniteSet(S), \A x \in S : w[x] \in Int
    PROVE  /\ SumFunctionOnSet(w, {}) = 0
           /\ SumFunctionOnSet(w, S) \in Int
           /\ \A x \in S : SumFunctionOnSet(w, S) = w[x] + SumFunctionOnSet(w, S \ {x})
<1>1. PICK f : Sums(f, w, S)
    BY SumsExist
<1>2. ASSUME NEW T \in SUBSET S PROVE SumFunctionOnSet(w, T) = f[T] /\ IsFiniteSet(T)
    <2>1. IsFiniteSet(T)
        BY FS_Subset
    <2>2. PICK g : Sums(g, w, T) /\ SumFunctionOnSet(w, T) = g[T]
        BY <2>1, SumIsOne
    <2>3. f[T] = g[T]
        BY <1>1, <2>2, SumsAgree
    <2> QED
        BY <2>1, <2>2, <2>3
<1>3. f[{}] = 0 /\ {} \in SUBSET S
    BY <1>1 DEF Sums
<1>4. ASSUME NEW T \in SUBSET S PROVE f[T] \in Int
    <2> DEFINE Bad == {t \in SUBSET S : f[t] \notin Int}
    <2>1. Bad \in SUBSET SUBSET S
        OBVIOUS
    <2> HIDE DEF Bad
    <2>2. ASSUME Bad # {} PROVE FALSE
        <3>1. PICK s \in Bad : \A t \in Bad : t \subseteq s => t = s
            BY <2>1, <2>2, LeastSubset
        <3>2. s \in SUBSET S /\ f[s] \notin Int
            BY <3>1 DEF Bad
        <3>3. s # {}
            BY <1>3, <3>2
        <3>4. AnyOf(s) \in s
            BY <3>3, AnyIsIn
        <3> DEFINE r == s \ {AnyOf(s)}
        <3>5. r \in SUBSET S /\ r \subseteq s /\ r # s
            BY <3>2, <3>4
        <3>6. f[r] \in Int
            BY <3>1, <3>5 DEF Bad
        <3>7. f[s] = w[AnyOf(s)] + f[r] /\ w[AnyOf(s)] \in Int
            BY <1>1, <3>2, <3>3, <3>4 DEF Sums
        <3> QED
            BY <3>2, <3>6, <3>7
    <2> QED
        BY <2>2 DEF Bad
<1>5. ASSUME NEW T \in SUBSET S, NEW x \in T PROVE f[T] = w[x] + f[T \ {x}]
    <2> DEFINE Bad == {t \in SUBSET S : \E y \in t : f[t] # w[y] + f[t \ {y}]}
    <2>1. Bad \in SUBSET SUBSET S
        OBVIOUS
    <2> HIDE DEF Bad
    <2>2. ASSUME Bad # {} PROVE FALSE
        <3>1. PICK s \in Bad : \A t \in Bad : t \subseteq s => t = s
            BY <2>1, <2>2, LeastSubset
        <3>2. PICK y \in s : f[s] # w[y] + f[s \ {y}]
            BY <3>1 DEF Bad
        <3>3. s \in SUBSET S
            BY <3>1 DEF Bad
        <3> DEFINE a == AnyOf(s)
        <3>4. a \in s /\ f[s] = w[a] + f[s \ {a}]
            BY <1>1, <3>2, <3>3, AnyIsIn DEF Sums
        <3> HIDE DEF a
        <3>5. a # y
            BY <3>2, <3>4
        <3>6. s \ {a} \in SUBSET S /\ s \ {a} \notin Bad /\ y \in s \ {a}
            BY <3>1, <3>2, <3>3, <3>4, <3>5
        <3>7. s \ {y} \in SUBSET S /\ s \ {y} \notin Bad /\ a \in s \ {y}
            BY <3>1, <3>2, <3>3, <3>4, <3>5
        <3>8. f[s \ {a}] = w[y] + f[(s \ {a}) \ {y}]
            BY <3>6 DEF Bad
        <3>9. f[s \ {y}] = w[a] + f[(s \ {y}) \ {a}]
            BY <3>7 DEF Bad
        <3> DEFINE u == (s \ {a}) \ {y}
        <3>10. u = (s \ {y}) \ {a} /\ u \in SUBSET S
            BY <3>3
        <3> HIDE DEF u
        <3>11. f[s \ {a}] = w[y] + f[u] /\ f[s \ {y}] = w[a] + f[u]
            BY <3>8, <3>9, <3>10 DEF u
        <3>12. w[a] \in Int /\ w[y] \in Int /\ f[u] \in Int
            BY <1>4, <3>2, <3>3, <3>4, <3>10
        <3>13. f[s] = w[a] + (w[y] + f[u]) /\ f[s] # w[y] + (w[a] + f[u])
            BY <3>2, <3>4, <3>11
        <3> QED
            BY <3>12, <3>13
    <2> QED
        BY <2>2 DEF Bad
<1>6. SumFunctionOnSet(w, {}) = 0
    BY <1>2, <1>3
<1>7. SumFunctionOnSet(w, S) = f[S] /\ f[S] \in Int
    BY <1>2, <1>4
<1>8. ASSUME NEW x \in S PROVE SumFunctionOnSet(w, S) = w[x] + SumFunctionOnSet(w, S \ {x})
    <2>1. S \ {x} \in SUBSET S
        OBVIOUS
    <2>2. SumFunctionOnSet(w, S \ {x}) = f[S \ {x}]
        BY <1>2, <2>1
    <2>3. f[S] = w[x] + f[S \ {x}]
        BY <1>5
    <2> QED
        BY <1>7, <2>2, <2>3
<1> QED
    BY <1>6, <1>7, <1>8

\* A sum of natural numbers is one, and no less than any of its terms.
LEMMA SumOfNaturals ==
    ASSUME NEW w, NEW S, IsFiniteSet(S), \A x \in S : w[x] \in Nat
    PROVE  /\ SumFunctionOnSet(w, S) \in Nat
           /\ \A x \in S : w[x] <= SumFunctionOnSet(w, S)
<1>1. ASSUME NEW T \in SUBSET S PROVE SumFunctionOnSet(w, T) \in Nat
    <2> DEFINE Bad == {t \in SUBSET S : SumFunctionOnSet(w, t) \notin Nat}
    <2>1. Bad \in SUBSET SUBSET S
        OBVIOUS
    <2> HIDE DEF Bad
    <2>2. ASSUME Bad # {} PROVE FALSE
        <3>1. PICK t \in Bad : \A u \in Bad : u \subseteq t => u = t
            BY <2>1, <2>2, LeastSubset
        <3>2. t \in SUBSET S /\ SumFunctionOnSet(w, t) \notin Nat
            BY <3>1 DEF Bad
        <3>3. IsFiniteSet(t) /\ \A x \in t : w[x] \in Int /\ w[x] \in Nat
            BY <3>2, FS_Subset
        <3>4. t # {}
            BY <3>2, <3>3, SumOfTerms
        <3>5. PICK x \in t : TRUE
            BY <3>4
        <3>6. SumFunctionOnSet(w, t) = w[x] + SumFunctionOnSet(w, t \ {x})
            BY <3>3, SumOfTerms
        <3>7. t \ {x} \in SUBSET S /\ t \ {x} \notin Bad
            BY <3>1, <3>2
        <3>8. SumFunctionOnSet(w, t \ {x}) \in Nat
            BY <3>7 DEF Bad
        <3> QED
            BY <3>2, <3>3, <3>6, <3>8
    <2> QED
        BY <2>2 DEF Bad
<1>2. ASSUME NEW x \in S PROVE w[x] <= SumFunctionOnSet(w, S)
    <2>1. \A y \in S : w[y] \in Int
        OBVIOUS
    <2>2. SumFunctionOnSet(w, S) = w[x] + SumFunctionOnSet(w, S \ {x})
        BY <2>1, SumOfTerms
    <2>3. SumFunctionOnSet(w, S \ {x}) \in Nat
        BY <1>1
    <2> QED
        BY <2>2, <2>3
<1> QED
    BY <1>1, <1>2

\* The same of SumFunction, whose terms are those of all its arguments
LEMMA SumOfAll ==
    ASSUME NEW w, IsFiniteSet(DOMAIN w), \A x \in DOMAIN w : w[x] \in Nat
    PROVE  /\ SumFunction(w) \in Nat
           /\ \A x \in DOMAIN w : w[x] <= SumFunction(w)
BY SumOfNaturals DEF SumFunction

LEMMA FiniteImage ==
    ASSUME NEW S, IsFiniteSet(S), NEW f
    PROVE  IsFiniteSet({f[x] : x \in S})
<1> DEFINE g == [x \in S |-> f[x]]
<1>1. g \in Surjection(S, {f[x] : x \in S})
    BY DEF Surjection
<1> QED
    BY <1>1, FS_Surjection

LEMMA Few ==
    /\ \A a, b : IsFiniteSet({a}) /\ IsFiniteSet({a, b})
    /\ \A a, b, c : IsFiniteSet({a, b, c})
    /\ \A a, b, c, d : IsFiniteSet({a, b, c, d})
    /\ \A a, b, c, d, e : IsFiniteSet({a, b, c, d, e})
    /\ \A a, b, c, d, e, f : IsFiniteSet({a, b, c, d, e, f})
    /\ \A a, b, c, d, e, f, g : IsFiniteSet({a, b, c, d, e, f, g})
<1>1. \A S, x : IsFiniteSet(S) => IsFiniteSet(S \cup {x})
    BY FS_AddElement
<1>2. \A a : IsFiniteSet({a})
    BY FS_Singleton
<1>3. \A a, b : IsFiniteSet({a, b})
    <2> TAKE a, b
    <2>1. IsFiniteSet({a} \cup {b})
        BY <1>1, <1>2
    <2>2. {a, b} = {a} \cup {b}
        OBVIOUS
    <2> QED
        BY <2>1, <2>2
<1>4. \A a, b, c : IsFiniteSet({a, b, c})
    <2> TAKE a, b, c
    <2>1. IsFiniteSet({a, b} \cup {c})
        BY <1>1, <1>3
    <2>2. {a, b, c} = {a, b} \cup {c}
        OBVIOUS
    <2> QED
        BY <2>1, <2>2
<1>5. \A a, b, c, d : IsFiniteSet({a, b, c, d})
    <2> TAKE a, b, c, d
    <2>1. IsFiniteSet({a, b, c} \cup {d})
        BY <1>1, <1>4
    <2>2. {a, b, c, d} = {a, b, c} \cup {d}
        OBVIOUS
    <2> QED
        BY <2>1, <2>2
<1>6. \A a, b, c, d, e : IsFiniteSet({a, b, c, d, e})
    <2> TAKE a, b, c, d, e
    <2>1. IsFiniteSet({a, b, c, d} \cup {e})
        BY <1>1, <1>5
    <2>2. {a, b, c, d, e} = {a, b, c, d} \cup {e}
        OBVIOUS
    <2> QED
        BY <2>1, <2>2
<1>7. \A a, b, c, d, e, f : IsFiniteSet({a, b, c, d, e, f})
    <2> TAKE a, b, c, d, e, f
    <2>1. IsFiniteSet({a, b, c, d, e} \cup {f})
        BY <1>1, <1>6
    <2>2. {a, b, c, d, e, f} = {a, b, c, d, e} \cup {f}
        OBVIOUS
    <2> QED
        BY <2>1, <2>2
<1>8. \A a, b, c, d, e, f, g : IsFiniteSet({a, b, c, d, e, f, g})
    <2> TAKE a, b, c, d, e, f, g
    <2>1. IsFiniteSet({a, b, c, d, e, f} \cup {g})
        BY <1>1, <1>7
    <2>2. {a, b, c, d, e, f, g} = {a, b, c, d, e, f} \cup {g}
        OBVIOUS
    <2> QED
        BY <2>1, <2>2
<1> QED
    BY <1>2, <1>3, <1>4, <1>5, <1>6, <1>7, <1>8

------------------------------------------------------------------------------
(* What is detected is finite, and no detection more certain than 100.         *)

LEMMA ProfileParts ==
    \A name, role, partial, selectors :
        /\ Profile(name, role, partial, selectors).name = name
        /\ Profile(name, role, partial, selectors).selectors = selectors
BY DEF Profile

LEMMA FewSelectors ==
    \A name, role, partial, selectors :
        IsFiniteSet(selectors) => IsFiniteSet(Profile(name, role, partial, selectors).selectors)
BY ProfileParts

\* Every profile has a few selectors, every category a few profiles.
LEMMA CatalogueFinite ==
    ASSUME NEW c \in DOMAIN Catalogue
    PROVE  /\ IsFiniteSet(Catalogue[c].profiles)
           /\ \A p \in Catalogue[c].profiles : IsFiniteSet(p.selectors)
           /\ Catalogue[c].base \in Nat /\ Catalogue[c].hit \in Nat /\ Catalogue[c].listed \in 0 .. 100
<1> DEFINE Fine(P) == IsFiniteSet(P) /\ \A p \in P : IsFiniteSet(p.selectors)
<1>1. IsFiniteSet(Pair) /\ IsFiniteSet(ERC4626)
    BY Few DEF Pair, ERC4626
<1>2. Fine(DexProfiles)
    <2>1. IsFiniteSet(DexProfiles)
        BY Few, Zenon DEF DexProfiles
    <2>2. \A p \in DexProfiles : IsFiniteSet(p.selectors)
        BY <1>1, Few, FewSelectors, Zenon DEF DexProfiles
    <2> QED
        BY <2>1, <2>2
<1>3. Fine(LendingProfiles)
    <2>1. IsFiniteSet(LendingProfiles)
        BY Few, Zenon DEF LendingProfiles
    <2>2. \A p \in LendingProfiles : IsFiniteSet(p.selectors)
        BY Few, FewSelectors, Zenon DEF LendingProfiles, Named
    <2> QED
        BY <2>1, <2>2
<1>4. Fine(OracleProfiles)
    <2>1. IsFiniteSet(OracleProfiles)
        BY Few, Zenon DEF OracleProfiles
    <2>2. \A p \in OracleProfiles : IsFiniteSet(p.selectors)
        BY Few, FewSelectors, Zenon DEF OracleProfiles, Named
    <2> QED
        BY <2>1, <2>2
<1>5. Fine(BridgeProfiles)
    <2>1. IsFiniteSet(BridgeProfiles)
        BY Few, Zenon DEF BridgeProfiles
    <2>2. \A p \in BridgeProfiles : IsFiniteSet(p.selectors)
        BY Few, FewSelectors, Zenon DEF BridgeProfiles, Named
    <2> QED
        BY <2>1, <2>2
<1>6. Fine(VaultProfiles)
    <2>1. IsFiniteSet(VaultProfiles)
        BY Few, Zenon DEF VaultProfiles
    <2>2. \A p \in VaultProfiles : IsFiniteSet(p.selectors)
        BY <1>1, Few, FewSelectors, Zenon DEF VaultProfiles, Named
    <2> QED
        BY <2>1, <2>2
<1>7. Fine(NftProfiles)
    <2>1. IsFiniteSet(NftProfiles)
        BY Few, Zenon DEF NftProfiles
    <2>2. \A p \in NftProfiles : IsFiniteSet(p.selectors)
        BY Few, FewSelectors, Zenon DEF NftProfiles, Named
    <2> QED
        BY <2>1, <2>2
<1>8. Fine(GovernanceProfiles)
    <2>1. IsFiniteSet(GovernanceProfiles)
        BY Few, Zenon DEF GovernanceProfiles
    <2>2. \A p \in GovernanceProfiles : IsFiniteSet(p.selectors)
        BY Few, FewSelectors, Zenon DEF GovernanceProfiles, Named
    <2> QED
        BY <2>1, <2>2
<1> HIDE DEF Fine
<1>9. Fine(Catalogue[c].profiles)
    BY <1>2, <1>3, <1>4, <1>5, <1>6, <1>7, <1>8 DEF Catalogue, Category
<1>10. Catalogue[c].base \in Nat /\ Catalogue[c].hit \in Nat /\ Catalogue[c].listed \in 0 .. 100
    BY DEF Catalogue, Category
<1> QED
    BY <1>9, <1>10 DEF Fine

LEMMA ItemParts ==
    \A name, role, confidence :
        LET i == Item(name, role, confidence)
        IN  i.name = name /\ i.role = role /\ i.confidence = confidence
BY DEF Item

\* How certain the match of a profile is
LEMMA ConfidenceBounded ==
    ASSUME NEW c \in DOMAIN Catalogue, NEW x, NEW p \in Matched(c, x)
    PROVE  Confidence(c, p, x) \in Int /\ Confidence(c, p, x) <= 100
<1>1. p \in Catalogue[c].profiles
    BY DEF Matched
<1>2. IsFiniteSet(p.selectors) /\ Catalogue[c].base \in Nat /\ Catalogue[c].hit \in Nat
    BY <1>1, CatalogueFinite
<1>3. Hits(p, x) \in Nat
    BY <1>2, FS_Intersection, FS_CardinalityType DEF Hits
<1> QED
    BY <1>2, <1>3 DEF Confidence, AtMost100

\* Items of category c
Items(S, c) ==
    /\ IsFiniteSet(S)
    /\ \A i \in S : i.confidence \in Int /\ i.confidence <= 100 /\ i.name \in ProfileNames(c)

LEMMA BestItems ==
    ASSUME NEW c, NEW S, Items(S, c)
    PROVE  Items(Best(S), c)
<1>1. Best(S) \in SUBSET S
    BY DEF Best
<1> QED
    BY <1>1, FS_Subset DEF Items

LEMMA BothItems ==
    ASSUME NEW c, NEW S, NEW T, Items(S, c), Items(T, c)
    PROVE  Items(S \cup T, c)
BY FS_Union DEF Items

\* The known deployments of a contract, and what its code resembles
LEMMA RegisteredItems ==
    ASSUME NEW c \in DOMAIN Catalogue, NEW f, IsFacts(f)
    PROVE  Items(Registered(c, f), c)
<1> DEFINE S == {e \in f.deployed : e.category = c}
           g == [d \in S |-> Item(d.name, d.role, Catalogue[c].listed)]
<1>1. S \in SUBSET f.deployed /\ IsFiniteSet(f.deployed)
    BY DEF IsFacts
<1>2. IsFiniteSet(S)
    BY <1>1, FS_Subset
<1>3. Registered(c, f) = {g[d] : d \in S}
    BY DEF Registered
<1>9. \A h : IsFiniteSet({h[d] : d \in S})
    BY <1>2, FiniteImage
<1>4. ASSUME NEW d \in S PROVE d.name \in ProfileNames(c)
    BY <1>1 DEF IsFacts
<1>5. Catalogue[c].listed \in 0 .. 100
    BY CatalogueFinite
<1>6. IsFiniteSet(Registered(c, f))
    BY <1>3, <1>9, Zenon
<1> HIDE DEF S
<1>7. \A i \in Registered(c, f) : \E d \in S : i = Item(d.name, d.role, Catalogue[c].listed)
    BY <1>3
<1> QED
    BY <1>4, <1>5, <1>6, <1>7, ItemParts DEF Items

LEMMA MatchedFinite ==
    ASSUME NEW c \in DOMAIN Catalogue, NEW x
    PROVE  IsFiniteSet(Matched(c, x)) /\ \A p \in Matched(c, x) : p.name \in ProfileNames(c)
<1>1. Matched(c, x) \in SUBSET Catalogue[c].profiles
    BY DEF Matched
<1> QED
    BY <1>1, CatalogueFinite, FS_Subset DEF ProfileNames

LEMMA DetectedItems ==
    ASSUME NEW c \in DOMAIN Catalogue, NEW f, IsFacts(f)
    PROVE  Items(Detect(c, f), c)
<1> DEFINE M == Matched(c, f)
           Role(p) == IF p.selectors \subseteq f.code THEN p.role ELSE p.partial
           g == [p \in M |-> Item(p.name, Role(p), Confidence(c, p, f))]
           S == {g[p] : p \in M}
<1>1. IsFiniteSet(S)
    BY MatchedFinite, FiniteImage
<1>2. ASSUME NEW p \in M PROVE g[p].confidence \in Int /\ g[p].confidence <= 100 /\ g[p].name \in ProfileNames(c)
    BY ConfidenceBounded, MatchedFinite, ItemParts
<1>3. Items(S, c)
    BY <1>1, <1>2 DEF Items
<1>4. Detect(c, f) = Best(Registered(c, f) \cup S)
    BY DEF Detect
<1> HIDE DEF S
<1> QED
    BY <1>3, <1>4, RegisteredItems, BestItems, BothItems

LEMMA DexItems ==
    ASSUME NEW f, IsFacts(f)
    PROVE  Items(DetectDexes(f), "dex")
<1> DEFINE M == Matched("dex", f)
           g == [p \in M |-> Item(p.name, "factory", Confidence("dex", p, f) - 5)]
           S == {g[p] : p \in M}
           factories == IF {"getPair", "getPool"} \cap f.code = {} THEN {} ELSE S
<1>0. "dex" \in DOMAIN Catalogue
    BY DEF Catalogue
<1>1. IsFiniteSet(S)
    BY <1>0, MatchedFinite, FiniteImage
<1>2. ASSUME NEW p \in M PROVE g[p].confidence \in Int /\ g[p].confidence <= 100 /\ g[p].name \in ProfileNames("dex")
    BY <1>0, ConfidenceBounded, MatchedFinite, ItemParts
<1>3. Items(factories, "dex")
    BY <1>1, <1>2, FS_EmptySet DEF Items
<1>4. DetectDexes(f) = Best(Detect("dex", f) \cup factories)
    BY DEF DetectDexes
<1> HIDE DEF factories
<1> QED
    BY <1>0, <1>3, <1>4, DetectedItems, BestItems, BothItems

IntegrationNames == {"Uniswap V2 Pair", "Chainlink Aggregator", "Gnosis Safe"}
Detection(d) ==
    /\ \A c \in DOMAIN CategoryType : Items(d[c], c)
    /\ d.integrations \subseteq IntegrationNames

LEMMA IntegrationsNamed == \A code : Integrations(code) \subseteq IntegrationNames
BY Zenon DEF Integrations, IntegrationNames

\* What an analysis found is a detection, whether detection succeeded or not.
LEMMA AnalysisDetects ==
    ASSUME NEW f, IsFacts(f), NEW r
    PROVE  Detection(AnalysisOf(f, r).intelligence.found) \/ ~f.contract
<1> SUFFICES ASSUME f.contract PROVE Detection(AnalysisOf(f, r).intelligence.found)
    OBVIOUS
<1> DEFINE I == IF r.detected THEN Intelligence(f, r.proxy, Timelocked(f)) ELSE NoIntelligence
<1>1. AnalysisOf(f, r).intelligence = I
    BY DEF AnalysisOf, Analysis
<1>2. DOMAIN CategoryType = DOMAIN Catalogue
    BY DEF CategoryType, Catalogue
<1>3. DOMAIN CategoryType = {"dex", "lending", "oracle", "bridge", "vault", "governance", "nft"}
    BY DEF CategoryType
<1>4. Detection(NoIntelligence.found)
    <2>1. \A c : Items({}, c)
        BY FS_EmptySet DEF Items
    <2> QED
        BY <1>3, <2>1 DEF NoIntelligence, Detection
<1>5. Detection(Intelligence(f, r.proxy, Timelocked(f)).found)
    <2> DEFINE d == Intelligence(f, r.proxy, Timelocked(f)).found
    <2>1. /\ d.dex = DetectDexes(f) /\ d.lending = Detect("lending", f) /\ d.oracle = Detect("oracle", f)
          /\ d.bridge = Detect("bridge", f) /\ d.vault = Detect("vault", f) /\ d.nft = Detect("nft", f)
          /\ d.governance = Detect("governance", f) /\ d.integrations = Integrations(f.code)
        BY DEF Intelligence, DetectLending, DetectOracles, DetectBridges, DetectVaults, DetectNfts, DetectGovernance
    <2> HIDE DEF d
    <2>2. \A c \in DOMAIN CategoryType : c # "dex" => Items(Detect(c, f), c)
        BY <1>2, DetectedItems
    <2>3. \A c \in DOMAIN CategoryType : Items(d[c], c)
        BY <1>3, <2>1, <2>2, DexItems
    <2>4. Detection(d)
        BY <2>1, <2>3, IntegrationsNamed DEF Detection
    <2> QED
        BY <2>4 DEF d
<1> QED
    BY <1>1, <1>4, <1>5

------------------------------------------------------------------------------
(* What a surface is drawn of is finite, so that it can be counted.            *)

LEMMA FiniteUnion == \A S, T : IsFiniteSet(S) /\ IsFiniteSet(T) => IsFiniteSet(S \cup T)
BY FS_Union

LEMMA Tagged ==
    ASSUME NEW S, IsFiniteSet(S)
    PROVE  /\ IsFiniteSet(Names(S))
           /\ \A t : IsFiniteSet({<<t, i.name>> : i \in S})
           /\ \A t : IsFiniteSet({<<t, i.name, i.role>> : i \in S})
           /\ \A t : IsFiniteSet({<<t, n>> : n \in S})
           /\ IsFiniteSet({<<GovernorKind(i.name), i.name>> : i \in S})
           /\ \A f : IsFiniteSet({<<"CAPABILITY_CONTROLLER", Controller(f, c)>> : c \in S})
<1> DEFINE image(f) == {f[x] : x \in S}
<1>1. \A f : IsFiniteSet(image(f))
    BY FiniteImage
<1>2. IsFiniteSet(Names(S))
    <2>1. Names(S) = image([i \in S |-> i.name])
        BY DEF Names
    <2> QED
        BY <1>1, <2>1, Zenon
<1>3. ASSUME NEW t PROVE IsFiniteSet({<<t, i.name>> : i \in S})
    <2>1. {<<t, i.name>> : i \in S} = image([i \in S |-> <<t, i.name>>])
        OBVIOUS
    <2> QED
        BY <1>1, <2>1, Zenon
<1>4. ASSUME NEW t PROVE IsFiniteSet({<<t, i.name, i.role>> : i \in S})
    <2>1. {<<t, i.name, i.role>> : i \in S} = image([i \in S |-> <<t, i.name, i.role>>])
        OBVIOUS
    <2> QED
        BY <1>1, <2>1, Zenon
<1>5. ASSUME NEW t PROVE IsFiniteSet({<<t, n>> : n \in S})
    <2>1. {<<t, n>> : n \in S} = image([n \in S |-> <<t, n>>])
        OBVIOUS
    <2> QED
        BY <1>1, <2>1, Zenon
<1>6. IsFiniteSet({<<GovernorKind(i.name), i.name>> : i \in S})
    <2>1. {<<GovernorKind(i.name), i.name>> : i \in S} = image([i \in S |-> <<GovernorKind(i.name), i.name>>])
        OBVIOUS
    <2> QED
        BY <1>1, <2>1, Zenon
<1>7. ASSUME NEW f PROVE IsFiniteSet({<<"CAPABILITY_CONTROLLER", Controller(f, c)>> : c \in S})
    <2>1. {<<"CAPABILITY_CONTROLLER", Controller(f, c)>> : c \in S}
            = image([c \in S |-> <<"CAPABILITY_CONTROLLER", Controller(f, c)>>])
        OBVIOUS
    <2> QED
        BY <1>1, <2>1, Zenon
<1> QED
    BY <1>2, <1>3, <1>4, <1>5, <1>6, <1>7

LEMMA FindingsFinite ==
    ASSUME NEW f, IsFacts(f)
    PROVE  /\ IsFiniteSet(f.abilities) /\ IsFiniteSet(f.wallet) /\ IsFiniteSet(f.controls)
           /\ IsFiniteSet(Evidence(f)) /\ Evidence(f) \subseteq Signals
<1>1. /\ f.abilities \in SUBSET Capabilities /\ f.wallet \in SUBSET WalletFindings
      /\ f.controls \in SUBSET Controls
    BY DEF IsFacts
<1>2. IsFiniteSet(Capabilities) /\ IsFiniteSet(WalletFindings) /\ IsFiniteSet(Controls)
    BY Few, Zenon DEF Capabilities, WalletFindings, Controls
<1>3. IsFiniteSet(f.abilities) /\ IsFiniteSet(f.wallet) /\ IsFiniteSet(f.controls)
    BY <1>1, <1>2, FS_Subset
<1>4. \A condition, signal : IsFiniteSet(When(condition, signal)) /\ When(condition, signal) \subseteq {signal}
    BY FS_EmptySet, FS_Singleton DEF When
<1>5. ASSUME f.contract PROVE IsFiniteSet(Evidence(f)) /\ Evidence(f) \subseteq Signals
    <2>1. IsFiniteSet(ProxyEvidence(f)) /\ ProxyEvidence(f) \subseteq Signals
        <3>1. IsFiniteSet({"upgradeable", "implementation_exposed"} \cup When(f.admin = NoAddress, "unknown_admin"))
            BY <1>4, Few, FiniteUnion, Zenon
        <3>2. IsFiniteSet(ProxyEvidence(f))
            BY <3>1, FS_EmptySet DEF ProxyEvidence
        <3> QED
            BY <3>2 DEF ProxyEvidence, When, Signals, Weights
    <2>2. IsFiniteSet(AdminEvidence(f)) /\ AdminEvidence(f) \subseteq Signals
        <3>1. AdminEvidence(f) \subseteq {"admin_timelock", "admin_multisig", "admin_contract", "admin_eoa"}
            BY DEF AdminEvidence
        <3>2. IsFiniteSet({"admin_timelock", "admin_multisig", "admin_contract", "admin_eoa"})
            BY Few, Zenon
        <3> QED
            BY <3>1, <3>2, FS_Subset DEF Signals, Weights
    <2>3. IsFiniteSet(HoneypotEvidence(f)) /\ HoneypotEvidence(f) \subseteq Signals
        <3>1. HoneypotEvidence(f) \in SUBSET f.controls
            BY DEF HoneypotEvidence
        <3> QED
            BY <1>1, <1>3, <3>1, FS_Subset DEF Controls, Signals, Weights
    <2>4. IsFiniteSet(SimulationEvidence(f)) /\ SimulationEvidence(f) \subseteq Signals
        <3>1. SimulationEvidence(f) \subseteq {"sim_buy_blocked", "sim_sell_blocked", "sim_high_buy_tax", "sim_high_sell_tax"}
            BY DEF SimulationEvidence, When
        <3>2. IsFiniteSet({"sim_buy_blocked", "sim_sell_blocked", "sim_high_buy_tax", "sim_high_sell_tax"})
            BY Few, Zenon
        <3> QED
            BY <3>1, <3>2, FS_Subset DEF Signals, Weights
    <2>5. IsFiniteSet(LiquidityEvidence(f.pool)) /\ LiquidityEvidence(f.pool) \subseteq Signals
        <3>1. LiquidityEvidence(f.pool) \subseteq {"no_liquidity", "low_liquidity", "unlocked_lp", "single_wallet_lp"}
            BY DEF LiquidityEvidence, When
        <3>2. IsFiniteSet({"no_liquidity", "low_liquidity", "unlocked_lp", "single_wallet_lp"})
            BY Few, Zenon
        <3> QED
            BY <3>1, <3>2, FS_Subset DEF Signals, Weights
    <2>6. f.abilities \subseteq Signals /\ f.wallet \subseteq Signals
        BY <1>1 DEF Capabilities, WalletFindings, Signals, Weights
    <2>7. Evidence(f) = ProxyEvidence(f) \cup AdminEvidence(f) \cup f.abilities \cup HoneypotEvidence(f)
                        \cup SimulationEvidence(f) \cup LiquidityEvidence(f.pool) \cup f.wallet
        BY <1>5 DEF Evidence
    <2>8. IsFiniteSet(Evidence(f))
        BY <1>3, <2>1, <2>2, <2>3, <2>4, <2>5, <2>7, FiniteUnion, Zenon
    <2> QED
        BY <2>1, <2>2, <2>3, <2>4, <2>5, <2>6, <2>7, <2>8
<1>6. ASSUME ~f.contract PROVE IsFiniteSet(Evidence(f)) /\ Evidence(f) \subseteq Signals
    BY <1>6, FS_Singleton DEF Evidence, Signals, Weights
<1> QED
    BY <1>3, <1>5, <1>6

\* The candidates, and so the relationships, are finite in number.
LEMMA CandidatesFinite ==
    ASSUME NEW f, IsFacts(f), NEW d, Detection(d)
    PROVE  IsFiniteSet(Candidates(f, d)) /\ IsFiniteSet(Relationships(Candidates(f, d)))
<1>1. \A condition, c : IsFiniteSet(If(condition, c))
    BY FS_EmptySet, FS_Singleton DEF If
<1>2. IsFiniteSet(IntegrationCandidates(d))
    <2> DEFINE of(c) == {<<c, i>> : i \in d[c]}
               all == UNION {of(c) : c \in DOMAIN CategoryType}
               C(p) == Candidate(CategoryRank[p[1]] + 100 - p[2].confidence, ItemNode(p[1], p[2]), ItemLabel(p[2]),
                                 CategoryType[p[1]], p[2].confidence)
               I(i) == Candidate(6000, <<"integration", i>>, <<i>>, "INTEGRATES", 75)
               S == d.integrations
    <2>1. DOMAIN CategoryType = {"dex", "lending", "oracle", "bridge", "vault", "governance", "nft"}
        BY DEF CategoryType
    <2>2. \A c \in DOMAIN CategoryType : IsFiniteSet(of(c))
        BY Tagged DEF Detection, Items
    <2>3. IntegrationCandidates(d) = {C(p) : p \in all} \cup {I(i) : i \in S}
        BY DEF IntegrationCandidates
    <2>4. IsFiniteSet(IntegrationNames)
        BY Few, Zenon DEF IntegrationNames
    <2>5. IsFiniteSet(S)
        BY <2>4, FS_Subset DEF Detection
    <2> HIDE DEF of, C, I, S
    <2>6. all = of("dex") \cup of("lending") \cup of("oracle") \cup of("bridge") \cup of("vault")
                \cup of("governance") \cup of("nft")
        BY <2>1
    <2>7. IsFiniteSet(of("dex") \cup of("lending") \cup of("oracle") \cup of("bridge") \cup of("vault")
                      \cup of("governance") \cup of("nft"))
        BY <2>1, <2>2, FiniteUnion
    <2>8. IsFiniteSet(all)
        BY <2>6, <2>7, Zenon
    <2> HIDE DEF all
    <2>9. \A h : IsFiniteSet({h[p] : p \in all}) /\ IsFiniteSet({h[i] : i \in S})
        BY <2>5, <2>8, FiniteImage
    <2>10. /\ {C(p) : p \in all} = {[p \in all |-> C(p)][e] : e \in all}
           /\ {I(i) : i \in S} = {[i \in S |-> I(i)][e] : e \in S}
        OBVIOUS
    <2>11. IsFiniteSet({C(p) : p \in all}) /\ IsFiniteSet({I(i) : i \in S})
        BY <2>9, <2>10, Zenon
    <2> QED
        BY <2>3, <2>11, FiniteUnion, Zenon
<1>3. IsFiniteSet(GovernanceCandidates(f))
    <2> DEFINE authority == UpgradeAuthority(f)
               kind == GovernanceType(f)
               A == If(f.governed # NoAddress /\ ~f.renounced,
                       Candidate(8000, <<"wallet", f.governed>>, <<"Governance_Owner">>, "OWNED_BY", 88))
               B == If(Timelocked(f),
                       Candidate(8001, <<"governance", "timelock">>, <<"Timelock_Controller">>, "GOVERNED_BY", 85))
               C == If(IsKnown(authority),
                       Candidate(8002, <<"governance", authority>>, <<"Upgrade_Authority", authority>>, "UPGRADEABLE_BY", 82))
               D == If(IsKnown(kind),
                       Candidate(8003, <<"governance", kind>>, <<"Governance", kind>>, "GOVERNED_BY", 80))
    <2>1. IsFiniteSet(A) /\ IsFiniteSet(B) /\ IsFiniteSet(C) /\ IsFiniteSet(D)
        BY <1>1
    <2>2. GovernanceCandidates(f) = A \cup B \cup C \cup D
        BY DEF GovernanceCandidates
    <2> HIDE DEF A, B, C, D
    <2> QED
        BY <2>1, <2>2, FiniteUnion
<1>4. IsFiniteSet(WalletCandidates(f))
    <2> DEFINE link(rank, address, label, type) ==
                    If(address # NoAddress, Candidate(rank, <<"wallet", address>>, <<label>>, type, 86))
               A == link(9000, f.creator, "Deployer", "CREATED_BY")
               B == link(9001, f.creator, "Creator", "CREATED_BY")
               C == link(9002, WalletOwner(f), "Owner", "OWNED_BY")
               D == link(9003, f.admin, "Proxy_Admin", "UPGRADEABLE_BY")
    <2>1. IsFiniteSet(A) /\ IsFiniteSet(B) /\ IsFiniteSet(C) /\ IsFiniteSet(D)
        BY <1>1
    <2>2. WalletCandidates(f) = A \cup B \cup C \cup D
        BY DEF WalletCandidates
    <2> HIDE DEF A, B, C, D
    <2> QED
        BY <2>1, <2>2, FiniteUnion
<1>5. IsFiniteSet(LiquidityCandidates(f))
    <2>1. CASE f.pool = NoPool
        BY <2>1, FS_EmptySet DEF LiquidityCandidates
    <2>2. CASE f.pool # NoPool
        <3> DEFINE dex == Candidate(10000, <<"dex", f.pool.dex>>, <<f.pool.dex>>, "TRADES_ON", 84)
                   pair == Candidate(10001, <<"liquidity", "pair">>, <<"Primary_Liquidity_Pool">>, "DEPENDS_ON", 83)
        <3>1. LiquidityCandidates(f) = {dex, pair}
            BY <2>2 DEF LiquidityCandidates
        <3> HIDE DEF dex, pair
        <3> QED
            BY <3>1, Few
    <2> QED
        BY <2>1, <2>2
<1>6. IsFiniteSet(ProxyCandidates(f))
    BY <1>1, FiniteUnion DEF ProxyCandidates
<1>7. IsFiniteSet(CapabilityCandidates(f))
    <2> DEFINE S == f.abilities
               controlled(c) == Candidate(12000 + CapabilityRank[c], <<"wallet", Controller(f, c)>>, <<c, "Controller">>,
                                          "GOVERNED_BY", 78)
    <2>1. CapabilityCandidates(f) = {controlled(c) : c \in S}
        BY DEF CapabilityCandidates
    <2>2. IsFiniteSet(S)
        BY FindingsFinite
    <2> HIDE DEF controlled, S
    <2>3. \A h : IsFiniteSet({h[c] : c \in S})
        BY <2>2, FiniteImage
    <2>4. {controlled(c) : c \in S} = {[c \in S |-> controlled(c)][e] : e \in S}
        OBVIOUS
    <2> QED
        BY <2>1, <2>3, <2>4, Zenon
<1>8. IsFiniteSet(SourceCandidates(f))
    BY <1>1 DEF SourceCandidates
<1>9. IsFiniteSet(Candidates(f, d))
    BY <1>2, <1>3, <1>4, <1>5, <1>6, <1>7, <1>8, FiniteUnion, Zenon DEF Candidates
<1>10. Relationships(Candidates(f, d)) \in SUBSET Candidates(f, d)
    BY AloneIsKept
<1> QED
    BY <1>9, <1>10, FS_Subset

\* What is counted of a threat surface
SurfaceFinite(s) ==
    /\ IsFiniteSet(s.dependencies) /\ IsFiniteSet(s.boundaries) /\ IsFiniteSet(s.privileged)
    /\ IsFiniteSet(s.assets) /\ IsFiniteSet(s.paths)

LEMMA DependenciesFinite ==
    ASSUME NEW f, NEW d, Detection(d)
    PROVE  IsFiniteSet(Dependencies(f, d))
<1> DEFINE Drawn == {"bridge", "oracle", "dex", "vault", "governance", "lending"}
           of(c) == {<<c, n>> : n \in Names(d[c])}
           A == UNION {of(c) : c \in Drawn}
           B == IF IsProxy(f, d) THEN {<<"proxy", ProxyName(d)>>} ELSE {}
           C == IF f.pool # NoPool THEN {<<"dex", f.pool.dex>>} ELSE {}
           D == IF IsKnown(GovernanceType(f)) THEN {<<"governance", GovernanceType(f)>>} ELSE {}
<1>1. IsFiniteSet({}) /\ \A x : IsFiniteSet({x})
    BY FS_EmptySet, FS_Singleton
<1>2. IsFiniteSet(B) /\ IsFiniteSet(C) /\ IsFiniteSet(D)
    BY <1>1
<1>3. \A c \in Drawn : IsFiniteSet(of(c))
    <2>1. DOMAIN CategoryType = Drawn \cup {"nft"}
        BY DEF CategoryType
    <2>2. \A c \in Drawn : IsFiniteSet(Names(d[c]))
        BY <2>1, Tagged DEF Detection, Items
    <2> QED
        BY <2>2, Tagged
<1>4. Dependencies(f, d) = A \cup B \cup C \cup D
    BY DEF Dependencies
<1> HIDE DEF of, B, C, D
<1>5. A = of("bridge") \cup of("oracle") \cup of("dex") \cup of("vault") \cup of("governance") \cup of("lending")
    OBVIOUS
<1>6. IsFiniteSet(of("bridge") \cup of("oracle") \cup of("dex") \cup of("vault") \cup of("governance") \cup of("lending"))
    BY <1>3, FiniteUnion
<1>7. IsFiniteSet(A)
    BY <1>5, <1>6, Zenon
<1> HIDE DEF A
<1> QED
    BY <1>2, <1>4, <1>7, FiniteUnion

LEMMA BoundariesFinite ==
    ASSUME NEW f, NEW d, Detection(d)
    PROVE  IsFiniteSet(TrustBoundaries(f, d))
<1> DEFINE A == {<<"ORACLE", i.name>> : i \in d.oracle}
           B == {<<"BRIDGE", i.name, i.role>> : i \in d.bridge}
           C == {<<"VAULT", i.name>> : i \in d.vault}
           D == {<<"ROUTER", i.name, i.role>> : i \in d.dex}
           E == IF f.pool # NoPool THEN {<<"ROUTER", f.pool.dex>>} ELSE {}
           F == {<<"GOVERNOR", i.name>> : i \in d.governance}
           G == IF Timelocked(f) THEN {<<"TIMELOCK">>} ELSE {}
           H == IF WalletOwner(f) # NoAddress /\ ~f.renounced THEN {<<"OWNER">>} ELSE {}
           I == IF "treasury_multisig" \in f.wallet THEN {<<"MULTISIG">>} ELSE {}
           J == IF IsProxy(f, d) THEN {<<"UPGRADEABLE_PROXY", ProxyName(d)>>} ELSE {}
<1>1. IsFiniteSet({}) /\ \A x : IsFiniteSet({x})
    BY FS_EmptySet, FS_Singleton
<1>2. /\ IsFiniteSet(d.oracle) /\ IsFiniteSet(d.bridge) /\ IsFiniteSet(d.vault) /\ IsFiniteSet(d.dex)
      /\ IsFiniteSet(d.governance)
    BY DEF Detection, Items, CategoryType
<1>3. IsFiniteSet(A) /\ IsFiniteSet(B) /\ IsFiniteSet(C) /\ IsFiniteSet(D) /\ IsFiniteSet(F)
    BY <1>2, Tagged
<1>4. IsFiniteSet(E) /\ IsFiniteSet(G) /\ IsFiniteSet(H) /\ IsFiniteSet(I) /\ IsFiniteSet(J)
    BY <1>1
<1>5. TrustBoundaries(f, d) = A \cup B \cup C \cup D \cup E \cup F \cup G \cup H \cup I \cup J
    BY DEF TrustBoundaries
<1> HIDE DEF A, B, C, D, E, F, G, H, I, J
<1>6. IsFiniteSet(A \cup B \cup C \cup D \cup E)
    BY <1>3, <1>4, FiniteUnion
<1>7. IsFiniteSet(A \cup B \cup C \cup D \cup E \cup F \cup G \cup H \cup I \cup J)
    BY <1>3, <1>4, <1>6, FiniteUnion
<1> QED
    BY <1>5, <1>7

LEMMA PrivilegedFinite ==
    ASSUME NEW f, IsFacts(f), NEW d, Detection(d)
    PROVE  IsFiniteSet(PrivilegedEntities(f, d))
<1> DEFINE relayers == {b \in d.bridge : b.role \in {"endpoint", "messenger", "router"}}
           owners == {WalletOwner(f), f.governed} \ {NoAddress}
           A == IF Upgradeable(f) /\ f.admin # NoAddress THEN {<<"PROXY_ADMIN", f.admin>>} ELSE {}
           B == IF Timelocked(f) THEN {<<"TIMELOCK">>} ELSE {}
           C == {<<GovernorKind(i.name), i.name>> : i \in d.governance}
           D == IF "treasury_multisig" \in f.wallet THEN {<<"MULTISIG">>} ELSE {}
           E == {<<"BRIDGE_RELAYER", i.name>> : i \in relayers}
           F == {<<"ORACLE_ADMIN", i.name>> : i \in d.oracle}
           G == {<<"CAPABILITY_CONTROLLER", Controller(f, c)>> : c \in f.abilities}
           H == {<<"OWNER", a>> : a \in owners}
           I == IF f.renounced THEN {} ELSE H
<1>1. IsFiniteSet({}) /\ \A x : IsFiniteSet({x})
    BY FS_EmptySet, FS_Singleton
<1>2. IsFiniteSet(d.oracle) /\ IsFiniteSet(d.bridge) /\ IsFiniteSet(d.governance)
    BY DEF Detection, Items, CategoryType
<1>3. IsFiniteSet(relayers)
    BY <1>2, FS_Subset
<1>4. IsFiniteSet(owners)
    BY Few, FS_Difference
<1>5. IsFiniteSet(f.abilities)
    BY FindingsFinite
<1> HIDE DEF relayers, owners
<1>6. IsFiniteSet(C) /\ IsFiniteSet(E) /\ IsFiniteSet(F) /\ IsFiniteSet(G) /\ IsFiniteSet(H)
    <2>1. IsFiniteSet(C) /\ IsFiniteSet(F)
        BY <1>2, Tagged
    <2>2. IsFiniteSet(E)
        BY <1>3, Tagged
    <2>3. IsFiniteSet(G)
        BY <1>5, Tagged
    <2>4. IsFiniteSet(H)
        BY <1>4, Tagged
    <2> QED
        BY <2>1, <2>2, <2>3, <2>4
<1>7. IsFiniteSet(A) /\ IsFiniteSet(B) /\ IsFiniteSet(D)
    BY <1>1
<1>8. PrivilegedEntities(f, d) = A \cup B \cup C \cup D \cup E \cup F \cup G \cup I
    BY DEF PrivilegedEntities, OtherEntities, relayers, owners
<1> HIDE DEF A, B, C, D, E, F, G, H
<1>9. IsFiniteSet(I)
    BY <1>1, <1>6
<1> HIDE DEF I
<1>10. IsFiniteSet(A \cup B \cup C \cup D \cup E)
    BY <1>6, <1>7, FiniteUnion
<1>11. IsFiniteSet(A \cup B \cup C \cup D \cup E \cup F \cup G \cup I)
    BY <1>6, <1>9, <1>10, FiniteUnion
<1> QED
    BY <1>8, <1>11

LEMMA PathsFinite ==
    ASSUME NEW f, NEW d, NEW relationships, IsFiniteSet(relationships)
    PROVE  IsFiniteSet(AttackPaths(f, d, relationships))
<1> DEFINE T == {u \in DOMAIN Templates : Matches(u, f, d)}
           R == {x \in relationships : x.type = "UPGRADEABLE_BY"}
           template(t) == Path(<<t>>, Boosted(t, f, d))
           upgrade(r) == Path(<<"rel_upgrade", r.label>>, r.confidence)
           A == {template(t) : t \in T}
           B == IF Suspected(f) THEN {Path(<<"honeypot_exit">>, IF Confirmed(f) THEN 90 ELSE 75)} ELSE {}
           C == IF "mint" \in f.abilities /\ PrivilegedEntities(f, d) # {} THEN {Path(<<"mint_inflation">>, 80)} ELSE {}
           D == {upgrade(r) : r \in R}
<1>1. IsFiniteSet({}) /\ \A x : IsFiniteSet({x})
    BY FS_EmptySet, FS_Singleton
<1>2. IsFiniteSet(DOMAIN Templates)
    <2>1. DOMAIN Templates = {"owner_proxy_impl_funds", "oracle_price_vault", "bridge_message_mint",
                              "governor_upgrade_impl", "dex_liquidity_drain"}
        BY DEF Templates
    <2>2. IsFiniteSet({"owner_proxy_impl_funds", "oracle_price_vault", "bridge_message_mint",
                       "governor_upgrade_impl", "dex_liquidity_drain"})
        BY Few, Zenon
    <2> QED
        BY <2>1, <2>2
<1>3. IsFiniteSet(T) /\ IsFiniteSet(R)
    BY <1>2, FS_Subset
<1>4. AttackPaths(f, d, relationships) = A \cup B \cup C \cup D
    BY DEF AttackPaths
<1>5. IsFiniteSet(B) /\ IsFiniteSet(C)
    BY <1>1
<1> HIDE DEF T, R, template, upgrade, B, C
<1>6. \A h : IsFiniteSet({h[t] : t \in T}) /\ IsFiniteSet({h[r] : r \in R})
    BY <1>3, FiniteImage
<1>7. A = {[t \in T |-> template(t)][e] : e \in T} /\ D = {[r \in R |-> upgrade(r)][e] : e \in R}
    OBVIOUS
<1>8. IsFiniteSet(A) /\ IsFiniteSet(D)
    BY <1>6, <1>7, Zenon
<1> HIDE DEF A, D
<1> QED
    BY <1>4, <1>5, <1>8, FiniteUnion

\* What the analysis of a contract counts is finite, and the contract itself is at
\* stake.
LEMMA AnalysisFinite ==
    ASSUME NEW f, IsFacts(f), f.contract, NEW r
    PROVE  LET a == AnalysisOf(f, r)
           IN  /\ Detection(a.intelligence.found) /\ SurfaceFinite(a.surface)
               /\ Contract \in a.surface.assets /\ IsFiniteSet(a.architecture.relationships)
<1> DEFINE a == AnalysisOf(f, r)
           d == a.intelligence.found
<1>1. Detection(d)
    BY AnalysisDetects
<1>2. /\ a.architecture.relationships = Relationships(Candidates(f, d))
      /\ a.surface.dependencies = Dependencies(f, d) /\ a.surface.boundaries = TrustBoundaries(f, d)
      /\ a.surface.privileged = PrivilegedEntities(f, d) /\ a.surface.assets = CriticalAssets(f, d)
      /\ a.surface.paths = AttackPaths(f, d, a.architecture.relationships)
    BY AnalysisParts
<1> HIDE DEF a, d
<1>3. IsFiniteSet(a.architecture.relationships)
    BY <1>1, <1>2, CandidatesFinite
<1>4. IsFiniteSet(CriticalAssets(f, d)) /\ Contract \in CriticalAssets(f, d)
    <2> DEFINE A == {Contract}
               S == {f.implementation} \ {NoAddress}
               B == {<<"implementation", x>> : x \in S}
               C == IF f.pool # NoPool THEN {<<"liquidity_reserves">>} ELSE {}
               D == {p \in Dependencies(f, d) : p[1] \in {"vault", "bridge", "oracle"}}
    <2>1. IsFiniteSet({}) /\ \A x : IsFiniteSet({x})
        BY FS_EmptySet, FS_Singleton
    <2>2. IsFiniteSet(S)
        BY <2>1, FS_Difference
    <2>3. IsFiniteSet(A) /\ IsFiniteSet(C)
        BY <2>1
    <2>4. IsFiniteSet(D)
        BY <1>1, DependenciesFinite, FS_Subset
    <2>5. CriticalAssets(f, d) = A \cup B \cup C \cup D
        BY DEF CriticalAssets
    <2>6. Contract \in A
        OBVIOUS
    <2> HIDE DEF A, S, C, D
    <2>7. IsFiniteSet(B)
        BY <2>2, Tagged
    <2> HIDE DEF B
    <2> QED
        BY <2>3, <2>4, <2>5, <2>6, <2>7, FiniteUnion
<1>5. IsFiniteSet(Dependencies(f, d)) /\ IsFiniteSet(TrustBoundaries(f, d)) /\ IsFiniteSet(PrivilegedEntities(f, d))
    BY <1>1, DependenciesFinite, BoundariesFinite, PrivilegedFinite
<1>6. IsFiniteSet(AttackPaths(f, d, a.architecture.relationships))
    BY <1>3, PathsFinite
<1>7. SurfaceFinite(a.surface)
    BY <1>2, <1>4, <1>5, <1>6 DEF SurfaceFinite
<1> QED
    BY <1>1, <1>2, <1>3, <1>4, <1>7 DEF d, a

------------------------------------------------------------------------------
(* The scores and the posture                                                  *)

LEMMA LeastNumber ==
    ASSUME NEW T \in SUBSET Nat, T # {}
    PROVE  \E x \in T : \A y \in T : x <= y
<1> DEFINE Less == {ss \in Nat \X Nat : ss[1] < ss[2]}
<1>1. IsWellFoundedOn(Less, Nat)
    BY NatLessThanWellFounded DEF OpToRel
<1> HIDE DEF Less
<1>2. PICK x \in T : \A y \in T : ~ (<<y, x>> \in Less)
    BY <1>1, WFMin
<1>3. \A y \in T : ~ (y < x)
    BY <1>2 DEF Less
<1> QED
    BY <1>3

\* The greatest of some numbers up to 100
LEMMA Greatest ==
    ASSUME NEW T \in SUBSET (0 .. 100), T # {}
    PROVE  Max(T) \in T /\ \A y \in T : y <= Max(T)
<1> DEFINE Lacks == {n \in Nat : \E x \in T : n = 100 - x}
<1>1. Lacks \in SUBSET Nat /\ Lacks # {}
    <2>1. PICK x \in T : TRUE
        OBVIOUS
    <2>2. 100 - x \in Lacks
        BY <2>1
    <2> QED
        BY <2>2
<1>2. PICK n \in Lacks : \A m \in Lacks : n <= m
    <2> HIDE DEF Lacks
    <2> QED
        BY <1>1, LeastNumber
<1>3. PICK x \in T : n = 100 - x
    BY <1>2
<1>4. \A y \in T : x >= y
    <2> TAKE y \in T
    <2>1. 100 - y \in Lacks
        OBVIOUS
    <2>2. n <= 100 - y
        BY <1>2, <2>1
    <2> QED
        BY <1>3, <2>2
<1>5. \E z \in T : \A y \in T : z >= y
    BY <1>3, <1>4
<1>6. Max(T) \in T /\ \A y \in T : Max(T) >= y
    BY <1>5, Zenon DEF Max
<1> QED
    BY <1>6

LEMMA Clamped == \A n \in Int : Clamp(n) \in 0 .. 100 /\ (n >= 0 => Clamp(n) <= n) /\ (n <= 100 => Clamp(n) >= n)
BY DEF Clamp

LEMMA PointsAreNumbers == \A s \in Signals : Weight("points")[s] \in Int
<1>1. \A s \in Signals : Weights[s].points \in Int
    BY DEF Signals, Weights, W
<1> QED
    BY <1>1 DEF Weight

\* A score is of 100; HIGH is 67 at least, and of a contract.
LEMMA Scored ==
    ASSUME NEW f, IsFacts(f)
    PROVE  /\ Assessment(f).score = Score(Evidence(f)) /\ Assessment(f).score \in 0 .. 100
           /\ Assessment(f).level = "HIGH" => f.contract /\ Assessment(f).score >= 67
<1> DEFINE e == Evidence(f)
           sum == SumFunctionOnSet(Weight("points"), e)
<1>1. Assessment(f).score = Score(e) /\ Assessment(f).level = RiskLevel(e)
    BY DEF Assessment
<1>2. \A s \in e : Weight("points")[s] \in Int
    BY FindingsFinite, PointsAreNumbers
<1>3. IsFiniteSet(e)
    BY FindingsFinite
<1>4. ~f.contract => Score(e) = 0
    <2>1. SUFFICES ASSUME ~f.contract PROVE Score(e) = 0
        OBVIOUS
    <2>2. e = {"not_contract"}
        BY <2>1 DEF Evidence
    <2>3. Weight("points")["not_contract"] = 0
        BY DEF Weight, Signals, Weights, W
    <2> DEFINE w == Weight("points")
    <2>4. /\ w["not_contract"] = 0 /\ \A x \in {"not_contract"} : w[x] \in Int
          /\ IsFiniteSet({"not_contract"})
        BY <2>3, FS_Singleton
    <2> HIDE DEF w
    <2>5. SumFunctionOnSet(w, {"not_contract"}) = w["not_contract"] + SumFunctionOnSet(w, {"not_contract"} \ {"not_contract"})
        BY <2>4, SumOfTerms
    <2>6. SumFunctionOnSet(w, {}) = 0
        BY <2>4, SumOfTerms
    <2>7. {"not_contract"} \ {"not_contract"} = {}
        OBVIOUS
    <2>8. SumFunctionOnSet(w, {"not_contract"} \ {"not_contract"}) = 0
        BY <2>6, <2>7, Zenon
    <2>9. SumFunctionOnSet(w, {"not_contract"}) = 0
        BY <2>4, <2>5, <2>8
    <2> QED
        BY <2>2, <2>9 DEF Score, Clamp, w
<1> HIDE DEF e
<1>5. sum \in Int
    BY <1>2, <1>3, SumOfTerms
<1>6. Score(e) \in 0 .. 100
    BY <1>5, Clamped DEF Score
<1>7. RiskLevel(e) = "HIGH" => Score(e) > 66
    BY DEF RiskLevel, Level
<1> QED
    BY <1>1, <1>4, <1>6, <1>7 DEF e

LEMMA AssessedOfNode == \A f, r : AnalysisOf(f, r).facts = f /\ AnalysisOf(f, r).assessment = Assessment(f)
BY DEF AnalysisOf, Analysis

\* The analyses of a finite number of contracts
IsDone(done) ==
    /\ IsFiniteSet(DOMAIN done)
    /\ \A n \in DOMAIN done : \E f, r : IsFacts(f) /\ done[n] = AnalysisOf(f, r)

LEMMA DoneParts ==
    ASSUME NEW done, IsDone(done), NEW n \in DOMAIN done
    PROVE  LET a == done[n]
           IN  /\ IsFacts(a.facts) /\ a.assessment = Assessment(a.facts)
               /\ a.facts.contract =>
                    /\ Detection(a.intelligence.found) /\ SurfaceFinite(a.surface)
                    /\ Contract \in a.surface.assets /\ IsFiniteSet(a.architecture.relationships)
<1>1. PICK f, r : IsFacts(f) /\ done[n] = AnalysisOf(f, r)
    BY DEF IsDone
<1> QED
    BY <1>1, AssessedOfNode, AnalysisFinite

\* The admins, the privileged and the rest can be counted.
LEMMA Counted ==
    ASSUME NEW done, IsDone(done)
    PROVE  /\ IsFiniteSet(Contracts(done)) /\ Contracts(done) \subseteq DOMAIN done
           /\ Cardinality(Admins(done)) \in Nat /\ Cardinality(Found(done, "integrations")) \in Nat
           /\ \A S \in SUBSET DOMAIN done : Cardinality(S) \in Nat
<1>1. IsFiniteSet(DOMAIN done)
    BY DEF IsDone
<1>2. \A S \in SUBSET DOMAIN done : IsFiniteSet(S) /\ Cardinality(S) \in Nat
    BY <1>1, FS_Subset, FS_CardinalityType
<1>3. Contracts(done) \in SUBSET DOMAIN done
    BY DEF Contracts
<1>4. IsFiniteSet(Admins(done))
    <2> DEFINE S == DOMAIN done
               g == [n \in S |-> done[n].facts.admin]
    <2>1. \A h : IsFiniteSet({h[n] : n \in S})
        BY <1>1, FiniteImage
    <2>2. Admins(done) = {g[n] : n \in S} \ {NoAddress}
        BY DEF Admins
    <2> HIDE DEF g, S
    <2>3. IsFiniteSet({g[n] : n \in S})
        BY <2>1
    <2> QED
        BY <2>2, <2>3, FS_Difference
<1>5. IsFiniteSet(Found(done, "integrations"))
    <2>1. \A n \in Contracts(done) : done[n].intelligence.found.integrations \subseteq IntegrationNames
        BY DoneParts DEF Contracts, Detection
    <2>2. IsFiniteSet(IntegrationNames)
        BY Few, Zenon DEF IntegrationNames
    <2>3. Found(done, "integrations") \in SUBSET IntegrationNames
        BY <2>1 DEF Found
    <2> QED
        BY <2>2, <2>3, FS_Subset
<1> QED
    BY <1>2, <1>3, <1>4, <1>5, FS_CardinalityType

LEMMA Totals ==
    ASSUME NEW S, IsFiniteSet(S), NEW w, w = [n \in S |-> w[n]], \A n \in S : w[n] \in Nat
    PROVE  SumFunction(w) \in Nat /\ \A n \in S : w[n] <= SumFunction(w)
BY SumOfAll

\* The metrics are of 100.  The risk is that of the worst, and to be a contract is to
\* be worth an attack.
LEMMA PostureBounds ==
    ASSUME NEW done, IsDone(done)
    PROVE  LET p == Posture(done)
           IN  /\ p.risk \in 0 .. 100 /\ \A n \in DOMAIN done : done[n].assessment.score <= p.risk
               /\ p.attack \in 0 .. 100 /\ (Contracts(done) # {} => p.attack >= 10)
               /\ p.privilege \in 0 .. 100 /\ p.upgradeability \in 0 .. 100 /\ p.maturity \in 0 .. 100
<1> DEFINE C == Contracts(done)
<1>1. /\ IsFiniteSet(C) /\ C \subseteq DOMAIN done
      /\ Cardinality(Admins(done)) \in Nat /\ Cardinality(Found(done, "integrations")) \in Nat
      /\ \A S \in SUBSET DOMAIN done : Cardinality(S) \in Nat
    BY Counted
<1>2. \A n \in C :
        /\ Cardinality(done[n].surface.dependencies) \in Nat /\ Cardinality(done[n].surface.paths) \in Nat
        /\ Cardinality(done[n].surface.privileged) \in Nat
        /\ Cardinality(done[n].surface.assets) \in Nat /\ Cardinality(done[n].surface.assets) >= 1
    <2> TAKE n \in C
    <2>1. SurfaceFinite(done[n].surface) /\ Contract \in done[n].surface.assets
        BY DoneParts DEF Contracts
    <2>2. Cardinality(done[n].surface.assets) \in Nat /\ Cardinality(done[n].surface.assets) # 0
        BY <2>1, FS_CardinalityType, FS_EmptySet DEF SurfaceFinite
    <2> QED
        BY <2>1, <2>2, FS_CardinalityType DEF SurfaceFinite
<1> HIDE DEF C
<1>3. /\ HighestRisk(done) \in 0 .. 100
      /\ \A n \in DOMAIN done : done[n].assessment.score <= HighestRisk(done)
    <2> DEFINE T == {0} \cup {done[n].assessment.score : n \in DOMAIN done}
    <2>1. \A n \in DOMAIN done : done[n].assessment.score \in 0 .. 100
        BY DoneParts, Scored
    <2>2. T \in SUBSET (0 .. 100) /\ T # {}
        BY <2>1
    <2>3. \A n \in DOMAIN done : done[n].assessment.score \in T
        OBVIOUS
    <2>4. HighestRisk(done) = Max(T)
        BY DEF HighestRisk
    <2> HIDE DEF T
    <2> QED
        BY <2>2, <2>3, <2>4, Greatest
<1>4. AttackSurface(done) \in 0 .. 100 /\ (C # {} => AttackSurface(done) >= 10)
    <2> DEFINE D == SumFunction([n \in C |-> Cardinality(done[n].surface.dependencies)])
               P == SumFunction([n \in C |-> Cardinality(done[n].surface.paths)])
               A == SumFunction([n \in C |-> Cardinality(done[n].surface.assets)])
               N == Cardinality(Found(done, "integrations"))
    <2>1. D \in Nat
        BY <1>1, <1>2, Totals
    <2>2. P \in Nat
        BY <1>1, <1>2, Totals
    <2>3. A \in Nat /\ \A n \in C : Cardinality(done[n].surface.assets) <= A
        BY <1>1, <1>2, Totals
    <2>4. AttackSurface(done) = Clamp(8 * D + 12 * P + 10 * A + 4 * N)
        BY DEF AttackSurface, Total, C
    <2> HIDE DEF D, P, A
    <2>5. C # {} => A >= 1
        BY <1>2, <2>3
    <2> HIDE DEF N
    <2>6. N \in Nat
        BY <1>1 DEF N
    <2>7. 8 * D + 12 * P + 10 * A + 4 * N \in Int /\ (C # {} => 8 * D + 12 * P + 10 * A + 4 * N >= 10)
        BY <2>1, <2>2, <2>3, <2>5, <2>6
    <2> QED
        BY <2>4, <2>7 DEF Clamp
<1>5. PrivilegeConcentration(done) \in 0 .. 100
    <2> DEFINE P == SumFunction([n \in C |-> Cardinality(done[n].surface.privileged)])
               E == Cardinality({n \in DOMAIN done : done[n].facts.adminType = "eoa"})
               M == Cardinality({n \in DOMAIN done : done[n].facts.adminType = "multisig"})
    <2>1. P \in Nat
        BY <1>1, <1>2, Totals
    <2>2. E \in Nat /\ M \in Nat
        BY <1>1
    <2>3. PrivilegeConcentration(done) = Clamp(10 * Cardinality(Admins(done)) + 8 * P + 20 * E - 5 * M)
        BY DEF PrivilegeConcentration, Total, HowMany, Those, C
    <2> HIDE DEF P, E, M
    <2> QED
        BY <1>1, <2>1, <2>2, <2>3 DEF Clamp
<1>6. Upgradeability(done) \in 0 .. 100
    <2> DEFINE U == Cardinality({n \in DOMAIN done : Upgradeable(done[n].facts)})
               T == Cardinality({n \in DOMAIN done : Upgradeable(done[n].facts) /\ Timelocked(done[n].facts)})
    <2>1. U \in Nat /\ T \in Nat
        BY <1>1
    <2>2. Upgradeability(done) = Clamp(25 * U - 10 * T)
        BY DEF Upgradeability, HowMany, Those
    <2> HIDE DEF U, T
    <2> QED
        BY <2>1, <2>2 DEF Clamp
<1>7. GovernanceMaturity(done) \in 0 .. 100
    <2> DEFINE S == DOMAIN done
               roles == SumFunction([n \in S |-> Cardinality(done[n].facts.roles)])
               R == IF roles > 10 THEN 10 ELSE roles
               T == Cardinality({n \in S : Timelocked(done[n].facts)})
               O == Cardinality({n \in S : done[n].facts.renounced})
               G == Cardinality({n \in S : GovernanceType(done[n].facts) # "none" \/ done[n].facts.roles # {}})
    <2>1. T \in Nat /\ O \in Nat /\ G \in Nat
        BY <1>1
    <2>2. IsFiniteSet(S) /\ \A n \in S : Cardinality(done[n].facts.roles) \in Nat
        BY DoneParts, FS_CardinalityType DEF IsDone, IsFacts
    <2>3. GovernanceMaturity(done) = 100 - Clamp(20 * T + 15 * O + 3 * R + 5 * G - 5 * Cardinality(Admins(done)))
        BY DEF GovernanceMaturity, HowMany, Those
    <2> HIDE DEF S, T, O, G
    <2>4. roles \in Nat
        BY <2>2, Totals
    <2> HIDE DEF roles
    <2>5. R \in Nat
        BY <2>4
    <2> HIDE DEF R
    <2>6. 20 * T + 15 * O + 3 * R + 5 * G - 5 * Cardinality(Admins(done)) \in Int
        BY <1>1, <2>1, <2>5
    <2>7. Clamp(20 * T + 15 * O + 3 * R + 5 * G - 5 * Cardinality(Admins(done))) \in 0 .. 100
        BY <2>6, Clamped
    <2> QED
        BY <2>3, <2>7
<1> QED
    BY <1>3, <1>4, <1>5, <1>6, <1>7 DEF Posture, C

\* What the worst contract and what is at stake add to the whole
LEMMA Weighted ==
    ASSUME NEW p, p.risk \in 0 .. 100, p.attack \in 0 .. 100, p.privilege \in 0 .. 100,
           p.upgradeability \in 0 .. 100, p.maturity \in 0 .. 100
    PROVE  Overall(p) \in Int /\ (p.risk >= 67 /\ p.attack >= 10 => Overall(p) >= 2500)
<1> DEFINE r == p.risk
           a == p.attack
           v == p.privilege
           u == p.upgradeability
           m == p.maturity
<1>1. r \in 0 .. 100 /\ a \in 0 .. 100 /\ v \in 0 .. 100 /\ u \in 0 .. 100 /\ m \in 0 .. 100
    OBVIOUS
<1>2. Overall(p) = 35 * r + 20 * a + 15 * v + 15 * u + 15 * (100 - m)
    BY DEF Overall
<1> HIDE DEF r, a, v, u, m
<1>3. Overall(p) \in Int /\ (r >= 67 /\ a >= 10 => Overall(p) >= 2500)
    BY <1>1, <1>2
<1> QED
    BY <1>3 DEF r, a

LEMMA PostureOfReport ==
    ASSUME ReportInv, report # NoReport
    PROVE  report.posture = Posture(report.done)
<1>1. report = Report(facts, results)
    BY DEF ReportInv
<1> DEFINE done == [n \in {m \in Nodes : results[m].status = "completed"} |-> AnalysisOf(facts[n], results[n])]
<1>2. Report(facts, results).done = done /\ Report(facts, results).posture = Posture(done)
    BY DEF Report
<1> QED
    BY <1>1, <1>2

\* A contract of high risk alone lifts the whole above LOW.
THEOREM LowRiskIsEarned == Spec => []LowIsEarned
<1>1. ReportInv /\ SeenInv => LowIsEarned
    <2> SUFFICES ASSUME ReportInv, SeenInv, report # NoReport, report.level = "LOW"
                 PROVE  report.failed = {} /\ \A n \in DOMAIN report.done : report.done[n].assessment.level # "HIGH"
        BY DEF LowIsEarned
    <2> DEFINE done == report.done
               p == Posture(done)
    <2>1. IsDone(done)
        <3>1. DOMAIN done = Completed /\ \A n \in Completed : done[n] = AnalysisOf(facts[n], results[n])
            BY ReportOfNode
        <3>2. IsFiniteSet(Completed) /\ \A n \in Completed : IsFacts(facts[n])
            BY ReportAssumption, FS_Subset DEF Completed, SeenInv
        <3> QED
            BY <3>1, <3>2 DEF IsDone
    <2>2. report.level = OverallLevel(Overall(p), report.failed)
        BY ReportOfNode, PostureOfReport
    <2>3. /\ p.risk \in 0 .. 100 /\ \A n \in DOMAIN done : done[n].assessment.score <= p.risk
          /\ p.attack \in 0 .. 100 /\ (Contracts(done) # {} => p.attack >= 10)
          /\ p.privilege \in 0 .. 100 /\ p.upgradeability \in 0 .. 100 /\ p.maturity \in 0 .. 100
        BY <2>1, PostureBounds
    <2>4. \A n \in DOMAIN done : done[n].assessment.level = "HIGH" =>
            done[n].assessment.score \in 0 .. 100 /\ done[n].assessment.score >= 67 /\ n \in Contracts(done)
        BY <2>1, DoneParts, Scored DEF Contracts
    <2> HIDE DEF p, done
    <2>5. Overall(p) \in Int /\ (p.risk >= 67 /\ p.attack >= 10 => Overall(p) >= 2500)
        BY <2>3, Weighted
    <2>6. Overall(p) < 2500 /\ report.failed = {}
        BY <2>2, <2>5 DEF OverallLevel
    <2>7. ASSUME NEW n \in DOMAIN done, done[n].assessment.level = "HIGH" PROVE FALSE
        <3>1. p.risk >= 67 /\ p.attack >= 10
            BY <2>3, <2>4, <2>7
        <3> QED
            BY <2>5, <2>6, <3>1
    <2> QED
        BY <2>6, <2>7 DEF done
<1> QED
    BY ReportStands, FindingsStayFindings, <1>1, PTL

------------------------------------------------------------------------------
(* No two things an edge could end at go by the same name.                     *)

DexNames == {"Uniswap V2", "SushiSwap", "PancakeSwap", "Aerodrome", "Uniswap V3", "Curve", "Balancer"}
LendingNames == {"Aave", "Spark", "Compound", "Morpho"}
OracleNames == {"Chainlink", "Pyth", "Redstone"}
BridgeNames == {"LayerZero", "Wormhole", "Hyperlane", "Axelar", "Stargate", "Circle CCTP"}
VaultNames == {"ERC4626", "Yearn", "Beefy", "Pendle", "EigenLayer"}
NftNames == {"ERC721", "ERC1155", "ERC2981"}
GovernorNames ==
    {"Governor Bravo", "OpenZeppelin Governor", "Safe Governor", "Compound Governor", "Timelock Governor"}

\* What begins the label of what is found otherwise than by its code
PlainNames ==
    Capabilities \cup
    {"Governance_Owner", "Timelock_Controller", "Upgrade_Authority", "Governance", "Deployer", "Creator", "Owner",
     "Proxy_Admin", "Primary_Liquidity_Pool", "Implementation", "Honeypot_Controls"}

LEMMA NamedParts == \A name, role, selectors : Named(name, role, selectors).name = name
BY DEF Named, Profile

LEMMA NamesOfProfiles ==
    /\ ProfileNames("dex") \subseteq DexNames /\ ProfileNames("lending") \subseteq LendingNames
    /\ ProfileNames("oracle") \subseteq OracleNames /\ ProfileNames("bridge") \subseteq BridgeNames
    /\ ProfileNames("vault") \subseteq VaultNames /\ ProfileNames("nft") \subseteq NftNames
    /\ ProfileNames("governance") \subseteq GovernorNames
<1>1. /\ Catalogue["dex"].profiles = DexProfiles /\ Catalogue["lending"].profiles = LendingProfiles
      /\ Catalogue["oracle"].profiles = OracleProfiles /\ Catalogue["bridge"].profiles = BridgeProfiles
      /\ Catalogue["vault"].profiles = VaultProfiles /\ Catalogue["nft"].profiles = NftProfiles
      /\ Catalogue["governance"].profiles = GovernanceProfiles
    BY DEF Catalogue, Category
<1>2. \A N : \A name \in N : \A role, selectors : Named(name, role, selectors).name \in N
    BY NamedParts
<1>3. \A p \in DexProfiles : p.name \in DexNames
    <2>1. /\ "Uniswap V2" \in DexNames /\ "SushiSwap" \in DexNames /\ "PancakeSwap" \in DexNames
          /\ "Aerodrome" \in DexNames /\ "Uniswap V3" \in DexNames /\ "Curve" \in DexNames /\ "Balancer" \in DexNames
        BY Zenon DEF DexNames
    <2>2. \A name, role, partial, selectors :
            name \in DexNames => Profile(name, role, partial, selectors).name \in DexNames
        BY ProfileParts
    <2> QED
        BY <2>1, <2>2, Zenon DEF DexProfiles
<1>4. \A p \in LendingProfiles : p.name \in LendingNames
    BY <1>2, Zenon DEF LendingProfiles, LendingNames
<1>5. \A p \in OracleProfiles : p.name \in OracleNames
    BY <1>2, Zenon DEF OracleProfiles, OracleNames
<1>6. \A p \in BridgeProfiles : p.name \in BridgeNames
    BY <1>2, Zenon DEF BridgeProfiles, BridgeNames
<1>7. \A p \in VaultProfiles : p.name \in VaultNames
    BY <1>2, Zenon DEF VaultProfiles, VaultNames
<1>8. \A p \in NftProfiles : p.name \in NftNames
    BY <1>2, Zenon DEF NftProfiles, NftNames
<1>9. \A p \in GovernanceProfiles : p.name \in GovernorNames
    BY <1>2, Zenon DEF GovernanceProfiles, GovernorNames
<1> QED
    BY <1>1, <1>3, <1>4, <1>5, <1>6, <1>7, <1>8, <1>9 DEF ProfileNames

\* Each name is of one category, and neither an integration nor a plain name.  An
\* exchange of a pool may be one that is known by its code.
LEMMA NamesApart ==
    /\ \A b, c \in DOMAIN CategoryType : \A x : x \in ProfileNames(b) /\ x \in ProfileNames(c) => b = c
    /\ \A c \in DOMAIN CategoryType : \A x \in ProfileNames(c) :
        x \notin IntegrationNames /\ x \notin PlainNames /\ (x \in PoolDexes => c = "dex")
    /\ \A x \in IntegrationNames : x \notin PoolDexes /\ x \notin PlainNames
    /\ \A x \in PoolDexes : x \notin PlainNames
<1>1. \A x \in DexNames :
        /\ x \notin LendingNames /\ x \notin OracleNames /\ x \notin BridgeNames /\ x \notin VaultNames
        /\ x \notin NftNames /\ x \notin GovernorNames /\ x \notin IntegrationNames /\ x \notin PlainNames
    BY Zenon DEF DexNames, LendingNames, OracleNames, BridgeNames, VaultNames, NftNames, GovernorNames, IntegrationNames,
                 PlainNames, Capabilities
<1>2. \A x \in PoolDexes :
        /\ x \notin LendingNames /\ x \notin OracleNames /\ x \notin BridgeNames /\ x \notin VaultNames
        /\ x \notin NftNames /\ x \notin GovernorNames /\ x \notin IntegrationNames /\ x \notin PlainNames
    BY Zenon DEF PoolDexes, LendingNames, OracleNames, BridgeNames, VaultNames, NftNames, GovernorNames, IntegrationNames,
                 PlainNames, Capabilities
<1>3. \A x \in LendingNames :
        /\ x \notin OracleNames /\ x \notin BridgeNames /\ x \notin VaultNames
        /\ x \notin NftNames /\ x \notin GovernorNames /\ x \notin IntegrationNames /\ x \notin PlainNames
    BY Zenon DEF LendingNames, OracleNames, BridgeNames, VaultNames, NftNames, GovernorNames, IntegrationNames,
                 PlainNames, Capabilities
<1>4. \A x \in OracleNames :
        /\ x \notin BridgeNames /\ x \notin VaultNames
        /\ x \notin NftNames /\ x \notin GovernorNames /\ x \notin IntegrationNames /\ x \notin PlainNames
    BY Zenon DEF OracleNames, BridgeNames, VaultNames, NftNames, GovernorNames, IntegrationNames, PlainNames, Capabilities
<1>5. \A x \in BridgeNames :
        /\ x \notin VaultNames
        /\ x \notin NftNames /\ x \notin GovernorNames /\ x \notin IntegrationNames /\ x \notin PlainNames
    BY Zenon DEF BridgeNames, VaultNames, NftNames, GovernorNames, IntegrationNames, PlainNames, Capabilities
<1>6. \A x \in VaultNames :
        x \notin NftNames /\ x \notin GovernorNames /\ x \notin IntegrationNames /\ x \notin PlainNames
    BY Zenon DEF VaultNames, NftNames, GovernorNames, IntegrationNames, PlainNames, Capabilities
<1>7. \A x \in NftNames : x \notin GovernorNames /\ x \notin IntegrationNames /\ x \notin PlainNames
    BY Zenon DEF NftNames, GovernorNames, IntegrationNames, PlainNames, Capabilities
<1>8. \A x \in GovernorNames : x \notin IntegrationNames /\ x \notin PlainNames
    BY Zenon DEF GovernorNames, IntegrationNames, PlainNames, Capabilities
<1>9. \A x \in IntegrationNames : x \notin PlainNames
    BY Zenon DEF IntegrationNames, PlainNames, Capabilities
<1>10. DOMAIN CategoryType = {"dex", "lending", "oracle", "bridge", "vault", "governance", "nft"}
    BY DEF CategoryType
<1>11. \A b, c \in DOMAIN CategoryType : \A x : x \in ProfileNames(b) /\ x \in ProfileNames(c) => b = c
    BY <1>1, <1>3, <1>4, <1>5, <1>6, <1>7, <1>10, NamesOfProfiles
<1>12. \A c \in DOMAIN CategoryType : \A x \in ProfileNames(c) :
            x \notin IntegrationNames /\ x \notin PlainNames /\ (x \in PoolDexes => c = "dex")
    BY <1>1, <1>2, <1>3, <1>4, <1>5, <1>6, <1>7, <1>8, <1>10, NamesOfProfiles
<1> QED
    BY <1>2, <1>9, <1>11, <1>12

------------------------------------------------------------------------------
(* What label a candidate has says at what it points.                          *)

\* The target of what is found otherwise than by its code
Plain(f, head) ==
    CASE head = "Governance_Owner" -> <<"wallet", f.governed>>
      [] head = "Timelock_Controller" -> <<"governance", "timelock">>
      [] head = "Upgrade_Authority" -> <<"governance", UpgradeAuthority(f)>>
      [] head = "Governance" -> <<"governance", GovernanceType(f)>>
      [] head \in {"Deployer", "Creator"} -> <<"wallet", f.creator>>
      [] head = "Owner" -> <<"wallet", WalletOwner(f)>>
      [] head = "Proxy_Admin" -> <<"wallet", f.admin>>
      [] head = "Primary_Liquidity_Pool" -> <<"liquidity", "pair">>
      [] head = "Implementation" -> <<"implementation", f.implementation>>
      [] head = "Honeypot_Controls" -> <<"risk", "honeypot_controls">>
      [] head \in Capabilities -> <<"wallet", Controller(f, head)>>

ByCode(c) ==
    \E k \in DOMAIN CategoryType :
        \E i : i.name \in ProfileNames(k) /\ c.label = ItemLabel(i) /\ c.target = ItemNode(k, i)
ByIntegration(c) == \E i \in IntegrationNames : c.label = <<i>> /\ c.target = <<"integration", i>>
ByPool(c) == \E x \in PoolDexes : c.label = <<x>> /\ c.target = <<"dex", x>>
ByName(f, c) == c.label[1] \in PlainNames /\ c.target = Plain(f, c.label[1])

\* How certain a candidate is, and how far down the list
Measured(c) == c.rank \in Nat /\ c.confidence \in Int /\ c.confidence <= 100

LEMMA IntegrationSorts ==
    ASSUME NEW d, Detection(d), NEW c \in IntegrationCandidates(d)
    PROVE  Measured(c) /\ (ByCode(c) \/ ByIntegration(c))
<1>1. CASE \E i \in d.integrations : c = Candidate(6000, <<"integration", i>>, <<i>>, "INTEGRATES", 75)
    <2>1. PICK i \in d.integrations : c = Candidate(6000, <<"integration", i>>, <<i>>, "INTEGRATES", 75)
        BY <1>1
    <2>2. i \in IntegrationNames
        BY DEF Detection
    <2> QED
        BY <2>1, <2>2, CandidateParts DEF Measured, ByIntegration
<1>2. CASE \E k \in DOMAIN CategoryType : \E i \in d[k] :
            c = Candidate(CategoryRank[k] + 100 - i.confidence, ItemNode(k, i), ItemLabel(i), CategoryType[k], i.confidence)
    <2> PICK k \in DOMAIN CategoryType : \E i \in d[k] :
            c = Candidate(CategoryRank[k] + 100 - i.confidence, ItemNode(k, i), ItemLabel(i), CategoryType[k], i.confidence)
        BY <1>2
    <2>1. PICK i \in d[k] :
            c = Candidate(CategoryRank[k] + 100 - i.confidence, ItemNode(k, i), ItemLabel(i), CategoryType[k], i.confidence)
        OBVIOUS
    <2>2. i.confidence \in Int /\ i.confidence <= 100 /\ i.name \in ProfileNames(k)
        BY DEF Detection, Items
    <2>3. CategoryRank[k] \in Nat
        BY DEF CategoryRank, CategoryType
    <2>4. /\ c.rank = CategoryRank[k] + 100 - i.confidence /\ c.confidence = i.confidence
          /\ c.label = ItemLabel(i) /\ c.target = ItemNode(k, i)
        BY <2>1, CandidateParts
    <2> DEFINE n == i.confidence
               m == CategoryRank[k]
    <2>5. n \in Int /\ n <= 100 /\ m \in Nat /\ c.rank = m + 100 - n
        BY <2>2, <2>3, <2>4
    <2> HIDE DEF n, m
    <2>6. c.rank \in Nat
        BY <2>5
    <2> QED
        BY <2>2, <2>4, <2>6 DEF Measured, ByCode
<1>3. \/ \E i \in d.integrations : c = Candidate(6000, <<"integration", i>>, <<i>>, "INTEGRATES", 75)
      \/ \E k \in DOMAIN CategoryType : \E i \in d[k] :
            c = Candidate(CategoryRank[k] + 100 - i.confidence, ItemNode(k, i), ItemLabel(i), CategoryType[k], i.confidence)
    <2> DEFINE D == DOMAIN CategoryType
               told(k, i) == Candidate(CategoryRank[k] + 100 - i.confidence, ItemNode(k, i), ItemLabel(i), CategoryType[k],
                                       i.confidence)
    <2>1. CASE \E p \in UNION {{<<k, i>> : i \in d[k]} : k \in D} : c = told(p[1], p[2])
        <3> HIDE DEF told, D
        <3>1. PICK p \in UNION {{<<k, i>> : i \in d[k]} : k \in D} : c = told(p[1], p[2])
            BY <2>1
        <3>2. PICK k \in D : p \in {<<k, i>> : i \in d[k]}
            OBVIOUS
        <3>3. PICK i \in d[k] : p = <<k, i>>
            BY <3>2
        <3>4. c = told(k, i)
            BY <3>1, <3>3
        <3> QED
            BY <3>4 DEF told, D
    <2> QED
        BY <2>1 DEF IntegrationCandidates
<1> QED
    BY <1>1, <1>2, <1>3

LEMMA PlainTargets ==
    ASSUME NEW f
    PROVE  /\ Plain(f, "Governance_Owner") = <<"wallet", f.governed>>
           /\ Plain(f, "Timelock_Controller") = <<"governance", "timelock">>
           /\ Plain(f, "Upgrade_Authority") = <<"governance", UpgradeAuthority(f)>>
           /\ Plain(f, "Governance") = <<"governance", GovernanceType(f)>>
           /\ Plain(f, "Deployer") = <<"wallet", f.creator>> /\ Plain(f, "Creator") = <<"wallet", f.creator>>
           /\ Plain(f, "Owner") = <<"wallet", WalletOwner(f)>> /\ Plain(f, "Proxy_Admin") = <<"wallet", f.admin>>
           /\ Plain(f, "Primary_Liquidity_Pool") = <<"liquidity", "pair">>
           /\ Plain(f, "Implementation") = <<"implementation", f.implementation>>
           /\ Plain(f, "Honeypot_Controls") = <<"risk", "honeypot_controls">>
           /\ \A x \in Capabilities : Plain(f, x) = <<"wallet", Controller(f, x)>>
BY DEF Plain, Capabilities

LEMMA HeadsArePlain ==
    {"Governance_Owner", "Timelock_Controller", "Upgrade_Authority", "Governance", "Deployer", "Creator", "Owner",
     "Proxy_Admin", "Primary_Liquidity_Pool", "Implementation", "Honeypot_Controls"} \subseteq PlainNames
BY DEF PlainNames

LEMMA OtherSorts ==
    ASSUME NEW f, IsFacts(f), NEW d, NEW c \in Candidates(f, d), c \notin IntegrationCandidates(d)
    PROVE  Measured(c) /\ (ByPool(c) \/ ByName(f, c))
<1> DEFINE Told(rank, target, label, type, confidence) == c = Candidate(rank, target, label, type, confidence)
<1>1. CASE c \in GovernanceCandidates(f)
    <2> DEFINE authority == UpgradeAuthority(f)
               kind == GovernanceType(f)
    <2>1. CASE Told(8000, <<"wallet", f.governed>>, <<"Governance_Owner">>, "OWNED_BY", 88)
        <3>1. <<"Governance_Owner">>[1] \in PlainNames /\ <<"wallet", f.governed>> = Plain(f, <<"Governance_Owner">>[1])
            BY PlainTargets, HeadsArePlain
        <3>2. c.rank = 8000 /\ c.confidence = 88 /\ c.label = <<"Governance_Owner">> /\ c.target = <<"wallet", f.governed>>
            BY <2>1, CandidateParts
        <3> QED
            BY <3>1, <3>2 DEF Measured, ByName
    <2>2. CASE Told(8001, <<"governance", "timelock">>, <<"Timelock_Controller">>, "GOVERNED_BY", 85)
        <3>1. <<"Timelock_Controller">>[1] \in PlainNames /\ <<"governance", "timelock">> = Plain(f, <<"Timelock_Controller">>[1])
            BY PlainTargets, HeadsArePlain
        <3>2. c.rank = 8001 /\ c.confidence = 85 /\ c.label = <<"Timelock_Controller">> /\ c.target = <<"governance", "timelock">>
            BY <2>2, CandidateParts
        <3> QED
            BY <3>1, <3>2 DEF Measured, ByName
    <2>3. CASE Told(8002, <<"governance", authority>>, <<"Upgrade_Authority", authority>>, "UPGRADEABLE_BY", 82)
        <3>1. <<"Upgrade_Authority", authority>>[1] \in PlainNames /\ <<"governance", authority>> = Plain(f, <<"Upgrade_Authority", authority>>[1])
            BY PlainTargets, HeadsArePlain
        <3>2. c.rank = 8002 /\ c.confidence = 82 /\ c.label = <<"Upgrade_Authority", authority>> /\ c.target = <<"governance", authority>>
            BY <2>3, CandidateParts
        <3> QED
            BY <3>1, <3>2 DEF Measured, ByName
    <2>4. CASE Told(8003, <<"governance", kind>>, <<"Governance", kind>>, "GOVERNED_BY", 80)
        <3>1. <<"Governance", kind>>[1] \in PlainNames /\ <<"governance", kind>> = Plain(f, <<"Governance", kind>>[1])
            BY PlainTargets, HeadsArePlain
        <3>2. c.rank = 8003 /\ c.confidence = 80 /\ c.label = <<"Governance", kind>> /\ c.target = <<"governance", kind>>
            BY <2>4, CandidateParts
        <3> QED
            BY <3>1, <3>2 DEF Measured, ByName
    <2> QED
        BY <1>1, <2>1, <2>2, <2>3, <2>4 DEF GovernanceCandidates, If
<1>2. CASE c \in WalletCandidates(f)
    <2>1. CASE Told(9000, <<"wallet", f.creator>>, <<"Deployer">>, "CREATED_BY", 86)
        <3>1. <<"Deployer">>[1] \in PlainNames /\ <<"wallet", f.creator>> = Plain(f, <<"Deployer">>[1])
            BY PlainTargets, HeadsArePlain
        <3>2. c.rank = 9000 /\ c.confidence = 86 /\ c.label = <<"Deployer">> /\ c.target = <<"wallet", f.creator>>
            BY <2>1, CandidateParts
        <3> QED
            BY <3>1, <3>2 DEF Measured, ByName
    <2>2. CASE Told(9001, <<"wallet", f.creator>>, <<"Creator">>, "CREATED_BY", 86)
        <3>1. <<"Creator">>[1] \in PlainNames /\ <<"wallet", f.creator>> = Plain(f, <<"Creator">>[1])
            BY PlainTargets, HeadsArePlain
        <3>2. c.rank = 9001 /\ c.confidence = 86 /\ c.label = <<"Creator">> /\ c.target = <<"wallet", f.creator>>
            BY <2>2, CandidateParts
        <3> QED
            BY <3>1, <3>2 DEF Measured, ByName
    <2>3. CASE Told(9002, <<"wallet", WalletOwner(f)>>, <<"Owner">>, "OWNED_BY", 86)
        <3>1. <<"Owner">>[1] \in PlainNames /\ <<"wallet", WalletOwner(f)>> = Plain(f, <<"Owner">>[1])
            BY PlainTargets, HeadsArePlain
        <3>2. c.rank = 9002 /\ c.confidence = 86 /\ c.label = <<"Owner">> /\ c.target = <<"wallet", WalletOwner(f)>>
            BY <2>3, CandidateParts
        <3> QED
            BY <3>1, <3>2 DEF Measured, ByName
    <2>4. CASE Told(9003, <<"wallet", f.admin>>, <<"Proxy_Admin">>, "UPGRADEABLE_BY", 86)
        <3>1. <<"Proxy_Admin">>[1] \in PlainNames /\ <<"wallet", f.admin>> = Plain(f, <<"Proxy_Admin">>[1])
            BY PlainTargets, HeadsArePlain
        <3>2. c.rank = 9003 /\ c.confidence = 86 /\ c.label = <<"Proxy_Admin">> /\ c.target = <<"wallet", f.admin>>
            BY <2>4, CandidateParts
        <3> QED
            BY <3>1, <3>2 DEF Measured, ByName
    <2> QED
        BY <1>2, <2>1, <2>2, <2>3, <2>4 DEF WalletCandidates, If
<1>3. CASE c \in LiquidityCandidates(f)
    <2>1. CASE Told(10000, <<"dex", f.pool.dex>>, <<f.pool.dex>>, "TRADES_ON", 84) /\ f.pool # NoPool
        <3>1. f.pool.dex \in PoolDexes
            BY <2>1 DEF IsFacts
        <3> DEFINE x == f.pool.dex
        <3> HIDE DEF x
        <3>2. x \in PoolDexes /\ c = Candidate(10000, <<"dex", x>>, <<x>>, "TRADES_ON", 84)
            BY <2>1, <3>1 DEF x
        <3>3. c.rank = 10000 /\ c.confidence = 84 /\ c.label = <<x>> /\ c.target = <<"dex", x>>
            BY <3>2, CandidateParts
        <3> QED
            BY <3>2, <3>3 DEF Measured, ByPool
    <2>2. CASE Told(10001, <<"liquidity", "pair">>, <<"Primary_Liquidity_Pool">>, "DEPENDS_ON", 83)
        <3>1. <<"Primary_Liquidity_Pool">>[1] \in PlainNames /\ <<"liquidity", "pair">> = Plain(f, <<"Primary_Liquidity_Pool">>[1])
            BY PlainTargets, HeadsArePlain
        <3>2. c.rank = 10001 /\ c.confidence = 83 /\ c.label = <<"Primary_Liquidity_Pool">> /\ c.target = <<"liquidity", "pair">>
            BY <2>2, CandidateParts
        <3> QED
            BY <3>1, <3>2 DEF Measured, ByName
    <2> QED
        BY <1>3, <2>1, <2>2 DEF LiquidityCandidates
<1>4. CASE c \in ProxyCandidates(f)
    <2>1. CASE Told(11000, <<"implementation", f.implementation>>, <<"Implementation">>, "DEPENDS_ON", 90)
        <3>1. <<"Implementation">>[1] \in PlainNames /\ <<"implementation", f.implementation>> = Plain(f, <<"Implementation">>[1])
            BY PlainTargets, HeadsArePlain
        <3>2. c.rank = 11000 /\ c.confidence = 90 /\ c.label = <<"Implementation">> /\ c.target = <<"implementation", f.implementation>>
            BY <2>1, CandidateParts
        <3> QED
            BY <3>1, <3>2 DEF Measured, ByName
    <2>2. CASE Told(11001, <<"wallet", f.admin>>, <<"Proxy_Admin">>, "UPGRADEABLE_BY", 87)
        <3>1. <<"Proxy_Admin">>[1] \in PlainNames /\ <<"wallet", f.admin>> = Plain(f, <<"Proxy_Admin">>[1])
            BY PlainTargets, HeadsArePlain
        <3>2. c.rank = 11001 /\ c.confidence = 87 /\ c.label = <<"Proxy_Admin">> /\ c.target = <<"wallet", f.admin>>
            BY <2>2, CandidateParts
        <3> QED
            BY <3>1, <3>2 DEF Measured, ByName
    <2> QED
        BY <1>4, <2>1, <2>2 DEF ProxyCandidates, If
<1>5. CASE c \in CapabilityCandidates(f)
    <2>1. PICK x \in f.abilities :
            Told(12000 + CapabilityRank[x], <<"wallet", Controller(f, x)>>, <<x, "Controller">>, "GOVERNED_BY", 78)
        BY <1>5 DEF CapabilityCandidates
    <2>2. x \in Capabilities
        BY DEF IsFacts
    <2>3. 12000 + CapabilityRank[x] \in Nat
        BY <2>2 DEF Capabilities, CapabilityRank
    <2>4. <<x, "Controller">>[1] \in PlainNames /\ <<"wallet", Controller(f, x)>> = Plain(f, <<x, "Controller">>[1])
        BY <2>2, PlainTargets DEF PlainNames
    <2>5. c.rank = 12000 + CapabilityRank[x] /\ c.confidence = 78 /\ c.label = <<x, "Controller">>
          /\ c.target = <<"wallet", Controller(f, x)>>
        BY <2>1, CandidateParts
    <2> QED
        BY <2>3, <2>4, <2>5 DEF Measured, ByName
<1>6. CASE c \in SourceCandidates(f)
    <2>1. Told(13000, <<"risk", "honeypot_controls">>, <<"Honeypot_Controls">>, "SECURED_BY", 70)
        BY <1>6 DEF SourceCandidates, If
    <2>2. <<"Honeypot_Controls">>[1] \in PlainNames
          /\ <<"risk", "honeypot_controls">> = Plain(f, <<"Honeypot_Controls">>[1])
        BY PlainTargets, HeadsArePlain
    <2>3. c.rank = 13000 /\ c.confidence = 70 /\ c.label = <<"Honeypot_Controls">>
          /\ c.target = <<"risk", "honeypot_controls">>
        BY <2>1, CandidateParts
    <2> QED
        BY <2>2, <2>3 DEF Measured, ByName
<1> QED
    BY <1>1, <1>2, <1>3, <1>4, <1>5, <1>6 DEF Candidates

LEMMA LabelHead == \A i : ItemLabel(i)[1] = i.name
BY DEF ItemLabel

\* Candidates with one label point at one target, whatever their type.
LEMMA LabelTellsTarget ==
    ASSUME NEW f, IsFacts(f), NEW d, Detection(d), NEW b \in Candidates(f, d), NEW c \in Candidates(f, d),
           b.label = c.label
    PROVE  b.target = c.target
<1>1. \A x \in Candidates(f, d) : ByCode(x) \/ ByIntegration(x) \/ ByPool(x) \/ ByName(f, x)
    BY IntegrationSorts, OtherSorts
<1> DEFINE h == b.label[1]
<1>2. \A x : /\ ByCode(x) => \E k \in DOMAIN CategoryType : x.label[1] \in ProfileNames(k)
             /\ ByIntegration(x) => x.label[1] \in IntegrationNames /\ x.target = <<"integration", x.label[1]>>
             /\ ByPool(x) => x.label[1] \in PoolDexes /\ x.target = <<"dex", x.label[1]>>
             /\ ByName(f, x) => x.label[1] \in PlainNames /\ x.target = Plain(f, x.label[1])
    BY LabelHead DEF ByCode, ByIntegration, ByPool, ByName
<1>3. \A x, y : x.label = y.label /\ ByCode(x) /\ ByPool(y) => x.target = y.target
    <2> SUFFICES ASSUME NEW x, NEW y, x.label = y.label, ByCode(x), ByPool(y) PROVE x.target = y.target
        OBVIOUS
    <2> PICK k \in DOMAIN CategoryType : \E i : i.name \in ProfileNames(k) /\ x.label = ItemLabel(i) /\ x.target = ItemNode(k, i)
        BY DEF ByCode
    <2>1. PICK i : i.name \in ProfileNames(k) /\ x.label = ItemLabel(i) /\ x.target = ItemNode(k, i)
        OBVIOUS
    <2>2. i.name \in PoolDexes /\ y.target = <<"dex", i.name>>
        BY <1>2, <2>1, LabelHead
    <2>3. k = "dex"
        BY <2>1, <2>2, NamesApart
    <2> QED
        BY <2>1, <2>2, <2>3 DEF ItemNode
<1>4. ASSUME ByCode(b), ByCode(c) PROVE b.target = c.target
    <2> PICK k \in DOMAIN CategoryType : \E i : i.name \in ProfileNames(k) /\ b.label = ItemLabel(i) /\ b.target = ItemNode(k, i)
        BY <1>4 DEF ByCode
    <2>1. PICK i : i.name \in ProfileNames(k) /\ b.label = ItemLabel(i) /\ b.target = ItemNode(k, i)
        OBVIOUS
    <2> PICK m \in DOMAIN CategoryType : \E j : j.name \in ProfileNames(m) /\ c.label = ItemLabel(j) /\ c.target = ItemNode(m, j)
        BY <1>4 DEF ByCode
    <2>2. PICK j : j.name \in ProfileNames(m) /\ c.label = ItemLabel(j) /\ c.target = ItemNode(m, j)
        OBVIOUS
    <2>3. i.name = j.name
        BY <2>1, <2>2, LabelHead
    <2>4. k = m
        BY <2>1, <2>2, <2>3, NamesApart
    <2>5. i.role = j.role
        <3>1. ItemLabel(i) = ItemLabel(j)
            BY <2>1, <2>2
        <3>2. \A x, y, z : <<x>> # <<y, z>>
            <4> TAKE x, y, z
            <4>1. Len(<<x>>) = 1 /\ Len(<<y, z>>) = 2
                OBVIOUS
            <4> QED
                BY <4>1
        <3> QED
            BY <3>1, <3>2 DEF ItemLabel
    <2> QED
        BY <2>1, <2>2, <2>3, <2>4, <2>5 DEF ItemNode
<1> QED
    BY <1>1, <1>2, <1>3, <1>4, NamesApart

\* Of some candidates one is foremost, and one comes first in the list.
LEMMA ForemostExists ==
    ASSUME NEW K, K # {}, \A c \in K : Measured(c)
    PROVE  \E m \in K : \A o \in K : o.confidence < m.confidence \/ (o.confidence = m.confidence /\ o.rank >= m.rank)
<1> DEFINE Lacks == {n \in Nat : \E c \in K : n = 100 - c.confidence}
<1>1. Lacks \in SUBSET Nat /\ Lacks # {}
    <2>1. PICK c \in K : TRUE
        OBVIOUS
    <2>2. 100 - c.confidence \in Lacks
        BY <2>1 DEF Measured
    <2> QED
        BY <2>2
<1>2. \A c \in K : 100 - c.confidence \in Lacks
    BY DEF Measured
<1>3. \A n \in Lacks : \E c \in K : n = 100 - c.confidence
    OBVIOUS
<1> HIDE DEF Lacks
<1>4. PICK n \in Lacks : \A l \in Lacks : n <= l
    BY <1>1, LeastNumber
<1> DEFINE Ranks == {r \in Nat : \E c \in K : 100 - c.confidence = n /\ r = c.rank}
<1>5. Ranks \in SUBSET Nat /\ Ranks # {}
    <2>1. PICK c \in K : n = 100 - c.confidence
        BY <1>3, <1>4
    <2>2. c.rank \in Ranks
        BY <2>1 DEF Measured
    <2> QED
        BY <2>2
<1>6. \A c \in K : 100 - c.confidence = n => c.rank \in Ranks
    BY DEF Measured
<1>7. \A r \in Ranks : \E c \in K : 100 - c.confidence = n /\ r = c.rank
    OBVIOUS
<1> HIDE DEF Ranks
<1>8. PICK r \in Ranks : \A q \in Ranks : r <= q
    BY <1>5, LeastNumber
<1>9. PICK m \in K : 100 - m.confidence = n /\ r = m.rank
    BY <1>7, <1>8
<1>10. ASSUME NEW o \in K
       PROVE  o.confidence < m.confidence \/ (o.confidence = m.confidence /\ o.rank >= m.rank)
    <2>1. /\ o.confidence \in Int /\ m.confidence \in Int /\ o.rank \in Nat /\ m.rank \in Nat
        BY <1>9 DEF Measured
    <2>2. n <= 100 - o.confidence
        BY <1>2, <1>4
    <2>3. 100 - o.confidence = n => r <= o.rank
        BY <1>6, <1>8
    <2> QED
        BY <1>9, <2>1, <2>2, <2>3
<1> QED
    BY <1>9, <1>10

LEMMA FirstExists ==
    ASSUME NEW K, K # {}, \A c \in K : Measured(c)
    PROVE  \E m \in K : \A o \in K : m.rank <= o.rank
<1> DEFINE Ranks == {r \in Nat : \E c \in K : r = c.rank}
<1>1. Ranks \in SUBSET Nat /\ Ranks # {}
    <2>1. PICK c \in K : TRUE
        OBVIOUS
    <2>2. c.rank \in Ranks
        BY <2>1 DEF Measured
    <2> QED
        BY <2>2
<1>2. /\ \A c \in K : c.rank \in Ranks
      /\ \A r \in Ranks : \E c \in K : r = c.rank
    BY DEF Measured
<1> HIDE DEF Ranks
<1>3. PICK r \in Ranks : \A q \in Ranks : r <= q
    BY <1>1, LeastNumber
<1> QED
    BY <1>2, <1>3

\* For a candidate there is a relationship with its target and type, no less certain.
LEMMA CandidateIsTold ==
    ASSUME NEW f, IsFacts(f), NEW d, Detection(d), NEW c \in Candidates(f, d)
    PROVE  \E r \in Relationships(Candidates(f, d)) :
                r.target = c.target /\ r.type = c.type /\ r.confidence >= c.confidence
<1> DEFINE S == Candidates(f, d)
<1>1. \A x \in S : Measured(x)
    BY IntegrationSorts, OtherSorts
<1>2. \A x, y \in S : x.label = y.label => x.target = y.target
    BY LabelTellsTarget
<1> HIDE DEF S
<1>3. PICK m \in Normalize(S) : m.target = c.target /\ m.type = c.type /\ m.confidence >= c.confidence
    <2> DEFINE K == {o \in S : o.target = c.target /\ o.type = c.type}
    <2>1. c \in K /\ \A x \in K : Measured(x)
        BY <1>1 DEF S
    <2>2. PICK m \in K : \A o \in K : o.confidence < m.confidence \/ (o.confidence = m.confidence /\ o.rank >= m.rank)
        <3> HIDE DEF K
        <3> QED
            BY <2>1, ForemostExists
    <2>3. m.confidence >= c.confidence
        BY <2>1, <2>2 DEF Measured
    <2>4. \A o \in S : <<o.target, o.type>> = <<m.target, m.type>> => o \in K
        BY <2>2
    <2>5. m \in Normalize(S)
        BY <2>2, <2>4 DEF Normalize, Foremost
    <2> QED
        BY <2>2, <2>3, <2>5
<1>4. Normalize(S) \subseteq S
    BY DEF Normalize, Foremost
<1>5. PICK r \in Relationships(S) : r.label = m.label /\ r.type = m.type /\ r.confidence >= m.confidence
    <2> DEFINE K == {o \in Normalize(S) : o.label = m.label /\ o.type = m.type}
    <2>1. m \in K /\ \A x \in K : Measured(x)
        BY <1>1, <1>4
    <2>2. PICK r \in K : \A o \in K : o.confidence < r.confidence \/ (o.confidence = r.confidence /\ o.rank >= r.rank)
        <3> HIDE DEF K
        <3> QED
            BY <2>1, ForemostExists
    <2>3. r.confidence >= m.confidence
        BY <2>1, <2>2 DEF Measured
    <2>4. \A o \in Normalize(S) : <<o.label, o.type>> = <<r.label, r.type>> => o \in K
        BY <2>2
    <2>5. r \in Relationships(S)
        BY <2>2, <2>4 DEF Relationships, Foremost
    <2> QED
        BY <2>2, <2>3, <2>5
<1>6. r \in S
    BY <1>4 DEF Relationships, Foremost
<1>7. r.target = m.target
    BY <1>2, <1>4, <1>5, <1>6
<1>8. c \in S
    BY DEF S
<1>9. r.confidence >= c.confidence
    BY <1>1, <1>3, <1>4, <1>5, <1>6, <1>8 DEF Measured
<1> QED
    BY <1>3, <1>5, <1>7, <1>9 DEF S

\* The label of a node is that of a candidate for it.
LEMMA LabelsOfNodes ==
    ASSUME NEW S, \A c \in S : Measured(c)
    PROVE  /\ DOMAIN NodeLabels(S) = {c.target : c \in S}
           /\ \A n \in DOMAIN NodeLabels(S) : \E c \in S : c.target = n /\ c.label = NodeLabels(S)[n]
<1>1. DOMAIN NodeLabels(S) = {c.target : c \in S}
    BY DEF NodeLabels
<1>2. ASSUME NEW n \in {c.target : c \in S}
      PROVE  \E c \in S : c.target = n /\ c.label = NodeLabels(S)[n]
    <2> DEFINE First(c) == c.target = n /\ \A o \in S : o.target = n => c.rank <= o.rank
               K == {c \in S : c.target = n}
    <2>1. K # {} /\ \A c \in K : Measured(c)
        OBVIOUS
    <2>2. PICK m \in K : \A o \in K : m.rank <= o.rank
        <3> HIDE DEF K
        <3> QED
            BY <2>1, FirstExists
    <2>3. m \in S /\ First(m)
        BY <2>2
    <2> DEFINE first == CHOOSE c \in S : First(c)
    <2>4. first \in S /\ First(first)
        BY <2>3, Zenon
    <2>5. NodeLabels(S)[n] = first.label
        BY DEF NodeLabels
    <2> HIDE DEF first
    <2> QED
        BY <2>4, <2>5
<1> QED
    BY <1>1, <1>2

\* Every relationship a candidate proposes stands in the report of any contract, for
\* any findings, and its edge is drawn to the node that it is about: no two things go
\* by one name, so that the merge by label never drops a target.
THEOREM RelationshipsStand == Spec => []EdgesStand
<1>1. ReportInv /\ SeenInv => EdgesStand
    <2> SUFFICES ASSUME ReportInv, SeenInv, report # NoReport, NEW n \in Contracts(report.done),
                        NEW c \in report.done[n].architecture.candidates
                 PROVE  \E e \in report.done[n].architecture.edges :
                            LET r == e.relationship
                                a == report.done[n].architecture
                            IN  /\ r.target = c.target /\ r.type = c.type /\ r.confidence >= c.confidence
                                /\ e.end = IF a.labels[r.target] = r.label THEN r.target ELSE Contract
        BY DEF EdgesStand, Reported
    <2> DEFINE f == facts[n]
               b == AnalysisOf(f, results[n])
               d == b.intelligence.found
               S == Candidates(f, d)
               labels == NodeLabels(S)
    <2>1. n \in Nodes /\ report.done[n] = b /\ f.contract /\ IsFacts(f)
        <3>1. n \in Completed /\ report.done[n] = b /\ report.done[n].facts.contract
            BY ReportOfNode DEF Contracts
        <3> QED
            BY <3>1, AnalysisOfNode DEF Completed, SeenInv
    <2>2. Detection(d)
        BY <2>1, AnalysisDetects
    <2>3. b.architecture = Architecture(f, d)
        BY <2>1 DEF AnalysisOf, Analysis
    <2> HIDE DEF f, b, d
    <2>4. /\ b.architecture.candidates = S /\ b.architecture.labels = labels
          /\ b.architecture.edges = {[relationship |-> r, end |-> EdgeEnd(labels, r.label)] : r \in Relationships(S)}
        BY <2>3 DEF Architecture
    <2>5. \A x \in S : Measured(x)
        BY <2>1, <2>2, IntegrationSorts, OtherSorts
    <2>6. \A x, y \in S : x.label = y.label => x.target = y.target
        BY <2>1, <2>2, LabelTellsTarget
    <2>7. c \in S
        BY <2>1, <2>4
    <2>8. PICK r \in Relationships(S) : r.target = c.target /\ r.type = c.type /\ r.confidence >= c.confidence
        BY <2>1, <2>2, <2>7, CandidateIsTold
    <2> HIDE DEF S
    <2>9. r \in S
        BY AloneIsKept
    <2>10. /\ r.target \in DOMAIN labels
           /\ \A m \in DOMAIN labels : labels[m] = r.label => m = r.target
        <3>1. r.target \in DOMAIN labels
            <4>1. DOMAIN labels = {x.target : x \in S}
                BY <2>5, LabelsOfNodes
            <4> HIDE DEF labels
            <4> QED
                BY <2>9, <4>1
        <3>2. \A m \in DOMAIN labels : \E x \in S : x.target = m /\ x.label = labels[m]
            BY <2>5, LabelsOfNodes
        <3> HIDE DEF labels
        <3> QED
            BY <2>6, <2>9, <3>1, <3>2
    <2> HIDE DEF labels
    <2>11. EdgeEnd(labels, r.label) = IF labels[r.target] = r.label THEN r.target ELSE Contract
        <3> DEFINE known == {m \in DOMAIN labels : labels[m] = r.label}
        <3>1. CASE labels[r.target] = r.label
            <4>1. known = {r.target}
                BY <2>10, <3>1
            <4>2. EdgeEnd(labels, r.label) = IF known = {} THEN Contract ELSE CHOOSE m \in known : TRUE
                BY DEF EdgeEnd
            <4> HIDE DEF known
            <4>3. known # {} /\ (CHOOSE m \in known : TRUE) \in known
                BY <4>1
            <4> QED
                BY <3>1, <4>1, <4>2, <4>3
        <3>2. CASE labels[r.target] # r.label
            <4>1. known = {}
                BY <2>10, <3>2
            <4> QED
                BY <3>2, <4>1 DEF EdgeEnd
        <3> QED
            BY <3>1, <3>2
    <2> DEFINE e == [relationship |-> r, end |-> EdgeEnd(labels, r.label)]
    <2>12. e \in b.architecture.edges
        BY <2>4
    <2>13. e.relationship = r /\ e.end = IF labels[r.target] = r.label THEN r.target ELSE Contract
        BY <2>11
    <2> HIDE DEF e
    <2> QED
        BY <2>1, <2>4, <2>8, <2>12, <2>13
<1> QED
    BY ReportStands, FindingsStayFindings, <1>1, PTL

------------------------------------------------------------------------------
(* What a remedy leaves as it was                                              *)

\* Findings that differ in who is in charge at most
SameCode(x, y) ==
    /\ x.contract = y.contract /\ x.implementation = y.implementation /\ x.controls = y.controls
    /\ x.abilities = y.abilities /\ x.trade = y.trade /\ x.verified = y.verified /\ x.code = y.code
    /\ x.deployed = y.deployed /\ x.roles = y.roles /\ x.governed = y.governed /\ x.renounced = y.renounced
    /\ x.creator = y.creator /\ x.suspected = y.suspected /\ x.scam = y.scam

\* Findings that differ in the pool at most, which is on the same exchange
SameCharge(x, y) ==
    /\ SameCode(x, y) /\ x.admin = y.admin /\ x.adminType = y.adminType /\ x.owner = y.owner
    /\ x.ownerType = y.ownerType /\ x.delay = y.delay /\ x.wallet = y.wallet
    /\ x.pool = NoPool <=> y.pool = NoPool
    /\ x.pool.dex = y.pool.dex

LEMMA TimelockLeaves ==
    ASSUME NEW x, IsFacts(x), x.admin # NoAddress
    PROVE  LET y == BehindTimelock(x)
           IN  /\ SameCode(x, y) /\ y.pool = x.pool
               /\ y.delay = "delay" /\ y.admin # NoAddress /\ y.wallet = x.wallet \ {"treasury_multisig"}
<1>1. Timelock # NoAddress
    BY ReportAssumption
<1>2. DOMAIN x = DOMAIN BehindTimelock(x)
    BY DEF BehindTimelock
<1>3. SameCode(x, BehindTimelock(x))
    BY DEF SameCode, BehindTimelock, IsFacts
<1> QED
    BY <1>1, <1>3 DEF BehindTimelock, IsFacts

LEMMA LockLeaves ==
    ASSUME NEW x, IsFacts(x), x.pool # NoPool
    PROVE  LET y == [x EXCEPT !.pool.locked = TRUE]
           IN  /\ SameCharge(x, y)
               /\ y.pool # NoPool /\ y.pool.locked /\ y.pool.depth = x.pool.depth
<1> DEFINE y == [x EXCEPT !.pool.locked = TRUE]
<1>1. /\ DOMAIN y = DOMAIN x /\ y.pool = [x.pool EXCEPT !.locked = TRUE]
      /\ \A k \in DOMAIN x : k # "pool" => y[k] = x[k]
    BY DEF IsFacts
<1>2. /\ {"depth", "locked", "holder", "dex"} \subseteq DOMAIN x.pool
      /\ [x.pool EXCEPT !.locked = TRUE] # NoPool
    BY DEF IsFacts
<1>3. y.pool # NoPool /\ y.pool.locked /\ y.pool.depth = x.pool.depth /\ y.pool.dex = x.pool.dex
    BY <1>1, <1>2
<1> HIDE DEF y
<1>4. SameCode(x, y)
    BY <1>1 DEF SameCode, IsFacts
<1>5. /\ x.admin = y.admin /\ x.adminType = y.adminType /\ x.owner = y.owner
      /\ x.ownerType = y.ownerType /\ x.delay = y.delay /\ x.wallet = y.wallet
    BY <1>1 DEF IsFacts
<1>6. SameCharge(x, y)
    BY <1>3, <1>4, <1>5 DEF SameCharge
<1> QED
    BY <1>3, <1>6 DEF y

\* The protocols that are detected are those of the code.
LEMMA SameIntelligence ==
    ASSUME NEW x, NEW y, SameCode(x, y), NEW proxy, NEW r, NEW t
    PROVE  /\ Intelligence(x, proxy, r).found.bridge = Intelligence(y, proxy, t).found.bridge
           /\ Intelligence(x, proxy, r).found.oracle = Intelligence(y, proxy, t).found.oracle
           /\ Intelligence(x, proxy, r) = Intelligence(y, proxy, r)
<1>1. x.code = y.code /\ x.verified = y.verified /\ x.deployed = y.deployed
    BY DEF SameCode
<1>2. \A p : Hits(p, x) = Hits(p, y)
    BY <1>1 DEF Hits
<1>3. \A c : Matched(c, x) = Matched(c, y)
    BY <1>1, <1>2 DEF Matched
<1>4. \A c, p : Confidence(c, p, x) = Confidence(c, p, y)
    BY <1>1, <1>2 DEF Confidence
<1>5. \A c : Registered(c, x) = Registered(c, y)
    BY <1>1 DEF Registered
<1>6. ASSUME NEW c PROVE Detect(c, x) = Detect(c, y)
    <2> DEFINE I(p) == Item(p.name, IF p.selectors \subseteq x.code THEN p.role ELSE p.partial, Confidence(c, p, x))
               J(p) == Item(p.name, IF p.selectors \subseteq y.code THEN p.role ELSE p.partial, Confidence(c, p, y))
    <2>1. \A p : I(p) = J(p)
        BY <1>1, <1>4
    <2>2. Detect(c, x) = Best(Registered(c, x) \cup {I(p) : p \in Matched(c, x)})
        BY DEF Detect
    <2>3. Detect(c, y) = Best(Registered(c, y) \cup {J(p) : p \in Matched(c, y)})
        BY DEF Detect
    <2> HIDE DEF I, J
    <2> QED
        BY <1>3, <1>5, <2>1, <2>2, <2>3
<1>7. DetectDexes(x) = DetectDexes(y)
    <2> DEFINE I(p) == Item(p.name, "factory", Confidence("dex", p, x) - 5)
               J(p) == Item(p.name, "factory", Confidence("dex", p, y) - 5)
               F(S) == IF {"getPair", "getPool"} \cap x.code = {} THEN {} ELSE S
    <2>1. \A p : I(p) = J(p)
        BY <1>4
    <2>2. DetectDexes(x) = Best(Detect("dex", x) \cup F({I(p) : p \in Matched("dex", x)}))
        BY DEF DetectDexes
    <2>3. DetectDexes(y) = Best(Detect("dex", y) \cup F({J(p) : p \in Matched("dex", y)}))
        BY <1>1 DEF DetectDexes
    <2> HIDE DEF I, J, F
    <2>4. {I(p) : p \in Matched("dex", x)} = {J(p) : p \in Matched("dex", y)}
        BY <1>3, <2>1
    <2>5. Detect("dex", x) = Detect("dex", y)
        BY <1>6
    <2> QED
        BY <2>2, <2>3, <2>4, <2>5
<1>8. Intelligence(x, proxy, r) = Intelligence(y, proxy, r)
    BY <1>1, <1>6, <1>7 DEF Intelligence, DetectLending, DetectOracles, DetectBridges, DetectVaults, DetectNfts,
                            DetectGovernance
<1>9. /\ Intelligence(x, proxy, r).found.bridge = Intelligence(y, proxy, t).found.bridge
      /\ Intelligence(x, proxy, r).found.oracle = Intelligence(y, proxy, t).found.oracle
    BY <1>6 DEF Intelligence, DetectOracles, DetectBridges
<1> QED
    BY <1>8, <1>9

\* A lock changes nothing but the risk.
LEMMA SameSurface ==
    ASSUME NEW x, NEW y, SameCharge(x, y), NEW d
    PROVE  Architecture(x, d) = Architecture(y, d) /\ \A rs : Surface(x, d, rs) = Surface(y, d, rs)
<1>1. /\ x.contract = y.contract /\ x.implementation = y.implementation
      /\ x.abilities = y.abilities /\ x.trade = y.trade /\ x.verified = y.verified /\ x.code = y.code
      /\ x.roles = y.roles /\ x.governed = y.governed /\ x.renounced = y.renounced
      /\ x.creator = y.creator /\ x.suspected = y.suspected
      /\ x.admin = y.admin /\ x.adminType = y.adminType /\ x.owner = y.owner
      /\ x.ownerType = y.ownerType /\ x.delay = y.delay /\ x.wallet = y.wallet
      /\ x.pool = NoPool <=> y.pool = NoPool
      /\ x.pool.dex = y.pool.dex
    BY DEF SameCharge, SameCode
<1>2. /\ Upgradeable(x) <=> Upgradeable(y)
      /\ Timelocked(x) <=> Timelocked(y)
      /\ Suspected(x) <=> Suspected(y)
      /\ Confirmed(x) <=> Confirmed(y)
      /\ WalletOwner(x) = WalletOwner(y) /\ UpgradeAuthority(x) = UpgradeAuthority(y)
    BY <1>1 DEF Upgradeable, Timelocked, Suspected, Confirmed, WalletOwner, Or, UpgradeAuthority
<1>3. GovernanceType(x) = GovernanceType(y)
    BY <1>1 DEF GovernanceType, Upgradeable, Timelocked
<1>4. \A c : Controller(x, c) = Controller(y, c)
    BY <1>1 DEF Controller
<1>5. GovernanceCandidates(x) = GovernanceCandidates(y)
    BY <1>1, <1>2, <1>3 DEF GovernanceCandidates, If
<1>6. WalletCandidates(x) = WalletCandidates(y)
    BY <1>1, <1>2 DEF WalletCandidates
<1>7. LiquidityCandidates(x) = LiquidityCandidates(y)
    BY <1>1 DEF LiquidityCandidates
<1>8. ProxyCandidates(x) = ProxyCandidates(y)
    BY <1>1, <1>2 DEF ProxyCandidates, If
<1>9. CapabilityCandidates(x) = CapabilityCandidates(y)
    <2> DEFINE I(c) == Candidate(12000 + CapabilityRank[c], <<"wallet", Controller(x, c)>>, <<c, "Controller">>, "GOVERNED_BY", 78)
               J(c) == Candidate(12000 + CapabilityRank[c], <<"wallet", Controller(y, c)>>, <<c, "Controller">>, "GOVERNED_BY", 78)
    <2>1. \A c : I(c) = J(c)
        BY <1>4
    <2>2. CapabilityCandidates(x) = {I(c) : c \in x.abilities} /\ CapabilityCandidates(y) = {J(c) : c \in y.abilities}
        BY DEF CapabilityCandidates
    <2> HIDE DEF I, J
    <2> QED
        BY <1>1, <2>1, <2>2
<1>10. SourceCandidates(x) = SourceCandidates(y)
    BY <1>2 DEF SourceCandidates, If
<1>11. Candidates(x, d) = Candidates(y, d)
    BY <1>5, <1>6, <1>7, <1>8, <1>9, <1>10 DEF Candidates
<1>12. Architecture(x, d) = Architecture(y, d)
    BY <1>11 DEF Architecture
<1>13. IsProxy(x, d) <=> IsProxy(y, d)
    BY <1>2 DEF IsProxy
<1>14. Dependencies(x, d) = Dependencies(y, d)
    BY <1>1, <1>3, <1>13 DEF Dependencies
<1>15. TrustBoundaries(x, d) = TrustBoundaries(y, d)
    BY <1>1, <1>2, <1>13 DEF TrustBoundaries
<1>16. OtherEntities(x, d) = OtherEntities(y, d)
    BY <1>1, <1>2, <1>4 DEF OtherEntities
<1>17. PrivilegedEntities(x, d) = PrivilegedEntities(y, d)
    BY <1>1, <1>2, <1>16 DEF PrivilegedEntities
<1>18. CriticalAssets(x, d) = CriticalAssets(y, d)
    BY <1>1, <1>14 DEF CriticalAssets
<1>19. \A t : Matches(t, x, d) <=> Matches(t, y, d)
    BY <1>2, <1>14, <1>17 DEF Matches
<1>20. \A t : Boosted(t, x, d) = Boosted(t, y, d)
    BY <1>1, <1>17 DEF Boosted
<1>21. ASSUME NEW rs PROVE AttackPaths(x, d, rs) = AttackPaths(y, d, rs)
    <2> DEFINE I(t) == Path(<<t>>, Boosted(t, x, d))
               J(t) == Path(<<t>>, Boosted(t, y, d))
               S == {u \in DOMAIN Templates : Matches(u, x, d)}
               T == {u \in DOMAIN Templates : Matches(u, y, d)}
               A(z) == IF Suspected(z) THEN {Path(<<"honeypot_exit">>, IF Confirmed(z) THEN 90 ELSE 75)} ELSE {}
               B(z) == IF "mint" \in z.abilities /\ PrivilegedEntities(z, d) # {} THEN {Path(<<"mint_inflation">>, 80)} ELSE {}
               C == {Path(<<"rel_upgrade", r.label>>, r.confidence) : r \in {k \in rs : k.type = "UPGRADEABLE_BY"}}
    <2>1. AttackPaths(x, d, rs) = {I(t) : t \in S} \cup A(x) \cup B(x) \cup C
        BY DEF AttackPaths
    <2>2. AttackPaths(y, d, rs) = {J(t) : t \in T} \cup A(y) \cup B(y) \cup C
        BY DEF AttackPaths
    <2>3. S = T
        BY <1>19
    <2>4. \A t : I(t) = J(t)
        BY <1>20
    <2>5. A(x) = A(y)
        BY <1>2
    <2>6. B(x) = B(y)
        BY <1>1, <1>17
    <2> HIDE DEF I, J, S, T, A, B, C
    <2> QED
        BY <2>1, <2>2, <2>3, <2>4, <2>5, <2>6
<1> QED
    BY <1>12, <1>14, <1>15, <1>17, <1>18, <1>21 DEF Surface

------------------------------------------------------------------------------
(* What a remedy does to the risk                                              *)

LEMMA TakenOut ==
    ASSUME NEW w, NEW S, IsFiniteSet(S), \A x \in S : w[x] \in Int, NEW a
    PROVE  /\ SumFunctionOnSet(w, S) \in Int /\ SumFunctionOnSet(w, S \ {a}) \in Int
           /\ SumFunctionOnSet(w, S) = (IF a \in S THEN w[a] ELSE 0) + SumFunctionOnSet(w, S \ {a})
<1>1. IsFiniteSet(S \ {a}) /\ \A x \in S \ {a} : w[x] \in Int
    BY FS_Difference
<1>2. SumFunctionOnSet(w, S) \in Int /\ SumFunctionOnSet(w, S \ {a}) \in Int
    BY <1>1, SumOfTerms
<1>3. CASE a \in S
    <2>1. SumFunctionOnSet(w, S) = w[a] + SumFunctionOnSet(w, S \ {a})
        BY <1>3, SumOfTerms
    <2> QED
        BY <1>2, <1>3, <2>1
<1>4. CASE a \notin S
    <2>1. S \ {a} = S
        BY <1>4
    <2> QED
        BY <1>2, <1>4, <2>1
<1> QED
    BY <1>3, <1>4

LEMMA Points ==
    LET w == Weight("points")
    IN  /\ w["admin_timelock"] = 12 /\ w["admin_multisig"] = 15 /\ w["admin_contract"] = 28 /\ w["admin_eoa"] = 35
        /\ w["upgradeable"] = 35 /\ w["implementation_exposed"] = 30 /\ w["treasury_multisig"] = -10
        /\ w["exchange_funded_deployer"] = -5 /\ w["unlocked_lp"] = 22 /\ w["single_wallet_lp"] = 15
        /\ \A s \in Signals : w[s] \in Nat \/ s \in {"treasury_multisig", "exchange_funded_deployer"}
<1>1. \A s \in Signals : Weights[s].points \in Nat \/ s \in {"treasury_multisig", "exchange_funded_deployer"}
    BY DEF Signals, Weights, W
<1>2. /\ Weights["admin_timelock"].points = 12 /\ Weights["admin_multisig"].points = 15
      /\ Weights["admin_contract"].points = 28 /\ Weights["admin_eoa"].points = 35
      /\ Weights["upgradeable"].points = 35 /\ Weights["implementation_exposed"].points = 30
      /\ Weights["treasury_multisig"].points = -10 /\ Weights["exchange_funded_deployer"].points = -5
      /\ Weights["unlocked_lp"].points = 22 /\ Weights["single_wallet_lp"].points = 15
    BY DEF Weights, W
<1>3. {"admin_timelock", "admin_multisig", "admin_contract", "admin_eoa", "upgradeable", "implementation_exposed",
       "treasury_multisig", "exchange_funded_deployer", "unlocked_lp", "single_wallet_lp"} \subseteq Signals
    BY DEF Signals, Weights
<1> QED
    BY <1>1, <1>2, <1>3 DEF Weight

\* What the evidence of an upgradeable contract has, and what a timelock makes of it
LEMMA TimelockEvidence ==
    ASSUME NEW x, IsFacts(x), x.contract, x.admin # NoAddress, Upgradeable(x), ~Timelocked(x)
    PROVE  \E R : \E adm \in {"admin_multisig", "admin_contract", "admin_eoa"} :
               /\ R \cap {"admin_timelock", "treasury_multisig", adm} = {}
               /\ {"upgradeable", "implementation_exposed"} \subseteq R
               /\ Evidence(x) = R \cup {adm} \cup (x.wallet \cap {"treasury_multisig"})
               /\ Evidence(BehindTimelock(x)) = R \cup {"admin_timelock"}
<1> DEFINE y == BehindTimelock(x)
           treasury == {"treasury_multisig"}
           R == ProxyEvidence(x) \cup x.abilities \cup HoneypotEvidence(x) \cup SimulationEvidence(x)
                \cup LiquidityEvidence(x.pool) \cup (x.wallet \ treasury)
<1>1. /\ SameCode(x, y) /\ y.pool = x.pool /\ y.delay = "delay" /\ y.admin # NoAddress
      /\ y.wallet = x.wallet \ treasury
    BY TimelockLeaves
<1> HIDE DEF y
<1>2. /\ y.contract /\ y.implementation = x.implementation /\ y.controls = x.controls /\ y.abilities = x.abilities
      /\ y.trade = x.trade
    BY <1>1 DEF SameCode
<1>3. ProxyEvidence(y) = ProxyEvidence(x) /\ HoneypotEvidence(y) = HoneypotEvidence(x)
      /\ SimulationEvidence(y) = SimulationEvidence(x)
    BY <1>1, <1>2 DEF ProxyEvidence, HoneypotEvidence, SimulationEvidence, When
<1>4. AdminEvidence(y) = {"admin_timelock"}
    BY <1>1 DEF AdminEvidence
<1>5. PICK adm \in {"admin_multisig", "admin_contract", "admin_eoa"} : AdminEvidence(x) = {adm}
    BY DEF AdminEvidence, Timelocked
<1>6. Evidence(y) = R \cup {"admin_timelock"}
    BY <1>1, <1>2, <1>3, <1>4 DEF Evidence
<1>7. Evidence(x) = R \cup {adm} \cup (x.wallet \cap treasury)
    BY <1>5 DEF Evidence
<1>8. {"upgradeable", "implementation_exposed"} \subseteq R
    BY DEF ProxyEvidence, Upgradeable
<1>9. x.abilities \subseteq Capabilities /\ x.wallet \subseteq WalletFindings /\ HoneypotEvidence(x) \subseteq Controls
    BY DEF IsFacts, HoneypotEvidence
<1>10. R \cap {"admin_timelock", "treasury_multisig", adm} = {}
    BY <1>5, <1>9 DEF Capabilities, WalletFindings, Controls, ProxyEvidence, SimulationEvidence, LiquidityEvidence, When
<1> HIDE DEF R
<1> QED
    BY <1>6, <1>7, <1>8, <1>10 DEF y

LEMMA ClampGrows == \A m, n \in Int : m <= n => Clamp(m) <= Clamp(n)
BY DEF Clamp

\* A timelock lowers the risk, but for the treasury, and then it was high before.
LEMMA TimelockScore ==
    ASSUME NEW x, IsFacts(x), x.admin # NoAddress, Upgradeable(x), ~Timelocked(x)
    PROVE  LET y == BehindTimelock(x)
           IN  /\ "treasury_multisig" \notin x.wallet => Score(Evidence(y)) <= Score(Evidence(x))
               /\ Score(Evidence(y)) >= 50 => Score(Evidence(x)) >= 50
<1> DEFINE y == BehindTimelock(x)
           w == Weight("points")
           Sum(S) == SumFunctionOnSet(w, S)
<1>1. CASE ~x.contract
    <2>1. SameCode(x, y)
        BY TimelockLeaves
    <2>2. Evidence(x) = {"not_contract"} /\ Evidence(y) = {"not_contract"}
        BY <1>1, <2>1 DEF SameCode, Evidence
    <2>3. Score(Evidence(x)) \in 0 .. 100
        BY Scored
    <2> QED
        BY <2>2, <2>3
<1>2. CASE x.contract
    <2>1. PICK R : \E adm \in {"admin_multisig", "admin_contract", "admin_eoa"} :
               /\ R \cap {"admin_timelock", "treasury_multisig", adm} = {}
               /\ {"upgradeable", "implementation_exposed"} \subseteq R
               /\ Evidence(x) = R \cup {adm} \cup (x.wallet \cap {"treasury_multisig"})
               /\ Evidence(y) = R \cup {"admin_timelock"}
        BY <1>2, TimelockEvidence
    <2>2. PICK adm \in {"admin_multisig", "admin_contract", "admin_eoa"} :
               /\ R \cap {"admin_timelock", "treasury_multisig", adm} = {}
               /\ {"upgradeable", "implementation_exposed"} \subseteq R
               /\ Evidence(x) = R \cup {adm} \cup (x.wallet \cap {"treasury_multisig"})
               /\ Evidence(y) = R \cup {"admin_timelock"}
        BY <2>1
    <2>3. /\ IsFiniteSet(Evidence(x)) /\ IsFiniteSet(Evidence(y))
          /\ Evidence(x) \subseteq Signals /\ Evidence(y) \subseteq Signals
        BY FindingsFinite, HardenedFacts
    <2>4. /\ \A s \in Signals : w[s] \in Int
          /\ w["admin_timelock"] = 12 /\ w[adm] \in Nat /\ w[adm] >= 15 /\ w["upgradeable"] = 35
          /\ w["implementation_exposed"] = 30 /\ w["treasury_multisig"] = -10 /\ w["exchange_funded_deployer"] = -5
          /\ \A s \in Signals : w[s] \in Nat \/ s \in {"treasury_multisig", "exchange_funded_deployer"}
        BY Points, PointsAreNumbers
    <2> HIDE DEF w, y
    <2> DEFINE a == Evidence(x) \ {"treasury_multisig"}
    <2>5. IsFiniteSet(a) /\ a \subseteq Signals /\ a \ {adm} = R /\ adm \in a /\ IsFiniteSet(R)
        <3>1. a \ {adm} = R /\ adm \in a
            BY <2>2
        <3>2. IsFiniteSet(a) /\ a \subseteq Signals
            BY <2>3, FS_Difference
        <3>3. R \subseteq a
            BY <3>1
        <3> QED
            BY <3>1, <3>2, <3>3, FS_Subset
    <2>6. /\ Sum(Evidence(x)) \in Int /\ Sum(a) \in Int
          /\ Sum(Evidence(x)) = (IF "treasury_multisig" \in Evidence(x) THEN -10 ELSE 0) + Sum(a)
        BY <2>3, <2>4, TakenOut
    <2>7. Sum(R) \in Int /\ Sum(a) = w[adm] + Sum(R)
        <3> HIDE DEF a
        <3>1. Sum(a \ {adm}) \in Int /\ Sum(a) = w[adm] + Sum(a \ {adm})
            BY <2>4, <2>5, TakenOut
        <3> QED
            BY <2>5, <3>1
    <2>8. Sum(Evidence(y)) \in Int /\ Sum(Evidence(y)) = 12 + Sum(R)
        <3>1. /\ Sum(Evidence(y)) \in Int
              /\ Sum(Evidence(y)) = 12 + Sum(Evidence(y) \ {"admin_timelock"})
            BY <2>2, <2>3, <2>4, TakenOut
        <3>2. Evidence(y) \ {"admin_timelock"} = R
            BY <2>2
        <3> QED
            BY <3>1, <3>2
    <2>9. Sum(R) >= 60
        <3> DEFINE b == R \ {"upgradeable"}
                   c == b \ {"implementation_exposed"}
                   d == c \ {"exchange_funded_deployer"}
        <3>1. IsFiniteSet(b) /\ IsFiniteSet(c) /\ IsFiniteSet(d) /\ R \subseteq Signals
            BY <2>5, FS_Difference
        <3>2. Sum(b) \in Int /\ Sum(R) = 35 + Sum(b)
            BY <2>2, <2>4, <2>5, <3>1, TakenOut
        <3>3. "implementation_exposed" \in b /\ b \subseteq Signals /\ c \subseteq Signals
            BY <2>2, <3>1
        <3>4. \A s \in d : w[s] \in Nat
            BY <2>2, <2>4, <3>3
        <3> HIDE DEF b
        <3>5. Sum(c) \in Int /\ Sum(b) = 30 + Sum(c)
            BY <2>4, <3>1, <3>3, TakenOut
        <3> HIDE DEF c
        <3>6. Sum(d) \in Int /\ Sum(c) = (IF "exchange_funded_deployer" \in c THEN -5 ELSE 0) + Sum(d)
            BY <2>4, <3>1, <3>3, TakenOut
        <3> HIDE DEF d
        <3>7. Sum(d) \in Nat
            BY <3>1, <3>4, SumOfNaturals
        <3> QED
            BY <3>2, <3>5, <3>6, <3>7
    <2>10. "treasury_multisig" \in Evidence(x) => "treasury_multisig" \in x.wallet
        BY <2>2
    <2>11. Score(Evidence(x)) = Clamp(Sum(Evidence(x))) /\ Score(Evidence(y)) = Clamp(Sum(Evidence(y)))
        BY DEF Score, w
    <2> HIDE DEF a, Sum
    <2>12. Sum(Evidence(x)) >= 50
        BY <2>4, <2>6, <2>7, <2>9
    <2>13. Clamp(Sum(Evidence(x))) >= 50
        BY <2>6, <2>12 DEF Clamp
    <2>14. "treasury_multisig" \notin x.wallet => Sum(Evidence(y)) <= Sum(Evidence(x))
        BY <2>4, <2>6, <2>7, <2>8, <2>10
    <2> QED
        BY <2>6, <2>8, <2>11, <2>13, <2>14, ClampGrows DEF y
<1> QED
    BY <1>1, <1>2

\* Locked liquidity lowers the risk.
LEMMA LockScore ==
    ASSUME NEW x, IsFacts(x), x.pool # NoPool
    PROVE  LET y == [x EXCEPT !.pool.locked = TRUE]
           IN  Evidence(y) \subseteq Evidence(x) /\ Score(Evidence(y)) <= Score(Evidence(x))
<1> DEFINE y == [x EXCEPT !.pool.locked = TRUE]
           w == Weight("points")
           Sum(S) == SumFunctionOnSet(w, S)
           open == {"unlocked_lp", "single_wallet_lp"}
           E == Evidence(x)
<1>1. SameCharge(x, y) /\ y.pool # NoPool /\ y.pool.locked /\ y.pool.depth = x.pool.depth
    BY LockLeaves
<1>2. IsFiniteSet(E) /\ E \subseteq Signals
    BY FindingsFinite
<1> HIDE DEF y
<1>3. /\ y.contract = x.contract /\ y.implementation = x.implementation /\ y.controls = x.controls
      /\ y.abilities = x.abilities /\ y.trade = x.trade /\ y.admin = x.admin /\ y.delay = x.delay
      /\ y.ownerType = x.ownerType /\ y.adminType = x.adminType /\ y.wallet = x.wallet
    BY <1>1 DEF SameCharge, SameCode
<1>4. /\ ProxyEvidence(y) = ProxyEvidence(x) /\ HoneypotEvidence(y) = HoneypotEvidence(x)
      /\ SimulationEvidence(y) = SimulationEvidence(x) /\ AdminEvidence(y) = AdminEvidence(x)
    BY <1>3 DEF ProxyEvidence, HoneypotEvidence, SimulationEvidence, AdminEvidence
<1>5. LiquidityEvidence(y.pool) = LiquidityEvidence(x.pool) \ open
    BY <1>1 DEF LiquidityEvidence, When
<1>6. /\ x.abilities \subseteq Capabilities /\ x.wallet \subseteq WalletFindings
      /\ HoneypotEvidence(x) \subseteq Controls
    BY DEF IsFacts, HoneypotEvidence
<1> DEFINE R == ProxyEvidence(x) \cup AdminEvidence(x) \cup x.abilities \cup HoneypotEvidence(x)
                \cup SimulationEvidence(x) \cup x.wallet
<1>7. R \cap open = {}
    BY <1>6 DEF Capabilities, WalletFindings, Controls, ProxyEvidence, AdminEvidence, SimulationEvidence, When
<1>8. x.contract => E = R \cup LiquidityEvidence(x.pool) /\ Evidence(y) = R \cup LiquidityEvidence(y.pool)
    BY <1>3, <1>4 DEF Evidence
<1>9. ~x.contract => E = {"not_contract"} /\ Evidence(y) = {"not_contract"}
    BY <1>3 DEF Evidence
<1> HIDE DEF R
<1>10. Evidence(y) = E \ open
    BY <1>5, <1>7, <1>8, <1>9
<1> DEFINE a == E \ {"unlocked_lp"}
           b == a \ {"single_wallet_lp"}
<1>11. b = Evidence(y) /\ a \subseteq Signals /\ IsFiniteSet(a)
    BY <1>2, <1>10, FS_Difference
<1>12. w["unlocked_lp"] = 22 /\ w["single_wallet_lp"] = 15 /\ \A s \in Signals : w[s] \in Int
    BY Points, PointsAreNumbers
<1> HIDE DEF w, E
<1>13. Sum(E) \in Int /\ Sum(a) \in Int /\ Sum(E) = (IF "unlocked_lp" \in E THEN 22 ELSE 0) + Sum(a)
    BY <1>2, <1>12, TakenOut
<1> HIDE DEF a
<1>14. Sum(b) \in Int /\ Sum(a) = (IF "single_wallet_lp" \in a THEN 15 ELSE 0) + Sum(b)
    BY <1>11, <1>12, TakenOut
<1>15. Score(E) = Clamp(Sum(E)) /\ Score(Evidence(y)) = Clamp(Sum(b))
    BY <1>11 DEF Score, w
<1> HIDE DEF b, Sum
<1>16. Sum(b) <= Sum(E)
    BY <1>13, <1>14
<1> QED
    BY <1>10, <1>13, <1>14, <1>15, <1>16, ClampGrows DEF y, E

\* A sum is zero when its terms are.
LEMMA SumOfNothing ==
    ASSUME NEW S, IsFiniteSet(S), NEW w, \A x \in S : w[x] = 0
    PROVE  SumFunctionOnSet(w, S) = 0
<1> DEFINE Bad == {t \in SUBSET S : SumFunctionOnSet(w, t) # 0}
<1>1. Bad \in SUBSET SUBSET S
    OBVIOUS
<1>2. ASSUME Bad # {} PROVE FALSE
    <2> HIDE DEF Bad
    <2>1. PICK t \in Bad : \A u \in Bad : u \subseteq t => u = t
        BY <1>1, <1>2, LeastSubset
    <2>2. t \in SUBSET S /\ SumFunctionOnSet(w, t) # 0
        BY <2>1 DEF Bad
    <2>3. IsFiniteSet(t) /\ \A x \in t : w[x] \in Int
        BY <2>2, FS_Subset
    <2>4. PICK x \in t : TRUE
        BY <2>2, <2>3, SumOfTerms
    <2>5. SumFunctionOnSet(w, t) = w[x] + SumFunctionOnSet(w, t \ {x})
        BY <2>3, SumOfTerms
    <2>6. SumFunctionOnSet(w, t \ {x}) = 0
        BY <2>1, <2>2, <2>4 DEF Bad
    <2> QED
        BY <2>2, <2>4, <2>5, <2>6
<1> QED
    BY <1>2

\* There are privileges over the protocol when there are over one of its contracts.
LEMMA SomeonePrivileged ==
    ASSUME NEW done, IsDone(done)
    PROVE  Total(done, LAMBDA a : Cardinality(a.surface.privileged)) > 0
                <=> \E n \in Contracts(done) : done[n].surface.privileged # {}
<1> DEFINE C == Contracts(done)
           w == [n \in C |-> Cardinality(done[n].surface.privileged)]
<1>1. IsFiniteSet(C)
    BY Counted
<1>2. \A n \in C : w[n] \in Nat /\ (w[n] = 0 <=> done[n].surface.privileged = {})
    <2> TAKE n \in C
    <2>1. IsFiniteSet(done[n].surface.privileged)
        BY DoneParts DEF Contracts, SurfaceFinite
    <2> QED
        BY <2>1, FS_CardinalityType, FS_EmptySet
<1>3. Total(done, LAMBDA a : Cardinality(a.surface.privileged)) = SumFunctionOnSet(w, C)
    BY DEF Total, SumFunction
<1> HIDE DEF w
<1>4. SumFunctionOnSet(w, C) \in Nat /\ \A n \in C : w[n] <= SumFunctionOnSet(w, C)
    BY <1>1, <1>2, SumOfNaturals
<1>5. (\A n \in C : w[n] = 0) => SumFunctionOnSet(w, C) = 0
    BY <1>1, SumOfNothing
<1> HIDE DEF C
<1>6. SumFunctionOnSet(w, C) > 0 <=> \E n \in C : done[n].surface.privileged # {}
    BY <1>2, <1>4, <1>5
<1> QED
    BY <1>3, <1>6 DEF C

------------------------------------------------------------------------------
(* What a remedy does to the report                                            *)

AtRisk(a) == a.assessment.level = "HIGH" \/ a.assessment.score >= 50
Open(f) == f.pool # NoPool /\ ~f.pool.locked

\* Whatever the report holds against the new analysis b it held against the old, a.
Better(a, b) ==
    /\ b.facts.contract = a.facts.contract /\ b.facts.scam = a.facts.scam
    /\ EvidenceOf(b) \ {"admin_timelock"} \subseteq EvidenceOf(a)
    /\ AtRisk(b) => AtRisk(a)
    /\ Upgradeable(b.facts) <=> Upgradeable(a.facts)
    /\ Timelocked(a.facts) => Timelocked(b.facts)
    /\ EoaWithoutTimelock(b.facts) => EoaWithoutTimelock(a.facts)
    /\ b.facts.admin = NoAddress <=> a.facts.admin = NoAddress
    /\ Open(b.facts) => Open(a.facts)
    /\ a.facts.contract =>
        /\ b.intelligence.found.bridge = a.intelligence.found.bridge
        /\ b.intelligence.found.oracle = a.intelligence.found.oracle
        /\ b.surface.paths # {} => a.surface.paths # {}
        /\ b.surface.privileged # {} => a.surface.privileged # {}

\* The findings of a report that is better in every node
LEMMA FindingsHelped ==
    ASSUME NEW old, NEW new, IsDone(old), IsDone(new), DOMAIN new = DOMAIN old,
           \A n \in DOMAIN old : Better(old[n], new[n])
    PROVE  Findings(new) \subseteq Findings(old)
<1> DEFINE e == Pooled(new)
           o == Pooled(old)
           Privileged(done) == Total(done, LAMBDA a : Cardinality(a.surface.privileged)) > 0
<1>1. Contracts(new) = Contracts(old)
    BY DEF Contracts, Better
<1>2. e \ {"admin_timelock"} \subseteq o
    BY DEF Pooled, Better
<1>3. EoaAdmin(new) => EoaAdmin(old)
    <2> DEFINE A(done) == {n \in DOMAIN done : done[n].facts.admin # NoAddress}
    <2>1. A(new) = A(old)
        BY DEF Better
    <2>2. \A done : EoaAdmin(done) <=> \E n \in A(done) :
            EoaWithoutTimelock(done[n].facts) /\ \A m \in A(done) : m < n => ~Timelocked(done[m].facts)
        BY DEF EoaAdmin
    <2>3. \A n \in A(old) : /\ Timelocked(old[n].facts) => Timelocked(new[n].facts)
                            /\ EoaWithoutTimelock(new[n].facts) => EoaWithoutTimelock(old[n].facts)
        BY DEF Better
    <2> HIDE DEF A
    <2> QED
        BY <2>1, <2>2, <2>3
<1>4. \A c \in {"bridge", "oracle"} : Found(new, c) = Found(old, c)
    <2>1. \A n \in Contracts(old) : /\ new[n].intelligence.found.bridge = old[n].intelligence.found.bridge
                                    /\ new[n].intelligence.found.oracle = old[n].intelligence.found.oracle
        BY DEF Better, Contracts
    <2>2. Found(new, "bridge") = Found(old, "bridge")
        BY <1>1, <2>1 DEF Found
    <2>3. Found(new, "oracle") = Found(old, "oracle")
        BY <1>1, <2>1 DEF Found
    <2> QED
        BY <2>2, <2>3
<1>5. Admins(new) # {} => Admins(old) # {}
    BY DEF Admins, Better
<1>6. Privileged(new) => Privileged(old)
    <2>1. (\E n \in Contracts(new) : new[n].surface.privileged # {})
            => \E n \in Contracts(old) : old[n].surface.privileged # {}
        BY <1>1 DEF Contracts, Better
    <2>2. Privileged(new) <=> \E n \in Contracts(new) : new[n].surface.privileged # {}
        BY SomeonePrivileged
    <2>3. Privileged(old) <=> \E n \in Contracts(old) : old[n].surface.privileged # {}
        BY SomeonePrivileged
    <2> QED
        BY <2>1, <2>2, <2>3
<1> DEFINE R1(done) == When("upgradeable" \in Pooled(done) /\ EoaAdmin(done), "critical_governance_centralization")
           R2(done) == When("mint" \in Pooled(done) /\ Pooled(done) \cap {"no_liquidity", "low_liquidity"} # {},
                            "exit_liquidity_risk")
           R3(done) == When("upgradeable" \in Pooled(done) /\ Found(done, "bridge") # {}, "bridge_upgrade_risk")
           R4(done) == When(Found(done, "oracle") # {} /\ (Admins(done) # {} \/ "upgradeable" \in Pooled(done)),
                            "oracle_manipulation_risk")
           R5(done) == When({"mint", "fresh_deployer"} \subseteq Pooled(done)
                              /\ Pooled(done) \cap {"wallet_known_scam", "tornado_funded_deployer"} # {},
                            "potential_rug_pull_pattern")
           R6(done) == When(Pooled(done) \cap Capabilities # {} /\ Privileged(done), "centralized_administrative_control")
<1>7. \A done : Findings(done) = R1(done) \cup R2(done) \cup R3(done) \cup R4(done) \cup R5(done) \cup R6(done)
    BY DEF Findings
<1> HIDE DEF Privileged
<1>8. R1(new) \subseteq R1(old)
    BY <1>2, <1>3 DEF When
<1>9. R2(new) \subseteq R2(old)
    BY <1>2 DEF When
<1>10. R3(new) \subseteq R3(old)
    BY <1>2, <1>4 DEF When
<1>11. R4(new) \subseteq R4(old)
    BY <1>2, <1>4, <1>5 DEF When
<1>12. R5(new) \subseteq R5(old)
    BY <1>2 DEF When
<1>13. R6(new) \subseteq R6(old)
    BY <1>2, <1>6 DEF When, Capabilities
<1> HIDE DEF R1, R2, R3, R4, R5, R6
<1> QED
    BY <1>7, <1>8, <1>9, <1>10, <1>11, <1>12, <1>13

\* and its recommendations
LEMMA ReportHelped ==
    ASSUME NEW old, NEW new, IsDone(old), IsDone(new), DOMAIN new = DOMAIN old,
           \A n \in DOMAIN old : Better(old[n], new[n])
    PROVE  Recommendations(new, {}, {}) \subseteq Recommendations(old, {}, {})
<1>1. RiskRecommendations(new) \subseteq RiskRecommendations(old)
    BY DEF RiskRecommendations, Of, Better, AtRisk
<1>2. UpgradeRecommendations(new) \subseteq UpgradeRecommendations(old)
    BY DEF UpgradeRecommendations, Of, Those, Better
<1>3. LiquidityRecommendations(new) \subseteq LiquidityRecommendations(old)
    BY DEF LiquidityRecommendations, Of, Those, Better, Open
<1>4. GovernanceRecommendations(new) \subseteq GovernanceRecommendations(old)
    <2>1. Admins(new) # {} => Admins(old) # {}
        BY DEF Admins, Better
    <2>2. Those(new, Timelocked) = {} => Those(old, Timelocked) = {}
        BY DEF Those, Better
    <2> QED
        BY <2>1, <2>2 DEF GovernanceRecommendations, When
<1>5. WalletRecommendations(new) \subseteq WalletRecommendations(old)
    <2>1. "tornado_funded_deployer" \in Pooled(new) => "tornado_funded_deployer" \in Pooled(old)
        BY DEF Pooled, Better
    <2>2. Those(new, LAMBDA f : f.scam) = Those(old, LAMBDA f : f.scam)
        BY DEF Those, Better
    <2> QED
        BY <2>1, <2>2 DEF WalletRecommendations, When
<1>6. ThreatRecommendations(new) \subseteq ThreatRecommendations(old)
    BY DEF ThreatRecommendations, When, Contracts, Better
<1>7. CorrelationRecommendations(new) \subseteq CorrelationRecommendations(old)
    BY FindingsHelped DEF CorrelationRecommendations
<1> QED
    BY <1>1, <1>2, <1>3, <1>4, <1>5, <1>6, <1>7 DEF Recommendations

LEMMA UpgradesHelped ==
    ASSUME NEW old, NEW new, IsDone(old), IsDone(new), DOMAIN new = DOMAIN old,
           \A n \in DOMAIN old : Better(old[n], new[n])
    PROVE  Upgradeability(new) <= Upgradeability(old)
<1> DEFINE U(done) == {n \in DOMAIN done : Upgradeable(done[n].facts)}
           T(done) == {n \in DOMAIN done : Upgradeable(done[n].facts) /\ Timelocked(done[n].facts)}
<1>1. U(new) = U(old) /\ T(old) \subseteq T(new)
    BY DEF Better
<1>2. T(new) \subseteq DOMAIN new /\ U(new) \subseteq DOMAIN new /\ T(old) \subseteq DOMAIN old
    OBVIOUS
<1>3. \A done : Upgradeability(done) = Clamp(25 * Cardinality(U(done)) - 10 * Cardinality(T(done)))
    BY DEF Upgradeability, HowMany, Those
<1>4. IsFiniteSet(DOMAIN new)
    BY DEF IsDone
<1> HIDE DEF U, T
<1>5. IsFiniteSet(T(new)) /\ IsFiniteSet(U(new))
    BY <1>2, <1>4, FS_Subset
<1>6. /\ Cardinality(T(new)) \in Nat /\ Cardinality(T(old)) \in Nat /\ Cardinality(U(new)) \in Nat
      /\ Cardinality(T(old)) <= Cardinality(T(new))
    BY <1>1, <1>5, FS_Subset, FS_CardinalityType
<1> DEFINE u == Cardinality(U(new))
           s == Cardinality(T(old))
           t == Cardinality(T(new))
<1>7. Upgradeability(new) = Clamp(25 * u - 10 * t) /\ Upgradeability(old) = Clamp(25 * u - 10 * s)
    BY <1>1, <1>3
<1> HIDE DEF u, s, t
<1>8. u \in Nat /\ s \in Nat /\ t \in Nat /\ s <= t
    BY <1>6 DEF u, s, t
<1> QED
    BY <1>7, <1>8 DEF Clamp

\* What was done is no longer asked for.
LEMMA NoLongerCalled ==
    ASSUME NEW done, NEW n \in DOMAIN done
    PROVE  /\ Timelocked(done[n].facts) =>
                {<<"upgrade.unprotected", n>>, <<"governance.no_timelock">>} \cap Recommendations(done, {}, {}) = {}
           /\ ~Open(done[n].facts) => <<"liquidity.unlocked", n>> \notin Recommendations(done, {}, {})
<1> DEFINE heads == {"upgrade.unprotected", "governance.no_timelock", "liquidity.unlocked"}
<1>1. \A r \in RiskRecommendations(done) : r[1] \notin heads
    BY DEF RiskRecommendations, Of
<1>2. \A r \in UpgradeRecommendations(done) :
        r[1] = "upgrade.unprotected" /\ (r = <<"upgrade.unprotected", n>> => ~Timelocked(done[n].facts))
    BY DEF UpgradeRecommendations, Of, Those
<1>3. \A r \in LiquidityRecommendations(done) :
        r[1] = "liquidity.unlocked" /\ (r = <<"liquidity.unlocked", n>> => Open(done[n].facts))
    BY DEF LiquidityRecommendations, Of, Those, Open
<1>4. \A r \in GovernanceRecommendations(done) : r[1] = "governance.no_timelock" /\ ~Timelocked(done[n].facts)
    BY DEF GovernanceRecommendations, Those, When
<1>5. \A r \in WalletRecommendations(done) : r[1] \notin heads
    <2>1. \A c, s : When(c, s) \subseteq {s}
        BY DEF When
    <2>2. WalletRecommendations(done) \subseteq {<<"wallet.known_scam">>, <<"wallet.tornado_funded">>}
        BY <2>1, Zenon DEF WalletRecommendations
    <2>3. \A r \in {<<"wallet.known_scam">>, <<"wallet.tornado_funded">>} : r[1] \notin heads
        OBVIOUS
    <2> QED
        BY <2>2, <2>3
<1>6. \A r \in ThreatRecommendations(done) : r[1] \notin heads
    BY DEF ThreatRecommendations, When
<1>7. \A r \in CorrelationRecommendations(done) : r[1] \notin heads
    BY DEF CorrelationRecommendations
<1>8. CoverageRecommendations({}, {}) = {}
    BY DEF CoverageRecommendations, When
<1>9. /\ <<"upgrade.unprotected", n>>[1] = "upgrade.unprotected" /\ <<"governance.no_timelock">>[1] = "governance.no_timelock"
      /\ <<"liquidity.unlocked", n>>[1] = "liquidity.unlocked"
    OBVIOUS
<1> DEFINE A == CoverageRecommendations({}, {})
           B == RiskRecommendations(done)
           C == UpgradeRecommendations(done)
           D == GovernanceRecommendations(done)
           E == WalletRecommendations(done)
           F == LiquidityRecommendations(done)
           G == ThreatRecommendations(done)
           H == CorrelationRecommendations(done)
<1>10. Recommendations(done, {}, {}) = A \cup B \cup C \cup D \cup E \cup F \cup G \cup H
    BY DEF Recommendations
<1> HIDE DEF A, B, C, D, E, F, G, H
<1>11. \A r \in Recommendations(done, {}, {}) :
            /\ r = <<"upgrade.unprotected", n>> => r \in C
            /\ r = <<"governance.no_timelock">> => r \in D
            /\ r = <<"liquidity.unlocked", n>> => r \in F
    BY <1>1, <1>2, <1>3, <1>4, <1>5, <1>6, <1>7, <1>8, <1>9, <1>10 DEF A, B, C, D, E, F, G, H
<1> QED
    BY <1>2, <1>3, <1>4, <1>11 DEF C, D, F

\* What was done to a contract
Remedied(remedy, x, y) ==
    \/ /\ remedy = "timelock" /\ x.admin # NoAddress /\ Upgradeable(x) /\ ~Timelocked(x)
       /\ y = BehindTimelock(x)
    \/ /\ remedy = "lock" /\ Open(x)
       /\ y = [x EXCEPT !.pool.locked = TRUE]

\* The scans of two rounds that saw the same
SameScan(r, s) == s.status = r.status /\ s.detected = r.detected /\ (r.detected => s.proxy = r.proxy)

LEMMA SameAnalysis ==
    ASSUME NEW x, NEW r, NEW s, SameScan(r, s)
    PROVE  AnalysisOf(x, s) = AnalysisOf(x, r) /\ Better(AnalysisOf(x, r), AnalysisOf(x, s))
<1>1. AnalysisOf(x, s) = AnalysisOf(x, r)
    BY DEF SameScan, AnalysisOf
<1> QED
    BY <1>1 DEF Better

LEMMA AtRiskByScore == \A x, r : IsFacts(x) => (AtRisk(AnalysisOf(x, r)) <=> Score(Evidence(x)) >= 50)
<1> SUFFICES ASSUME NEW x, NEW r, IsFacts(x) PROVE AtRisk(AnalysisOf(x, r)) <=> Score(Evidence(x)) >= 50
    OBVIOUS
<1>1. AnalysisOf(x, r).assessment = Assessment(x)
    BY AssessedOfNode
<1>2. /\ Assessment(x).score = Score(Evidence(x)) /\ Assessment(x).score \in 0 .. 100
      /\ Assessment(x).level = "HIGH" => Assessment(x).score >= 67
    BY Scored
<1> QED
    BY <1>1, <1>2 DEF AtRisk

\* The intelligence of an analysis, as far as it is of the code
LEMMA IntelligenceOfNode ==
    ASSUME NEW x, NEW y, SameCode(x, y), x.contract, NEW r, NEW s, SameScan(r, s)
    PROVE  LET a == AnalysisOf(x, r)
               b == AnalysisOf(y, s)
           IN  /\ b.intelligence.found.bridge = a.intelligence.found.bridge
               /\ b.intelligence.found.oracle = a.intelligence.found.oracle
               /\ x.delay = y.delay => b.intelligence = a.intelligence
<1>1. y.contract
    BY DEF SameCode
<1>2. AnalysisOf(x, r).intelligence = IF r.detected THEN Intelligence(x, r.proxy, Timelocked(x)) ELSE NoIntelligence
    BY DEF AnalysisOf, Analysis
<1>3. AnalysisOf(y, s).intelligence = IF s.detected THEN Intelligence(y, s.proxy, Timelocked(y)) ELSE NoIntelligence
    BY <1>1 DEF AnalysisOf, Analysis
<1>4. CASE r.detected
    <2>1. AnalysisOf(x, r).intelligence = Intelligence(x, r.proxy, Timelocked(x))
        BY <1>2, <1>4
    <2>2. AnalysisOf(y, s).intelligence = Intelligence(y, r.proxy, Timelocked(y))
        BY <1>3, <1>4 DEF SameScan
    <2>3. /\ Intelligence(x, r.proxy, Timelocked(x)).found.bridge = Intelligence(y, r.proxy, Timelocked(y)).found.bridge
          /\ Intelligence(x, r.proxy, Timelocked(x)).found.oracle = Intelligence(y, r.proxy, Timelocked(y)).found.oracle
          /\ Intelligence(x, r.proxy, Timelocked(x)) = Intelligence(y, r.proxy, Timelocked(x))
        BY SameIntelligence
    <2>4. x.delay = y.delay => Intelligence(y, r.proxy, Timelocked(x)) = Intelligence(y, r.proxy, Timelocked(y))
        BY DEF Timelocked
    <2> QED
        BY <2>1, <2>2, <2>3, <2>4
<1>5. CASE ~r.detected
    BY <1>2, <1>3, <1>5 DEF SameScan
<1> QED
    BY <1>4, <1>5

LEMMA TimelockHelps ==
    ASSUME NEW x, IsFacts(x), x.admin # NoAddress, Upgradeable(x), ~Timelocked(x), NEW r, NEW s, SameScan(r, s)
    PROVE  Better(AnalysisOf(x, r), AnalysisOf(BehindTimelock(x), s))
<1> DEFINE y == BehindTimelock(x)
           a == AnalysisOf(x, r)
           b == AnalysisOf(y, s)
<1>1. SameCode(x, y) /\ y.pool = x.pool /\ y.delay = "delay" /\ y.admin # NoAddress /\ IsFacts(y)
    BY TimelockLeaves, HardenedFacts
<1>2. /\ a.facts = x /\ a.assessment.evidence = Evidence(x) /\ b.facts = y /\ b.assessment.evidence = Evidence(y)
    BY AnalysisOfNode
<1>3. AtRisk(b) => AtRisk(a)
    BY <1>1, AtRiskByScore, TimelockScore
<1>4. Evidence(y) \ {"admin_timelock"} \subseteq Evidence(x)
    <2>1. CASE x.contract
        BY <2>1, TimelockEvidence
    <2>2. CASE ~x.contract
        BY <1>1, <2>2 DEF SameCode, Evidence
    <2> QED
        BY <2>1, <2>2
<1>5. ASSUME x.contract
      PROVE  /\ b.intelligence.found.bridge = a.intelligence.found.bridge
             /\ b.intelligence.found.oracle = a.intelligence.found.oracle
             /\ a.surface.paths # {} /\ a.surface.privileged # {}
    <2> DEFINE d == a.intelligence.found
    <2>1. /\ a.surface.paths = AttackPaths(x, d, a.architecture.relationships)
          /\ a.surface.privileged = PrivilegedEntities(x, d)
        BY <1>5, AnalysisParts
    <2>2. b.intelligence.found.bridge = a.intelligence.found.bridge /\ b.intelligence.found.oracle = a.intelligence.found.oracle
        BY <1>1, <1>5, IntelligenceOfNode
    <2> HIDE DEF d, a, b
    <2>3. <<"owner_proxy_impl_funds">> \in {p.name : p \in AttackPaths(x, d, a.architecture.relationships)}
        BY ProxyPath DEF IsProxy
    <2>4. <<"PROXY_ADMIN", x.admin>> \in PrivilegedEntities(x, d)
        BY DEF PrivilegedEntities, OtherEntities
    <2> QED
        BY <2>1, <2>2, <2>3, <2>4
<1> HIDE DEF a, b, y
<1>6. /\ y.contract = x.contract /\ y.scam = x.scam /\ y.implementation = x.implementation
    BY <1>1 DEF SameCode
<1>7. EvidenceOf(b) \ {"admin_timelock"} \subseteq EvidenceOf(a)
    BY <1>2, <1>4, <1>6 DEF EvidenceOf
<1>8. (Upgradeable(y) <=> Upgradeable(x)) /\ Timelocked(y) /\ ~EoaWithoutTimelock(y) /\ (Open(y) <=> Open(x))
    BY <1>1, <1>6 DEF Upgradeable, Timelocked, EoaWithoutTimelock, Open
<1>9. Better(a, b)
    BY <1>1, <1>2, <1>3, <1>5, <1>6, <1>7, <1>8 DEF Better
<1> QED
    BY <1>9 DEF a, b, y

LEMMA LockHelps ==
    ASSUME NEW x, IsFacts(x), Open(x), NEW r, NEW s, SameScan(r, s)
    PROVE  Better(AnalysisOf(x, r), AnalysisOf([x EXCEPT !.pool.locked = TRUE], s))
<1> DEFINE y == [x EXCEPT !.pool.locked = TRUE]
           a == AnalysisOf(x, r)
           b == AnalysisOf(y, s)
<1>0. x.pool # NoPool
    BY DEF Open
<1>1. SameCharge(x, y) /\ y.pool # NoPool /\ y.pool.locked /\ IsFacts(y)
    BY <1>0, LockLeaves, HardenedFacts
<1>2. /\ a.facts = x /\ a.assessment.evidence = Evidence(x) /\ b.facts = y /\ b.assessment.evidence = Evidence(y)
    BY AnalysisOfNode
<1>3. Evidence(y) \subseteq Evidence(x) /\ Score(Evidence(y)) <= Score(Evidence(x))
    BY <1>0, LockScore
<1>4. Score(Evidence(x)) \in 0 .. 100 /\ Score(Evidence(y)) \in 0 .. 100
    BY <1>1, Scored
<1>5. AtRisk(b) => AtRisk(a)
    <2>1. (AtRisk(a) <=> Score(Evidence(x)) >= 50) /\ (AtRisk(b) <=> Score(Evidence(y)) >= 50)
        BY <1>1, AtRiskByScore
    <2> QED
        BY <1>3, <1>4, <2>1
<1>6. ASSUME x.contract
      PROVE  /\ b.intelligence = a.intelligence
             /\ b.surface.paths = a.surface.paths /\ b.surface.privileged = a.surface.privileged
    <2> DEFINE d == a.intelligence.found
    <2>1. b.intelligence = a.intelligence /\ y.contract
        <3>1. SameCode(x, y) /\ x.delay = y.delay
            BY <1>1 DEF SameCharge
        <3>2. y.contract
            BY <1>6, <3>1 DEF SameCode
        <3> HIDE DEF y
        <3> QED
            BY <1>6, <3>1, <3>2, IntelligenceOfNode
    <2>2. /\ a.architecture = Architecture(x, d) /\ a.surface = Surface(x, d, a.architecture.relationships)
        BY <1>6 DEF AnalysisOf, Analysis
    <2>3. /\ b.architecture = Architecture(y, b.intelligence.found)
          /\ b.surface = Surface(y, b.intelligence.found, b.architecture.relationships)
        BY <2>1 DEF AnalysisOf, Analysis
    <2> HIDE DEF a, b, y
    <2>4. b.architecture = a.architecture
        BY <1>1, <2>1, <2>2, <2>3, SameSurface
    <2>5. b.surface = a.surface
        BY <1>1, <2>1, <2>2, <2>3, <2>4, SameSurface
    <2> QED
        BY <2>1, <2>5
<1> HIDE DEF a, b, y
<1>7. /\ y.contract = x.contract /\ y.scam = x.scam /\ y.implementation = x.implementation /\ y.admin = x.admin
      /\ y.adminType = x.adminType /\ y.ownerType = x.ownerType /\ y.delay = x.delay
    BY <1>1 DEF SameCharge, SameCode
<1>8. EvidenceOf(b) \ {"admin_timelock"} \subseteq EvidenceOf(a)
    BY <1>2, <1>3, <1>7 DEF EvidenceOf
<1>9. /\ Upgradeable(y) <=> Upgradeable(x)
      /\ Timelocked(y) <=> Timelocked(x)
      /\ EoaWithoutTimelock(y) <=> EoaWithoutTimelock(x)
      /\ ~Open(y)
    BY <1>1, <1>7 DEF Upgradeable, Timelocked, EoaWithoutTimelock, Open
<1>10. Better(a, b)
    BY <1>2, <1>5, <1>6, <1>7, <1>8, <1>9 DEF Better
<1> QED
    BY <1>10 DEF a, b, y

LEMMA NodeHelped ==
    ASSUME NEW x, IsFacts(x), NEW remedy, NEW y, Remedied(remedy, x, y), NEW r, NEW s, SameScan(r, s)
    PROVE  Better(AnalysisOf(x, r), AnalysisOf(y, s))
BY TimelockHelps, LockHelps DEF Remedied

\* The scores of what was hardened
LEMMA ScoreHelped ==
    ASSUME NEW x, IsFacts(x), NEW remedy, NEW y, Remedied(remedy, x, y), NEW r, NEW s
    PROVE  \/ AnalysisOf(y, s).assessment.score <= AnalysisOf(x, r).assessment.score
           \/ remedy = "timelock" /\ "treasury_multisig" \in x.wallet
<1>1. /\ AnalysisOf(y, s).assessment.score = Score(Evidence(y))
      /\ AnalysisOf(x, r).assessment.score = Score(Evidence(x))
    <2>1. AnalysisOf(y, s).assessment = Assessment(y) /\ AnalysisOf(x, r).assessment = Assessment(x)
        BY AssessedOfNode
    <2> QED
        BY <2>1 DEF Assessment
<1>2. \/ Score(Evidence(y)) <= Score(Evidence(x))
      \/ remedy = "timelock" /\ "treasury_multisig" \in x.wallet
    BY TimelockScore, LockScore DEF Remedied, Open
<1> QED
    BY <1>1, <1>2

\* The report before is that of findings which were then hardened in one contract.
BeforeInv ==
    before # NoReport =>
        /\ before.node \in Nodes
        /\ \E was :
            /\ DOMAIN was = Nodes /\ \A m \in Nodes : IsFacts(was[m])
            /\ before.report = Report(was, before.results)
            /\ Remedied(before.remedy, was[before.node], facts[before.node])
            /\ \A m \in Nodes \ {before.node} : facts[m] = was[m]

THEOREM RemedyIsRemembered == Spec => []BeforeInv
<1>1. Init => BeforeInv
    BY DEF Init, BeforeInv
<1>2. ReportInv /\ SeenInv /\ BeforeInv /\ [Next]_vars => BeforeInv'
    <2> SUFFICES ASSUME ReportInv, SeenInv, BeforeInv, [Next]_vars PROVE BeforeInv'
        OBVIOUS
    <2>1. ASSUME UNCHANGED <<facts, before>> PROVE BeforeInv'
        BY <2>1 DEF BeforeInv
    <2>2. ASSUME NEW n \in Nodes, NEW remedy, NEW hardened, Remedied(remedy, facts[n], hardened),
                 Act(n, remedy, hardened)
          PROVE  BeforeInv'
        <3>1. /\ facts' = [facts EXCEPT ![n] = hardened] /\ report = Report(facts, results)
              /\ before' = [report |-> report, results |-> results, node |-> n, remedy |-> remedy]
            BY <2>2 DEF Act, ReportInv
        <3>2. before'.node = n /\ before'.remedy = remedy /\ before'.report = Report(facts, results)
              /\ before'.results = results
            BY <3>1
        <3>3. DOMAIN facts = Nodes /\ \A m \in Nodes : IsFacts(facts[m])
            BY DEF SeenInv
        <3>4. facts'[n] = hardened /\ \A m \in Nodes \ {n} : facts'[m] = facts[m]
            BY <3>1, <3>3
        <3> QED
            BY <2>2, <3>2, <3>3, <3>4 DEF BeforeInv
    <2>3. CASE Build
        BY <2>1, <2>3 DEF Build
    <2>4. ASSUME NEW n \in Nodes, Complete(n) \/ CompleteBare(n) \/ Fail(n) \/ Skip(n) PROVE BeforeInv'
        BY <2>1, <2>4 DEF Complete, CompleteBare, Fail, Skip, Settle
    <2>5. ASSUME NEW n \in Nodes, AddTimelock(n) PROVE BeforeInv'
        BY <2>2, <2>5 DEF AddTimelock, Remedied
    <2>6. ASSUME NEW n \in Nodes, LockLiquidity(n) PROVE BeforeInv'
        BY <2>2, <2>6 DEF LockLiquidity, Remedied, Open
    <2>7. CASE UNCHANGED vars
        BY <2>1, <2>7 DEF vars
    <2> QED
        BY <2>3, <2>4, <2>5, <2>6, <2>7 DEF Next
<1> QED
    BY <1>1, <1>2, ReportStands, FindingsStayFindings, PTL DEF Spec

\* A report on scans that all completed
LEMMA CompleteReport ==
    ASSUME NEW scanned, NEW ended, \A n \in Nodes : ended[n].status = "completed" /\ IsFacts(scanned[n])
    PROVE  LET built == Report(scanned, ended)
           IN  /\ DOMAIN built.done = Nodes /\ IsDone(built.done)
               /\ \A n \in Nodes : built.done[n] = AnalysisOf(scanned[n], ended[n])
               /\ built.recommendations = Recommendations(built.done, {}, {})
               /\ built.posture.upgradeability = Upgradeability(built.done)
<1> DEFINE done == [n \in {m \in Nodes : ended[m].status = "completed"} |-> AnalysisOf(scanned[n], ended[n])]
           Ended(status) == {n \in Nodes : ended[n].status = status}
           rep == Report(scanned, ended)
<1>1. rep.done = done /\ rep.recommendations = Recommendations(done, Ended("failed"), Ended("skipped"))
      /\ rep.posture = Posture(done)
    BY DEF Report
<1>2. Ended("failed") = {} /\ Ended("skipped") = {}
    OBVIOUS
<1>3. DOMAIN done = Nodes /\ \A n \in Nodes : done[n] = AnalysisOf(scanned[n], ended[n])
    OBVIOUS
<1>4. Posture(done).upgradeability = Upgradeability(done)
    BY DEF Posture
<1> HIDE DEF done, rep
<1>5. IsDone(done)
    BY <1>3, ReportAssumption DEF IsDone
<1> QED
    BY <1>1, <1>2, <1>3, <1>4, <1>5 DEF rep

\* Doing what was recommended helps, in any protocol and whichever contract it is done to.
THEOREM RemediesDoHelp == Spec => []RemediesHelp
<1>1. ReportInv /\ SeenInv /\ BeforeInv => RemediesHelp
    <2> SUFFICES ASSUME ReportInv, SeenInv, BeforeInv, Comparable
                 PROVE  LET old == before.report
                            n == before.node
                        IN  /\ report.recommendations \subseteq old.recommendations \ Called(before.remedy, n)
                            /\ report.posture.upgradeability <= old.posture.upgradeability
                            /\ \A m \in Nodes :
                                \/ report.done[m].assessment.score <= old.done[m].assessment.score
                                \/ m = n /\ before.remedy = "timelock" /\ "treasury_multisig" \in old.done[m].facts.wallet
        BY DEF RemediesHelp
    <2> DEFINE old == before.report.done
               new == report.done
               n == before.node
               remedy == before.remedy
    <2>1. PICK was :
            /\ DOMAIN was = Nodes /\ \A m \in Nodes : IsFacts(was[m])
            /\ before.report = Report(was, before.results)
            /\ Remedied(remedy, was[n], facts[n])
            /\ \A m \in Nodes \ {n} : facts[m] = was[m]
        BY DEF BeforeInv, Comparable
    <2>2. n \in Nodes /\ report = Report(facts, results) /\ \A m \in Nodes : IsFacts(facts[m])
        BY DEF BeforeInv, Comparable, ReportInv, SeenInv
    <2>3. \A m \in Nodes : /\ results[m].status = "completed" /\ before.results[m].status = "completed"
                           /\ SameScan(before.results[m], results[m])
        BY DEF Comparable, SameScan
    <2>4. /\ DOMAIN new = Nodes /\ IsDone(new)
          /\ \A m \in Nodes : new[m] = AnalysisOf(facts[m], results[m])
          /\ report.recommendations = Recommendations(new, {}, {})
          /\ report.posture.upgradeability = Upgradeability(new)
        BY <2>2, <2>3, CompleteReport
    <2>5. /\ DOMAIN old = Nodes /\ IsDone(old)
          /\ \A m \in Nodes : old[m] = AnalysisOf(was[m], before.results[m])
          /\ before.report.recommendations = Recommendations(old, {}, {})
          /\ before.report.posture.upgradeability = Upgradeability(old)
        BY <2>1, <2>3, CompleteReport
    <2> HIDE DEF old, new, n, remedy
    <2>6. ASSUME NEW m \in Nodes PROVE Better(old[m], new[m])
        <3>1. CASE m = n
            BY <2>1, <2>2, <2>3, <2>4, <2>5, <3>1, NodeHelped
        <3>2. CASE m # n
            BY <2>1, <2>3, <2>4, <2>5, <3>2, SameAnalysis
        <3> QED
            BY <3>1, <3>2
    <2>7. ASSUME NEW m \in Nodes
          PROVE  \/ new[m].assessment.score <= old[m].assessment.score
                 \/ m = n /\ remedy = "timelock" /\ "treasury_multisig" \in old[m].facts.wallet
        <3>1. CASE m = n
            <4>1. \/ new[m].assessment.score <= old[m].assessment.score
                  \/ remedy = "timelock" /\ "treasury_multisig" \in was[n].wallet
                BY <2>1, <2>2, <2>4, <2>5, <3>1, ScoreHelped
            <4>2. old[m].facts = was[m]
                BY <2>5, AnalysisOfNode
            <4> QED
                BY <3>1, <4>1, <4>2
        <3>2. CASE m # n
            <4>1. new[m] = old[m]
                BY <2>1, <2>3, <2>4, <2>5, <3>2, SameAnalysis
            <4>2. old[m].assessment = Assessment(was[m]) /\ Assessment(was[m]).score \in 0 .. 100
                BY <2>1, <2>5, AssessedOfNode, Scored
            <4> QED
                BY <4>1, <4>2
        <3> QED
            BY <3>1, <3>2
    <2>8. Recommendations(new, {}, {}) \cap Called(remedy, n) = {}
        <3>1. new[n].facts = facts[n]
            BY <2>2, <2>4, AnalysisOfNode
        <3>2. CASE remedy = "timelock"
            <4>1. Timelocked(facts[n])
                BY <2>1, <2>2, <3>2, TimelockLeaves DEF Remedied, Timelocked
            <4> QED
                BY <2>2, <2>4, <3>1, <3>2, <4>1, NoLongerCalled DEF Called
        <3>3. CASE remedy = "lock"
            <4>1. ~Open(facts[n])
                BY <2>1, <2>2, <3>3, LockLeaves DEF Remedied, Open
            <4> QED
                BY <2>2, <2>4, <3>1, <3>3, <4>1, NoLongerCalled DEF Called
        <3> QED
            BY <2>1, <3>2, <3>3 DEF Remedied
    <2>9. Recommendations(new, {}, {}) \subseteq Recommendations(old, {}, {}) /\ Upgradeability(new) <= Upgradeability(old)
        BY <2>4, <2>5, <2>6, ReportHelped, UpgradesHelped
    <2> QED
        BY <2>4, <2>5, <2>7, <2>8, <2>9 DEF old, new, n, remedy
<1> QED
    BY ReportStands, FindingsStayFindings, RemedyIsRemembered, <1>1, PTL

------------------------------------------------------------------------------
(* The history of the monitoring of one watch                                  *)

\* What the history of the cycles os may list: of cycle i what it left (Told), a
\* snapshot filed at any time (Archived), and the alerts as that were acknowledged.
Told(os, i, k) == CycleRecords(i * Period, os[i])[k]
Archived(at, filedAt) == [SnapshotRecord([capturedAt |-> at]) EXCEPT !.at = filedAt]
Ack(i) == AckRecord(<<"alert", i>>, i * Period)

ToldRecords(os) == {Told(os, x[1], x[2]) : x \in (DOMAIN os) \X (1 .. 5)}
ArchivedRecords == {Archived(x[1], x[2]) : x \in Nat \X Nat}
AckRecords(as) == {Ack(i) : i \in as}
Filable(os) == ToldRecords(os) \cup ArchivedRecords

\* A history lists what belongs there, each record once.
IsHistory(log, os, as) ==
    /\ log = [r \in Records(log) |-> 1]
    /\ IsFiniteSet(Records(log))
    /\ Records(log) \subseteq Filable(os) \cup AckRecords(as)

\* What a cycle left is listed or about to be filed, and all acknowledgements are listed.
AllListed(log, files, os, as) ==
    ToldRecords(os) \subseteq Records(log) \cup Range(files) /\ AckRecords(as) \subseteq Records(log)

\* The clock, the lists and the dumps follow the cycles.
ListsInv ==
    /\ outcomes \in Seq(Outcomes) /\ now = Len(outcomes) * Period /\ acked \subseteq DOMAIN outcomes
    /\ IsHistory(store, outcomes, acked) /\ IsHistory(saved.store, outcomes, acked)
    /\ pending \in Seq(Filable(outcomes)) /\ filed \in Seq(Filable(outcomes))
    /\ saved = [baseline |-> saved.baseline, store |-> saved.store]
    /\ lost \in BOOLEAN
    /\ lost \/ AllListed(store, pending, outcomes, acked)

\* The baseline is the first snapshot there was.
BaselineInv ==
    /\ restarts \in 0 .. MaxRestarts
    /\ \A b \in {baseline, saved.baseline} : b = NoBaseline \/ b \in [capturedAt : 0 .. now]
    /\ saved.baseline # NoBaseline => baseline = saved.baseline
    /\ restarts = 0 =>
        \A r \in Records(store) \cup Range(pending) \cup Range(filed) :
            r.type = "snapshot" => baseline # NoBaseline /\ baseline.capturedAt <= r.ref[2]

Kinds == <<"change_detection", "reanalysis", "evidence_delta", "risk_delta", "alert_batch">>
Words == <<"cycle", "plan", "evidence", "risk", "alerts">>

LEMMA Times ==
    /\ Period \in Nat \ {0}
    /\ \A i \in Nat : i * Period \in Nat /\ (i + 1) * Period = i * Period + Period
    /\ \A i, j \in Nat : i < j <=> i * Period < j * Period
    /\ \A i, j \in Nat : i * Period = j * Period => i = j
<1>1. Period \in Nat /\ Period >= 1
    BY HistoryAssumption
<1>2. ASSUME NEW i \in Nat PROVE i * Period \in Nat /\ (i + 1) * Period = i * Period + Period
    BY <1>1
<1>3. ASSUME NEW i \in Nat, NEW j \in Nat, i < j PROVE i * Period < j * Period
    <2>1. PICK d \in Nat : j = i + d /\ d >= 1
        <3>1. j - i \in Nat /\ j = i + (j - i) /\ j - i >= 1
            BY <1>3
        <3> QED
            BY <3>1
    <2>2. j * Period = i * Period + d * Period
        BY <1>1, <2>1
    <2>3. d * Period >= 1
        BY <1>1, <2>1
    <2> QED
        BY <1>2, <2>2, <2>3
<1>4. ASSUME NEW i \in Nat, NEW j \in Nat, ~ (i < j) PROVE ~ (i * Period < j * Period)
    <2>1. CASE i = j
        BY <1>2, <2>1
    <2>2. CASE j < i
        <3>1. j * Period < i * Period
            BY <1>3, <2>2
        <3> QED
            BY <1>2, <3>1
    <2> QED
        BY <1>4, <2>1, <2>2
<1>5. ASSUME NEW i \in Nat, NEW j \in Nat, i * Period = j * Period PROVE i = j
    <2>1. ~ (i < j) /\ ~ (j < i)
        BY <1>2, <1>3, <1>5
    <2> QED
        BY <2>1
<1> QED
    BY <1>1, <1>2, <1>3, <1>4, <1>5

LEMMA ToldIs ==
    ASSUME NEW os, NEW i, NEW k \in 1 .. 5
    PROVE  /\ Told(os, i, k).type = Kinds[k] /\ Told(os, i, k).at = i * Period
           /\ Told(os, i, k).id = <<Kinds[k], <<Words[k], i * Period>>, i * Period>>
<1>1. CASE k = 1
    BY <1>1 DEF Told, CycleRecords, Record, Kinds, Words
<1>2. CASE k = 2
    BY <1>2 DEF Told, CycleRecords, Record, Kinds, Words
<1>3. CASE k = 3
    BY <1>3 DEF Told, CycleRecords, Record, Kinds, Words
<1>4. CASE k = 4
    BY <1>4 DEF Told, CycleRecords, Record, Kinds, Words
<1>5. CASE k = 5
    BY <1>5 DEF Told, CycleRecords, Record, Kinds, Words
<1> QED
    BY <1>1, <1>2, <1>3, <1>4, <1>5

LEMMA ToldData ==
    ASSUME NEW os, NEW i
    PROVE  /\ Told(os, i, 1).data.unchanged = os[i].unchanged
           /\ Told(os, i, 4).data.delta = os[i].delta
           /\ Told(os, i, 5).data.generated = os[i].critical + os[i].high
           /\ Told(os, i, 5).data.critical = os[i].critical
<1>1. Told(os, i, 1).data.unchanged = os[i].unchanged
    BY DEF Told, CycleRecords, Record
<1>2. Told(os, i, 4).data.delta = os[i].delta
    BY DEF Told, CycleRecords, Record
<1>3. /\ Told(os, i, 5).data.generated = os[i].critical + os[i].high
      /\ Told(os, i, 5).data.critical = os[i].critical
    BY DEF Told, CycleRecords, Record
<1> QED
    BY <1>1, <1>2, <1>3

LEMMA ArchivedIs ==
    ASSUME NEW at, NEW filedAt
    PROVE  /\ Archived(at, filedAt) = [id |-> <<"snapshot", <<"snapshot", at>>, at>>, type |-> "snapshot",
                                       ref |-> <<"snapshot", at>>, at |-> filedAt, data |-> NoData]
           /\ SnapshotRecord([capturedAt |-> at]) = Archived(at, at)
           /\ CycleRecord([capturedAt |-> at], filedAt) = Archived(at, filedAt)
<1> DEFINE r == [id |-> <<"snapshot", <<"snapshot", at>>, at>>, type |-> "snapshot",
                 ref |-> <<"snapshot", at>>, at |-> at, data |-> NoData]
           q == [id |-> <<"snapshot", <<"snapshot", at>>, at>>, type |-> "snapshot",
                 ref |-> <<"snapshot", at>>, at |-> filedAt, data |-> NoData]
<1>1. SnapshotRecord([capturedAt |-> at]) = r
    BY DEF SnapshotRecord, SnapshotRef, Record
<1>2. [r EXCEPT !.at = filedAt] = q /\ [r EXCEPT !.at = at] = r
    OBVIOUS
<1>3. Archived(at, filedAt) = q /\ Archived(at, at) = r
    BY <1>1, <1>2 DEF Archived
<1>4. CycleRecord([capturedAt |-> at], filedAt) = Archived(at, filedAt)
    BY DEF CycleRecord, Archived
<1> QED
    BY <1>1, <1>3, <1>4, Zenon

LEMMA ArchivedRecordIs ==
    ASSUME NEW r \in ArchivedRecords
    PROVE  \E i, t \in Nat :
                /\ r = Archived(i, t)
                /\ r.type = "snapshot" /\ r.at = t /\ r.ref[2] = i /\ r.id[1] = "snapshot"
<1>1. PICK x \in Nat \X Nat : r = Archived(x[1], x[2])
    BY DEF ArchivedRecords
<1>2. PICK i \in Nat, t \in Nat : r = Archived(i, t)
    BY <1>1
<1>3. /\ Archived(i, t).type = "snapshot" /\ Archived(i, t).at = t
      /\ Archived(i, t).ref[2] = i /\ Archived(i, t).id[1] = "snapshot"
    <2> DEFINE q == [id |-> <<"snapshot", <<"snapshot", i>>, i>>, type |-> "snapshot",
                     ref |-> <<"snapshot", i>>, at |-> t, data |-> NoData]
    <2>1. q.type = "snapshot" /\ q.at = t /\ q.ref[2] = i /\ q.id[1] = "snapshot"
        OBVIOUS
    <2>2. Archived(i, t) = q
        BY ArchivedIs
    <2> HIDE DEF q
    <2> QED
        BY <2>1, <2>2
<1> QED
    BY <1>2, <1>3, Zenon

LEMMA AckIs ==
    ASSUME NEW i
    PROVE  /\ Ack(i).type = "acknowledgement" /\ Ack(i).at = i * Period
           /\ Ack(i).id = <<"acknowledgement", <<"alert", i>>, i * Period>>
BY DEF Ack, AckRecord, Record

\* What is told of a cycle or acknowledged is known by its identifier.
LEMMA SameIdentity ==
    ASSUME NEW os \in Seq(Outcomes), NEW as, NEW r \in ToldRecords(os) \cup AckRecords(as),
           NEW q \in Filable(os) \cup AckRecords(as), q.id = r.id
    PROVE  q = r
<1>1. DOMAIN os \in SUBSET Nat
    BY LenProperties
<1>2. CASE r \in ToldRecords(os)
    <2>1. PICK i \in DOMAIN os, k \in 1 .. 5 : r = Told(os, i, k)
        BY <1>2 DEF ToldRecords
    <2>2. r.id[1] = Kinds[k] /\ r.id[3] = i * Period
        BY <2>1, ToldIs
    <2>3. Kinds[k] \notin {"snapshot", "acknowledgement"}
        BY DEF Kinds
    <2>4. CASE q \in ToldRecords(os)
        <3>1. PICK j \in DOMAIN os, m \in 1 .. 5 : q = Told(os, j, m)
            BY <2>4 DEF ToldRecords
        <3>2. q.id[1] = Kinds[m] /\ q.id[3] = j * Period
            BY <3>1, ToldIs
        <3>3. m = k
            BY <2>2, <3>2, q.id = r.id DEF Kinds
        <3>4. j = i
            BY <1>1, <2>2, <3>2, q.id = r.id, Times
        <3> QED
            BY <2>1, <3>1, <3>3, <3>4
    <2>5. CASE q \in ArchivedRecords
        <3>1. q.id[1] = "snapshot"
            BY <2>5, ArchivedRecordIs
        <3> QED
            BY <2>2, <2>3, <3>1, q.id = r.id
    <2>6. CASE q \in AckRecords(as)
        <3>1. PICK j : q = Ack(j)
            BY <2>6 DEF AckRecords
        <3>2. q.id[1] = "acknowledgement"
            BY <3>1, AckIs
        <3> QED
            BY <2>2, <2>3, <3>2, q.id = r.id
    <2> QED
        BY <2>4, <2>5, <2>6 DEF Filable
<1>3. CASE r \in AckRecords(as)
    <2>1. PICK i : r = Ack(i)
        BY <1>3 DEF AckRecords
    <2>2. r.id[1] = "acknowledgement" /\ r.id[2][2] = i
        BY <2>1, AckIs
    <2>3. CASE q \in ToldRecords(os)
        <3>1. PICK j \in DOMAIN os, m \in 1 .. 5 : q = Told(os, j, m)
            BY <2>3 DEF ToldRecords
        <3>2. q.id[1] = Kinds[m] /\ Kinds[m] # "acknowledgement"
            BY <3>1, ToldIs DEF Kinds
        <3> QED
            BY <2>2, <3>2, q.id = r.id
    <2>4. CASE q \in ArchivedRecords
        <3>1. q.id[1] = "snapshot"
            BY <2>4, ArchivedRecordIs
        <3> QED
            BY <2>2, <3>1, q.id = r.id
    <2>5. CASE q \in AckRecords(as)
        <3>1. PICK j : q = Ack(j)
            BY <2>5 DEF AckRecords
        <3>2. q.id[2][2] = j
            BY <3>1, AckIs
        <3> QED
            BY <2>1, <2>2, <3>1, <3>2, q.id = r.id
    <2> QED
        BY <2>3, <2>4, <2>5 DEF Filable
<1> QED
    BY <1>2, <1>3

\* Filing one more record, and removing some.
LEMMA Filing ==
    ASSUME NEW os \in Seq(Outcomes), NEW as, NEW log, IsHistory(log, os, as),
           NEW r \in Filable(os) \cup AckRecords(as)
    PROVE  /\ IsHistory(AppendRecord(log, r), os, as)
           /\ Records(log) \subseteq Records(AppendRecord(log, r))
           /\ Records(AppendRecord(log, r)) \subseteq Records(log) \cup {r}
           /\ r \in ToldRecords(os) \cup AckRecords(as) => r \in Records(AppendRecord(log, r))
<1>1. CASE \E q \in Records(log) : q.id = r.id
    <2>1. AppendRecord(log, r) = log
        BY <1>1 DEF AppendRecord
    <2>2. PICK q \in Records(log) : q.id = r.id
        BY <1>1
    <2>3. r \in ToldRecords(os) \cup AckRecords(as) => q = r
        BY <2>2, SameIdentity DEF IsHistory
    <2> QED
        BY <2>1, <2>2, <2>3
<1>2. CASE ~ \E q \in Records(log) : q.id = r.id
    <2> DEFINE new == log (+) SetToBag({r})
    <2>1. AppendRecord(log, r) = new
        BY <1>2 DEF AppendRecord
    <2>2. r \notin Records(log)
        BY <1>2
    <2>3. Records(new) = Records(log) \cup {r}
        BY DEF Records, BagToSet, SetToBag, (+)
    <2>4. \A x \in Records(log) : log[x] = 1
        BY DEF IsHistory
    <2>5. new = [x \in Records(log) \cup {r} |-> 1]
        BY <2>2, <2>4 DEF Records, BagToSet, SetToBag, (+)
    <2>6. IsFiniteSet(Records(log) \cup {r})
        BY FS_AddElement DEF IsHistory
    <2> HIDE DEF new
    <2>7. IsHistory(new, os, as)
        BY <2>3, <2>5, <2>6 DEF IsHistory
    <2> QED
        BY <2>1, <2>3, <2>7
<1> QED
    BY <1>1, <1>2

LEMMA Removing ==
    ASSUME NEW os, NEW as, NEW log, IsHistory(log, os, as), NEW gone
    PROVE  /\ IsHistory(Remove(log, gone), os, as)
           /\ Records(Remove(log, gone)) = Records(log) \ gone
           /\ gone = {} => Remove(log, gone) = log
<1>1. Records(Remove(log, gone)) = Records(log) \ gone
    BY DEF Records, BagToSet, Remove
<1>2. \A x \in Records(log) : log[x] = 1
    BY DEF IsHistory
<1>3. Remove(log, gone) = [x \in Records(log) \ gone |-> 1]
    BY <1>2 DEF Remove
<1>4. IsFiniteSet(Records(log) \ gone)
    BY FS_Subset DEF IsHistory
<1>5. gone = {} => Remove(log, gone) = log
    BY <1>3 DEF IsHistory
<1> QED
    BY <1>1, <1>3, <1>4, <1>5 DEF IsHistory

LEMMA Reloading ==
    ASSUME NEW os, NEW as, NEW log, IsHistory(log, os, as)
    PROVE  Reloaded(log) = log
BY DEF IsHistory, Reloaded, SetToBag, Records, BagToSet

LEMMA NoHistory == \A os, as : IsHistory(EmptyBag, os, as) /\ Records(EmptyBag) = {}
<1>1. Records(EmptyBag) = {} /\ EmptyBag = [r \in {} |-> 1]
    BY DEF Records, EmptyBag, SetToBag, BagToSet
<1> QED
    BY <1>1, FS_EmptySet DEF IsHistory

\* A history may list more the more there is to list.
LEMMA MoreToList ==
    ASSUME NEW os, NEW as, NEW log, IsHistory(log, os, as),
           NEW os2, NEW as2, ToldRecords(os) \subseteq ToldRecords(os2), as \subseteq as2
    PROVE  IsHistory(log, os2, as2)
BY DEF IsHistory, Filable, AckRecords

LEMMA Moved == ASSUME NEW A, NEW B, NEW C, NEW x \in A \X B, x[1] \in C PROVE x \in C \X B
OBVIOUS

\* What the next cycle leaves.
LEMMA NextCycle ==
    ASSUME NEW os \in Seq(Outcomes), NEW o \in Outcomes
    PROVE  LET os2 == Append(os, o)
               at == (Len(os) + 1) * Period
           IN  /\ os2 \in Seq(Outcomes) /\ Len(os2) = Len(os) + 1 /\ DOMAIN os \subseteq DOMAIN os2
               /\ ToldRecords(os) \subseteq ToldRecords(os2)
               /\ ToldRecords(os2) = ToldRecords(os) \cup Range(CycleRecords(at, o))
               /\ CycleRecords(at, o) \in Seq(ToldRecords(os2))
               /\ \A r \in Range(CycleRecords(at, o)) : r.type # "snapshot"
<1> DEFINE os2 == Append(os, o)
           n == Len(os) + 1
           left == CycleRecords(n * Period, o)
<1>1. /\ os2 \in Seq(Outcomes) /\ Len(os2) = n /\ DOMAIN os = 1 .. Len(os) /\ DOMAIN os2 = 1 .. n
      /\ Len(os) \in Nat /\ n \in Nat
    BY AppendProperties, LenProperties
<1>2. os2[n] = o /\ \A i \in DOMAIN os : os2[i] = os[i]
    BY AppendProperties, LenProperties
<1>3. DOMAIN left = 1 .. 5 /\ Len(left) = 5
    BY DEF CycleRecords
<1>4. \A i \in DOMAIN os, k \in 1 .. 5 : Told(os2, i, k) = Told(os, i, k)
    BY <1>2 DEF Told
<1>5. \A k \in 1 .. 5 : Told(os2, n, k) = left[k]
    BY <1>2 DEF Told
<1>6. left = [k \in 1 .. 5 |-> left[k]]
    BY DEF CycleRecords
<1> HIDE DEF os2, left, n
<1>7. ASSUME NEW x \in (DOMAIN os) \X (1 .. 5) PROVE Told(os, x[1], x[2]) \in ToldRecords(os2)
    <2>1. x[1] \in DOMAIN os /\ x[2] \in 1 .. 5
        OBVIOUS
    <2>2. x[1] \in DOMAIN os2
        BY <1>1, <2>1 DEF n
    <2>3. x \in (DOMAIN os2) \X (1 .. 5)
        BY <2>2, Moved
    <2> QED
        BY <1>4, <2>1, <2>3 DEF ToldRecords
<1>8. ASSUME NEW k \in 1 .. 5 PROVE left[k] \in ToldRecords(os2) /\ left[k] \in Range(left)
    <2> DEFINE x == <<n, k>>
    <2>1. n \in DOMAIN os2
        BY <1>1 DEF n
    <2>2. x \in (DOMAIN os2) \X (1 .. 5) /\ Told(os2, x[1], x[2]) = left[k]
        BY <1>5, <2>1
    <2> QED
        BY <1>3, <2>2 DEF ToldRecords, Range
<1>9. ASSUME NEW x \in (DOMAIN os2) \X (1 .. 5)
      PROVE  Told(os2, x[1], x[2]) \in ToldRecords(os) \cup Range(left)
    <2>1. x[1] \in DOMAIN os2 /\ x[2] \in 1 .. 5
        OBVIOUS
    <2>2. CASE x[1] = n
        BY <1>5, <1>8, <2>1, <2>2
    <2>3. CASE x[1] # n
        <3>1. x[1] \in DOMAIN os
            BY <1>1, <2>1, <2>3 DEF n
        <3>2. x \in (DOMAIN os) \X (1 .. 5)
            BY <3>1, Moved
        <3> QED
            BY <1>4, <3>1, <3>2 DEF ToldRecords
    <2> QED
        BY <2>2, <2>3
<1>10. ToldRecords(os) \subseteq ToldRecords(os2)
    BY <1>7 DEF ToldRecords
<1>11. ToldRecords(os2) \subseteq ToldRecords(os) \cup Range(left)
    BY <1>9 DEF ToldRecords
<1>12. Range(left) \subseteq ToldRecords(os2)
    BY <1>3, <1>8 DEF Range
<1>13. left \in Seq(ToldRecords(os2))
    BY <1>6, <1>8, SeqDef
<1>14. ASSUME NEW r \in Range(left) PROVE r.type # "snapshot"
    <2>1. PICK k \in 1 .. 5 : r = left[k]
        BY <1>3 DEF Range
    <2>2. r.type = Kinds[k]
        BY <1>5, <2>1, ToldIs
    <2> QED
        BY <2>2 DEF Kinds
<1>15. DOMAIN os \subseteq DOMAIN os2
    BY <1>1 DEF n
<1>16. /\ os2 \in Seq(Outcomes) /\ Len(os2) = n /\ DOMAIN os \subseteq DOMAIN os2
       /\ ToldRecords(os) \subseteq ToldRecords(os2)
       /\ ToldRecords(os2) = ToldRecords(os) \cup Range(left)
       /\ left \in Seq(ToldRecords(os2))
       /\ \A r \in Range(left) : r.type # "snapshot"
    BY <1>1, <1>10, <1>11, <1>12, <1>13, <1>14, <1>15
<1> QED
    BY <1>16 DEF os2, left, n

LEMMA Firsts ==
    ASSUME NEW S, NEW s \in Seq(S), s # << >>
    PROVE  /\ Head(s) \in S /\ Tail(s) \in Seq(S)
           /\ Range(s) = {Head(s)} \cup Range(Tail(s))
<1>1. Head(s) \in S /\ Tail(s) \in Seq(S) /\ Len(Tail(s)) = Len(s) - 1 /\ Len(s) \in Nat \ {0}
    BY HeadTailProperties, LenProperties, EmptySeq
<1>2. DOMAIN s = 1 .. Len(s) /\ DOMAIN Tail(s) = 1 .. (Len(s) - 1)
    BY <1>1, LenProperties
<1>3. s[1] = Head(s) /\ \A i \in 1 .. (Len(s) - 1) : Tail(s)[i] = s[i + 1]
    BY <1>1, HeadTailProperties
<1>4. Range(s) \subseteq {Head(s)} \cup Range(Tail(s))
    <2> SUFFICES ASSUME NEW i \in DOMAIN s PROVE s[i] \in {Head(s)} \cup Range(Tail(s))
        BY DEF Range
    <2>1. CASE i = 1
        BY <1>3, <2>1
    <2>2. CASE i # 1
        <3>1. i - 1 \in DOMAIN Tail(s) /\ Tail(s)[i - 1] = s[i]
            BY <1>1, <1>2, <1>3, <2>2
        <3> QED
            BY <3>1 DEF Range
    <2> QED
        BY <2>1, <2>2
<1>5. {Head(s)} \cup Range(Tail(s)) \subseteq Range(s)
    <2>1. Head(s) \in Range(s)
        BY <1>1, <1>2, <1>3 DEF Range
    <2>2. ASSUME NEW i \in DOMAIN Tail(s) PROVE Tail(s)[i] \in Range(s)
        <3>1. i + 1 \in DOMAIN s /\ Tail(s)[i] = s[i + 1]
            BY <1>1, <1>2, <1>3
        <3> QED
            BY <3>1 DEF Range
    <2> QED
        BY <2>1, <2>2 DEF Range
<1> QED
    BY <1>1, <1>4, <1>5

LEMMA Prepended ==
    ASSUME NEW S, NEW x \in S, NEW s \in Seq(S)
    PROVE  <<x>> \o s \in Seq(S) /\ Range(<<x>> \o s) = {x} \cup Range(s)
<1> DEFINE c == <<x>> \o s
<1>1. c \in Seq(S) /\ c # << >> /\ Head(c) = x /\ Tail(c) = s
    BY ConcatProperties, LenProperties
<1> QED
    BY <1>1, Firsts

LEMMA NothingPending == Range(<< >>) = {}
BY DEF Range

\* What a cycle takes from what there was, and files.
LEMMA CycleFiles ==
    ASSUME ListsInv, NEW o \in Outcomes, NEW d \in Delays, Cycle(o, d)
    PROVE  LET at == now + Period
               left == CycleRecords(at, o)
           IN  \E first \in ArchivedRecords :
                /\ filed' = <<first>> \o left /\ pending' = filed'
                /\ Range(filed') = {first} \cup Range(left)
                /\ filed' \in Seq(Filable(outcomes'))
                /\ at = (Len(outcomes) + 1) * Period
                /\ first.type = "snapshot" /\ first.ref[2] = at
<1> DEFINE at == now + Period
           left == CycleRecords(at, o)
           snapshot == [capturedAt |-> at]
           first == IF baseline = NoBaseline THEN SnapshotRecord(snapshot) ELSE CycleRecord(snapshot, at + d)
<1>1. /\ outcomes \in Seq(Outcomes) /\ now = Len(outcomes) * Period /\ Len(outcomes) \in Nat
    BY LenProperties DEF ListsInv
<1>2. /\ outcomes' = Append(outcomes, o) /\ filed' = <<first>> \o left /\ pending' = filed'
    BY DEF Cycle
<1>3. at = (Len(outcomes) + 1) * Period /\ at \in Nat /\ at + d \in Nat
    <2>1. d \in Nat
        BY HistoryAssumption
    <2> QED
        BY <1>1, <2>1, Times
<1> HIDE DEF at
<1>4. \E t \in Nat : first = Archived(at, t)
    BY <1>3, ArchivedIs
<1> HIDE DEF first
<1>5. first \in ArchivedRecords /\ first.type = "snapshot" /\ first.ref[2] = at
    <2>1. PICK t \in Nat : first = Archived(at, t)
        BY <1>4
    <2> DEFINE x == <<at, t>>
    <2>2. x \in Nat \X Nat /\ x[1] = at /\ x[2] = t
        BY <1>3
    <2> HIDE DEF x
    <2>3. first \in ArchivedRecords
        BY <2>1, <2>2, Zenon DEF ArchivedRecords
    <2> DEFINE q == [id |-> <<"snapshot", <<"snapshot", at>>, at>>, type |-> "snapshot",
                     ref |-> <<"snapshot", at>>, at |-> t, data |-> NoData]
    <2>4. q.type = "snapshot" /\ q.ref[2] = at
        OBVIOUS
    <2>5. first = q
        BY <2>1, ArchivedIs
    <2> HIDE DEF q
    <2> QED
        BY <2>3, <2>4, <2>5
<1>6. left \in Seq(Filable(outcomes'))
    <2>1. left \in Seq(ToldRecords(outcomes'))
        BY <1>1, <1>2, <1>3, NextCycle
    <2> QED
        BY <2>1, SeqMonotonic DEF Filable
<1>7. first \in Filable(outcomes')
    BY <1>5 DEF Filable
<1>8. filed' \in Seq(Filable(outcomes')) /\ Range(filed') = {first} \cup Range(left)
    BY <1>2, <1>6, <1>7, Prepended
<1>9. /\ filed' = <<first>> \o left /\ pending' = filed'
      /\ Range(filed') = {first} \cup Range(left)
      /\ filed' \in Seq(Filable(outcomes'))
      /\ at = (Len(outcomes) + 1) * Period
      /\ first.type = "snapshot" /\ first.ref[2] = at
    BY <1>2, <1>3, <1>5, <1>8
<1> QED
    BY <1>5, <1>9 DEF at

LEMMA ListsInit == HistoryInit => ListsInv
<1> SUFFICES ASSUME HistoryInit PROVE ListsInv
    OBVIOUS
<1>1. /\ outcomes = << >> /\ now = 0 /\ acked = {} /\ store = EmptyBag /\ saved.store = EmptyBag
      /\ saved = [baseline |-> saved.baseline, store |-> saved.store]
    BY DEF HistoryInit
<1>2. pending = << >> /\ filed = << >> /\ lost = FALSE
    BY DEF HistoryInit
<1>3. << >> \in Seq(Outcomes) /\ Len(<< >>) = 0 /\ DOMAIN << >> = {} /\ << >> \in Seq(Filable(outcomes))
    BY EmptySeq
<1>4. 0 * Period = 0
    BY Times
<1>5. ToldRecords(outcomes) = {} /\ AckRecords(acked) = {}
    BY <1>1 DEF ToldRecords, AckRecords
<1>6. AllListed(store, pending, outcomes, acked)
    BY <1>5 DEF AllListed
<1> QED
    BY <1>1, <1>2, <1>3, <1>4, <1>6, NoHistory DEF ListsInv

LEMMA CycleLists == ASSUME ListsInv, NEW o \in Outcomes, NEW d \in Delays, Cycle(o, d) PROVE ListsInv'
<1> DEFINE at == now + Period
           left == CycleRecords(at, o)
<1>1. PICK first \in ArchivedRecords :
        /\ filed' = <<first>> \o left /\ pending' = filed'
        /\ Range(filed') = {first} \cup Range(left)
        /\ filed' \in Seq(Filable(outcomes'))
        /\ at = (Len(outcomes) + 1) * Period
    BY CycleFiles
<1>2. /\ outcomes' = Append(outcomes, o) /\ now' = at /\ pending = << >>
      /\ store' = store /\ saved' = saved /\ acked' = acked /\ lost' = lost
    BY DEF Cycle
<1> HIDE DEF at
<1>3. outcomes \in Seq(Outcomes)
    BY DEF ListsInv
<1>4. /\ outcomes' \in Seq(Outcomes) /\ Len(outcomes') = Len(outcomes) + 1
      /\ DOMAIN outcomes \subseteq DOMAIN outcomes'
      /\ ToldRecords(outcomes) \subseteq ToldRecords(outcomes')
      /\ ToldRecords(outcomes') = ToldRecords(outcomes) \cup Range(left)
    BY <1>1, <1>2, <1>3, NextCycle
<1>5. IsHistory(store', outcomes', acked') /\ IsHistory(saved'.store, outcomes', acked')
    BY <1>2, <1>4, MoreToList DEF ListsInv
<1>6. lost' \/ AllListed(store', pending', outcomes', acked')
    BY <1>1, <1>2, <1>4, NothingPending DEF ListsInv, AllListed
<1>7. now' = Len(outcomes') * Period /\ acked' \subseteq DOMAIN outcomes' /\ lost' \in BOOLEAN
    BY <1>1, <1>2, <1>4 DEF ListsInv
<1> QED
    BY <1>1, <1>2, <1>4, <1>5, <1>6, <1>7 DEF ListsInv

LEMMA FileLists == ASSUME ListsInv, File PROVE ListsInv'
<1>1. /\ pending # << >> /\ store' = AppendRecord(store, Head(pending)) /\ pending' = Tail(pending)
      /\ now' = now /\ saved' = saved /\ filed' = filed /\ outcomes' = outcomes /\ acked' = acked /\ lost' = lost
    BY DEF File
<1>2. outcomes \in Seq(Outcomes) /\ IsHistory(store, outcomes, acked) /\ pending \in Seq(Filable(outcomes))
    BY DEF ListsInv
<1> DEFINE r == Head(pending)
<1>3. r \in Filable(outcomes) /\ Tail(pending) \in Seq(Filable(outcomes))
      /\ Range(pending) = {r} \cup Range(Tail(pending))
    BY <1>1, <1>2, Firsts
<1> HIDE DEF r
<1>4. /\ IsHistory(store', outcomes, acked) /\ Records(store) \subseteq Records(store')
      /\ r \in ToldRecords(outcomes) \cup AckRecords(acked) => r \in Records(store')
    BY <1>1, <1>2, <1>3, Filing DEF r
<1>5. lost' \/ AllListed(store', pending', outcomes', acked')
    BY <1>1, <1>3, <1>4 DEF ListsInv, AllListed
<1> QED
    BY <1>1, <1>3, <1>4, <1>5 DEF ListsInv

LEMMA FileAgainLists == ASSUME ListsInv, FileAgain PROVE ListsInv'
<1>1. /\ pending = << >> /\ pending' = filed /\ store' = store
      /\ now' = now /\ saved' = saved /\ filed' = filed /\ outcomes' = outcomes /\ acked' = acked /\ lost' = lost
    BY DEF FileAgain
<1>2. lost' \/ AllListed(store', pending', outcomes', acked')
    BY <1>1, NothingPending DEF ListsInv, AllListed
<1> QED
    BY <1>1, <1>2 DEF ListsInv

LEMMA AcknowledgeLists == ASSUME ListsInv, NEW i \in DOMAIN outcomes, Acknowledge(i) PROVE ListsInv'
<1>1. /\ pending = << >> /\ store' = AppendRecord(store, Ack(i)) /\ acked' = acked \cup {i}
      /\ now' = now /\ saved' = saved /\ pending' = pending /\ filed' = filed /\ outcomes' = outcomes /\ lost' = lost
    BY DEF Acknowledge, Ack
<1>2. outcomes \in Seq(Outcomes) /\ acked' \subseteq DOMAIN outcomes
    BY <1>1 DEF ListsInv
<1>3. AckRecords(acked') = AckRecords(acked) \cup {Ack(i)}
    BY <1>1 DEF AckRecords
<1>4. IsHistory(store, outcomes, acked') /\ IsHistory(saved.store, outcomes, acked')
    BY <1>1, MoreToList DEF ListsInv
<1>5. /\ IsHistory(store', outcomes, acked') /\ Records(store) \subseteq Records(store')
      /\ Ack(i) \in Records(store')
    BY <1>1, <1>2, <1>3, <1>4, Filing
<1>6. lost' \/ AllListed(store', pending', outcomes', acked')
    BY <1>1, <1>3, <1>5 DEF ListsInv, AllListed
<1> QED
    BY <1>1, <1>2, <1>4, <1>5, <1>6 DEF ListsInv

LEMMA RetainLists == ASSUME ListsInv, NEW p, Retain(p) PROVE ListsInv'
<1>1. PICK gone : store' = Remove(store, gone) /\ lost' = (lost \/ gone # {})
    BY DEF Retain
<1>2. /\ pending = << >> /\ acked' = acked
      /\ now' = now /\ saved' = saved /\ pending' = pending /\ filed' = filed /\ outcomes' = outcomes
    BY DEF Retain
<1>3. IsHistory(store', outcomes, acked) /\ (gone = {} => store' = store)
    BY <1>1, Removing DEF ListsInv
<1>4. lost' \in BOOLEAN /\ (lost' \/ AllListed(store', pending', outcomes', acked'))
    BY <1>1, <1>2, <1>3 DEF ListsInv
<1> QED
    BY <1>2, <1>3, <1>4 DEF ListsInv

LEMMA SaveLists == ASSUME ListsInv, SaveBaseline \/ SaveHistory PROVE ListsInv'
<1>1. /\ store' = store /\ acked' = acked /\ lost' = lost
      /\ now' = now /\ pending' = pending /\ filed' = filed /\ outcomes' = outcomes
    BY DEF SaveBaseline, SaveHistory
<1>2. saved' = [saved EXCEPT !.baseline = baseline] \/ saved' = [saved EXCEPT !.store = store]
    BY DEF SaveBaseline, SaveHistory
<1>3. /\ saved' = [baseline |-> saved'.baseline, store |-> saved'.store]
      /\ saved'.store = saved.store \/ saved'.store = store
    <2>1. saved = [baseline |-> saved.baseline, store |-> saved.store]
        BY DEF ListsInv
    <2> QED
        BY <1>2, <2>1
<1>4. IsHistory(saved'.store, outcomes, acked)
    BY <1>3 DEF ListsInv
<1> QED
    BY <1>1, <1>3, <1>4 DEF ListsInv

LEMMA RestartLists == ASSUME ListsInv, Restart PROVE ListsInv'
<1>1. /\ store' = Reloaded(saved.store) /\ pending' = << >> /\ filed' = << >>
      /\ lost' = (lost \/ pending # << >> \/ store # saved.store)
      /\ now' = now /\ saved' = saved /\ outcomes' = outcomes /\ acked' = acked
    BY DEF Restart
<1>2. store' = saved.store
    BY <1>1, Reloading DEF ListsInv
<1>3. << >> \in Seq(Filable(outcomes))
    BY EmptySeq
<1>4. lost' \in BOOLEAN /\ (lost' \/ AllListed(store', pending', outcomes', acked'))
    BY <1>1, <1>2 DEF ListsInv
<1> QED
    BY <1>1, <1>2, <1>3, <1>4 DEF ListsInv

\* Whatever is filed, removed, dumped and loaded, a history lists only what cycles left,
\* each record once, and all of it unless some was lost (InMemoryHistoryStore).
THEOREM ListsStand == HistorySpec => []ListsInv
<1>1. HistoryInit => ListsInv
    BY ListsInit
<1>2. ListsInv /\ [HistoryNext]_historyVars => ListsInv'
    <2> SUFFICES ASSUME ListsInv, [HistoryNext]_historyVars PROVE ListsInv'
        OBVIOUS
    <2>1. ASSUME NEW o \in Outcomes, NEW d \in Delays, Cycle(o, d) PROVE ListsInv'
        BY <2>1, CycleLists
    <2>2. CASE File
        BY <2>2, FileLists
    <2>3. CASE FileAgain
        BY <2>3, FileAgainLists
    <2>4. ASSUME NEW i \in DOMAIN outcomes, Acknowledge(i) PROVE ListsInv'
        BY <2>4, AcknowledgeLists
    <2>5. ASSUME NEW p \in RetentionPolicies, Retain(p) PROVE ListsInv'
        BY <2>5, RetainLists
    <2>6. CASE SaveBaseline \/ SaveHistory
        BY <2>6, SaveLists
    <2>7. CASE Restart
        BY <2>7, RestartLists
    <2>8. CASE UNCHANGED historyVars
        BY <2>8 DEF historyVars, ListsInv
    <2> QED
        BY <2>1, <2>2, <2>3, <2>4, <2>5, <2>6, <2>7, <2>8 DEF HistoryNext
<1> QED
    BY <1>1, <1>2, PTL DEF HistorySpec

LEMMA BaselineInit == HistoryInit => BaselineInv
<1> SUFFICES ASSUME HistoryInit PROVE BaselineInv
    OBVIOUS
<1>1. /\ now = 0 /\ baseline = NoBaseline /\ saved.baseline = NoBaseline /\ store = EmptyBag
      /\ pending = << >> /\ filed = << >> /\ restarts = 0
    BY DEF HistoryInit
<1>2. Records(store) = {} /\ Range(pending) = {} /\ Range(filed) = {}
    BY <1>1, NoHistory, NothingPending
<1> QED
    BY <1>1, <1>2, HistoryAssumption DEF BaselineInv

LEMMA CycleBaseline ==
    ASSUME ListsInv, BaselineInv, NEW o \in Outcomes, NEW d \in Delays, Cycle(o, d)
    PROVE  BaselineInv'
<1> DEFINE at == now + Period
           left == CycleRecords(at, o)
<1>1. PICK first \in ArchivedRecords :
        /\ filed' = <<first>> \o left /\ pending' = filed'
        /\ Range(filed') = {first} \cup Range(left)
        /\ at = (Len(outcomes) + 1) * Period
        /\ first.type = "snapshot" /\ first.ref[2] = at
    BY CycleFiles
<1>2. /\ now' = at /\ pending = << >> /\ store' = store /\ saved' = saved /\ restarts' = restarts
      /\ baseline' = IF baseline = NoBaseline THEN [capturedAt |-> at] ELSE baseline
    BY DEF Cycle, SetBaseline
<1>3. outcomes \in Seq(Outcomes) /\ Len(outcomes) \in Nat /\ now = Len(outcomes) * Period
    BY LenProperties DEF ListsInv
<1>4. now \in Nat /\ at \in Nat /\ at >= now
    <2>1. now \in Nat /\ Period \in Nat
        BY <1>3, Times
    <2> QED
        BY <2>1
<1>5. \A r \in Range(left) : r.type # "snapshot"
    BY <1>1, <1>3, NextCycle
<1> HIDE DEF at, left
<1>6. baseline' \in [capturedAt : 0 .. at] /\ baseline' # NoBaseline
    <2>1. CASE baseline = NoBaseline
        <3>1. baseline' = [capturedAt |-> at]
            BY <1>2, <2>1
        <3>2. NoBaseline.capturedAt = -1
            BY DEF NoBaseline
        <3>3. baseline'.capturedAt = at
            BY <3>1
        <3> QED
            BY <1>4, <3>1, <3>2, <3>3
    <2>2. CASE baseline # NoBaseline
        BY <1>2, <1>4, <2>2 DEF BaselineInv
    <2> QED
        BY <2>1, <2>2
<1>7. saved.baseline = NoBaseline \/ saved.baseline \in [capturedAt : 0 .. at]
    BY <1>4 DEF BaselineInv
<1>8. saved.baseline # NoBaseline => baseline' = saved.baseline
    BY <1>2 DEF BaselineInv
<1>9. ASSUME restarts = 0, NEW r \in Records(store) \cup Range(filed'), r.type = "snapshot"
      PROVE  baseline'.capturedAt <= r.ref[2]
    <2>1. CASE r \in Range(filed')
        <3>1. r = first
            BY <1>1, <1>5, <1>9, <2>1
        <3>2. baseline'.capturedAt \in 0 .. at
            BY <1>6
        <3> QED
            BY <1>1, <1>4, <3>1, <3>2
    <2>2. CASE r \in Records(store)
        BY <1>2, <1>9, <2>2 DEF BaselineInv
    <2> QED
        BY <1>9, <2>1, <2>2
<1>10. restarts' \in 0 .. MaxRestarts
    BY <1>2 DEF BaselineInv
<1> QED
    BY <1>1, <1>2, <1>6, <1>7, <1>8, <1>9, <1>10 DEF BaselineInv

LEMMA FileBaseline == ASSUME ListsInv, BaselineInv, File PROVE BaselineInv'
<1>1. /\ pending # << >> /\ store' = AppendRecord(store, Head(pending)) /\ pending' = Tail(pending)
      /\ now' = now /\ saved' = saved /\ filed' = filed /\ restarts' = restarts /\ baseline' = baseline
    BY DEF File
<1>2. outcomes \in Seq(Outcomes) /\ IsHistory(store, outcomes, acked) /\ pending \in Seq(Filable(outcomes))
    BY DEF ListsInv
<1> DEFINE r == Head(pending)
<1>3. r \in Filable(outcomes) /\ Range(pending) = {r} \cup Range(Tail(pending))
    BY <1>1, <1>2, Firsts
<1> HIDE DEF r
<1>4. Records(store') \subseteq Records(store) \cup {r}
    BY <1>1, <1>2, <1>3, Filing DEF r
<1>5. Records(store') \cup Range(pending') \cup Range(filed')
        \subseteq Records(store) \cup Range(pending) \cup Range(filed)
    BY <1>1, <1>3, <1>4
<1> QED
    BY <1>1, <1>5 DEF BaselineInv

LEMMA AcknowledgeBaseline ==
    ASSUME ListsInv, BaselineInv, NEW i \in DOMAIN outcomes, Acknowledge(i)
    PROVE  BaselineInv'
<1>1. /\ store' = AppendRecord(store, Ack(i))
      /\ now' = now /\ saved' = saved /\ pending' = pending /\ filed' = filed
      /\ restarts' = restarts /\ baseline' = baseline
    BY DEF Acknowledge, Ack
<1>2. outcomes \in Seq(Outcomes) /\ IsHistory(store, outcomes, acked \cup {i})
    BY MoreToList DEF ListsInv
<1>3. Ack(i) \in AckRecords(acked \cup {i})
    BY DEF AckRecords
<1>4. Records(store') \subseteq Records(store) \cup {Ack(i)}
    BY <1>1, <1>2, <1>3, Filing
<1>5. Ack(i).type # "snapshot"
    BY AckIs
<1>6. ASSUME restarts = 0, NEW r \in Records(store') \cup Range(pending) \cup Range(filed), r.type = "snapshot"
      PROVE  baseline # NoBaseline /\ baseline.capturedAt <= r.ref[2]
    BY <1>4, <1>5, <1>6 DEF BaselineInv
<1> QED
    BY <1>1, <1>6 DEF BaselineInv

LEMMA RetainBaseline == ASSUME ListsInv, BaselineInv, NEW p, Retain(p) PROVE BaselineInv'
<1>1. PICK gone : store' = Remove(store, gone)
    BY DEF Retain
<1>2. /\ now' = now /\ saved' = saved /\ pending' = pending /\ filed' = filed
      /\ restarts' = restarts /\ baseline' = baseline
    BY DEF Retain
<1>3. Records(store') \subseteq Records(store)
    BY <1>1, Removing DEF ListsInv
<1> QED
    BY <1>2, <1>3 DEF BaselineInv

LEMMA SaveBaselines == ASSUME ListsInv, BaselineInv, SaveBaseline \/ SaveHistory PROVE BaselineInv'
<1>1. /\ store' = store /\ now' = now /\ pending' = pending /\ filed' = filed
      /\ restarts' = restarts /\ baseline' = baseline
    BY DEF SaveBaseline, SaveHistory
<1>2. saved' = [saved EXCEPT !.baseline = baseline] \/ saved' = [saved EXCEPT !.store = store]
    BY DEF SaveBaseline, SaveHistory
<1>3. saved'.baseline = saved.baseline \/ saved'.baseline = baseline
    <2>1. saved = [baseline |-> saved.baseline, store |-> saved.store]
        BY DEF ListsInv
    <2> QED
        BY <1>2, <2>1
<1> QED
    BY <1>1, <1>3 DEF BaselineInv

LEMMA RestartBaseline == ASSUME BaselineInv, Restart PROVE BaselineInv'
<1>1. /\ restarts < MaxRestarts /\ restarts' = restarts + 1 /\ now' = now
      /\ baseline' = saved.baseline /\ saved' = saved
    BY DEF Restart
<1>2. restarts' \in 0 .. MaxRestarts /\ restarts' # 0
    BY <1>1, HistoryAssumption DEF BaselineInv
<1> QED
    BY <1>1, <1>2 DEF BaselineInv

\* No snapshot filed before the first restart is older than the baseline (set_baseline).
THEOREM BaselineIsFirst == HistorySpec => []BaselineInv
<1>1. HistoryInit => BaselineInv
    BY BaselineInit
<1>2. ListsInv /\ BaselineInv /\ [HistoryNext]_historyVars => BaselineInv'
    <2> SUFFICES ASSUME ListsInv, BaselineInv, [HistoryNext]_historyVars PROVE BaselineInv'
        OBVIOUS
    <2>1. ASSUME NEW o \in Outcomes, NEW d \in Delays, Cycle(o, d) PROVE BaselineInv'
        BY <2>1, CycleBaseline
    <2>2. CASE File
        BY <2>2, FileBaseline
    <2>3. CASE FileAgain
        BY <2>3 DEF FileAgain, BaselineInv
    <2>4. ASSUME NEW i \in DOMAIN outcomes, Acknowledge(i) PROVE BaselineInv'
        BY <2>4, AcknowledgeBaseline
    <2>5. ASSUME NEW p \in RetentionPolicies, Retain(p) PROVE BaselineInv'
        BY <2>5, RetainBaseline
    <2>6. CASE SaveBaseline \/ SaveHistory
        BY <2>6, SaveBaselines
    <2>7. CASE Restart
        BY <2>7, RestartBaseline
    <2>8. CASE UNCHANGED historyVars
        BY <2>8 DEF historyVars, BaselineInv
    <2> QED
        BY <2>1, <2>2, <2>3, <2>4, <2>5, <2>6, <2>7, <2>8 DEF HistoryNext
<1> QED
    BY <1>1, <1>2, ListsStand, PTL DEF HistorySpec

\* The baseline a protocol is compared with is its first snapshot, and stays it across
\* restarts once it was dumped: InMemoryBaselineStore, archive and archive_cycle.
THEOREM TheBaselineStands == HistorySpec => []BaselineStands
<1>1. BaselineInv => BaselineStands
    BY DEF BaselineInv, BaselineStands
<1> QED
    BY <1>1, BaselineIsFirst, PTL

\* A finite set of numbers has a greatest.
LEMMA GreatestOf ==
    ASSUME NEW S, IsFiniteSet(S), S # {}, S \subseteq Int
    PROVE  \E m \in S : \A x \in S : x <= m
<1> DEFINE Bad == {T \in SUBSET S : T # {} /\ ~ \E m \in T : \A x \in T : x <= m}
<1> SUFFICES ASSUME Bad # {} PROVE FALSE
    OBVIOUS
<1>0. Bad \in SUBSET SUBSET S
    OBVIOUS
<1> HIDE DEF Bad
<1>1. PICK T \in Bad : \A U \in Bad : U \subseteq T => U = T
    BY ONLY <1>0, IsFiniteSet(S), Bad # {}, LeastSubset
<1>2. T \in SUBSET S /\ T # {} /\ ~ \E m \in T : \A x \in T : x <= m
    BY <1>1 DEF Bad
<1>3. PICK y \in T : TRUE
    BY <1>2
<1>4. T \ {y} \subseteq T /\ T \ {y} # T /\ T \ {y} \in SUBSET S
    BY <1>2, <1>3
<1>5. T \ {y} \notin Bad
    BY <1>1, <1>4
<1>6. CASE T \ {y} = {}
    <2>1. \A x \in T : x = y
        BY <1>6
    <2>2. y \in Int
        BY <1>2, <1>3
    <2> QED
        BY <1>2, <1>3, <2>1, <2>2
<1>7. CASE T \ {y} # {}
    <2>1. PICK m \in T \ {y} : \A x \in T \ {y} : x <= m
        BY <1>4, <1>5, <1>7 DEF Bad
    <2>2. m \in T /\ m \in Int /\ y \in Int /\ \A x \in T : x \in Int
        BY <1>2
    <2>3. CASE y <= m
        BY <1>2, <2>1, <2>2, <2>3
    <2>4. CASE m <= y
        <3>1. \A x \in T : x <= y
            BY <2>1, <2>2, <2>4
        <3> QED
            BY <1>2, <1>3, <3>1
    <2> QED
        BY <2>2, <2>3, <2>4
<1> QED
    BY <1>6, <1>7

\* The oldest k records: at most k are older than any record that is not among them.
LEMMA OldestOf ==
    ASSUME NEW S, IsFiniteSet(S), \A r \in S : r.at \in Nat, NEW k \in Int, NEW old \in Oldest(S, k)
    PROVE  /\ old \subseteq S
           /\ \A r \in old, q \in S \ old : r.at <= q.at
           /\ k <= 0 => old = {}
           /\ k >= Cardinality(S) => k <= 0 \/ old = S
           /\ k > 0 /\ k < Cardinality(S) => Cardinality(old) = k
<1>0. Cardinality(S) \in Nat
    BY FS_CardinalityType
<1>1. CASE k <= 0
    BY <1>0, <1>1 DEF Oldest
<1>2. CASE ~ (k <= 0) /\ k >= Cardinality(S)
    BY <1>0, <1>2 DEF Oldest
<1>3. CASE ~ (k <= 0) /\ ~ (k >= Cardinality(S))
    <2> DEFINE upTo(t) == {r \in S : r.at <= t}
               times == {r.at : r \in S}
               Fits(t) == Cardinality(upTo(t)) >= k /\ \A q \in S : q.at < t => Cardinality(upTo(q.at)) < k
               time == CHOOSE t \in times : Fits(t)
               older == {r \in S : r.at < time}
    <2>1. old \in {older \cup ties : ties \in kSubset(k - Cardinality(older), upTo(time) \ older)}
        BY <1>3 DEF Oldest
    <2>2. \E t \in times : Fits(t)
        <3> DEFINE f == [r \in S |-> r.at]
        <3>1. times = {f[r] : r \in S}
            OBVIOUS
        <3> HIDE DEF f
        <3>2. IsFiniteSet(times)
            BY <3>1, FiniteImage
        <3>3. S # {}
            BY <1>0, <1>3, FS_EmptySet
        <3>4. times # {} /\ times \in SUBSET Nat /\ times \in SUBSET Int
            BY <3>3
        <3> HIDE DEF times
        <3>5. PICK m \in times : \A x \in times : x <= m
            BY <3>2, <3>4, GreatestOf
        <3>6. upTo(m) = S
            BY <3>5 DEF times
        <3> DEFINE enough == {t \in times : Cardinality(upTo(t)) >= k}
        <3>7. enough # {} /\ enough \in SUBSET Nat
            <4>1. Cardinality(upTo(m)) >= k
                BY <1>0, <1>3, <3>6
            <4> HIDE DEF upTo
            <4>2. m \in enough
                BY <3>5, <4>1
            <4>3. enough \in SUBSET Nat
                BY <3>4
            <4> QED
                BY <4>2, <4>3
        <3> HIDE DEF enough
        <3>8. PICK t \in enough : \A x \in enough : t <= x
            BY <3>7, LeastNumber
        <3>9. t \in times /\ Cardinality(upTo(t)) >= k
            BY <3>8 DEF enough
        <3>10. ASSUME NEW q \in S, q.at < t PROVE Cardinality(upTo(q.at)) < k
            <4>1. q.at \in times /\ q.at \in Nat /\ t \in Nat
                BY <3>7, <3>8 DEF times
            <4>2. q.at \notin enough
                BY <3>8, <3>10, <4>1
            <4>3. ~ (Cardinality(upTo(q.at)) >= k)
                BY <4>1, <4>2 DEF enough
            <4>4. Cardinality(upTo(q.at)) \in Nat
                <5>1. upTo(q.at) \subseteq S
                    OBVIOUS
                <5> HIDE DEF upTo
                <5> QED
                    BY <5>1, FS_Subset, FS_CardinalityType
            <4> QED
                BY <4>3, <4>4
        <3> QED
            BY <3>9, <3>10
    <2>3. time \in times /\ time \in Nat
        <3>1. time \in times
            BY <2>2
        <3> HIDE DEF time
        <3> QED
            BY <3>1
    <2> HIDE DEF time
    <2>4. PICK ties \in SUBSET (upTo(time) \ older) :
                /\ Cardinality(ties) = k - Cardinality(older)
                /\ old = older \cup ties
        BY <2>1 DEF kSubset
    <2>5. old \subseteq S /\ \A r \in old : r.at <= time
        BY <2>3, <2>4
    <2>6. \A q \in S \ old : q.at >= time
        BY <2>3, <2>4
    <2>7. \A r \in old, q \in S \ old : r.at <= q.at
        <3>1. \A r \in S : r.at \in Nat
            OBVIOUS
        <3> QED
            BY <2>3, <2>5, <2>6, <3>1
    <2>8. Cardinality(old) = k
        <3>1. older \subseteq S /\ ties \subseteq S /\ older \cap ties = {}
            BY <2>4
        <3> HIDE DEF older
        <3>2. IsFiniteSet(older) /\ IsFiniteSet(ties)
            BY <3>1, FS_Subset
        <3>3. Cardinality(older) \in Nat /\ Cardinality(ties) \in Nat
            BY <3>2, FS_CardinalityType
        <3>4. Cardinality(old) = Cardinality(older) + Cardinality(ties) - Cardinality(older \cap ties)
            BY <2>4, <3>2, FS_Union
        <3>5. Cardinality(older \cap ties) = 0
            BY <3>1, FS_EmptySet
        <3> QED
            BY <2>4, <3>3, <3>4, <3>5
    <2> QED
        BY <1>3, <2>5, <2>7, <2>8
<1> QED
    BY <1>0, <1>1, <1>2, <1>3

\* The records of a history have a type and a time.
LEMMA RecordsTyped ==
    ASSUME NEW os \in Seq(Outcomes), NEW as \in SUBSET DOMAIN os, NEW log, IsHistory(log, os, as),
           NEW r \in Records(log)
    PROVE  r.type \in RecordTypes /\ r.at \in Nat
<1>1. DOMAIN os \in SUBSET Nat
    BY LenProperties
<1>2. CASE r \in ToldRecords(os)
    <2>1. PICK i \in DOMAIN os, k \in 1 .. 5 : r = Told(os, i, k)
        BY <1>2 DEF ToldRecords
    <2>2. r.type = Kinds[k] /\ r.at \in Nat
        BY <1>1, <2>1, ToldIs, Times
    <2> QED
        BY <2>2 DEF Kinds, RecordTypes
<1>3. CASE r \in ArchivedRecords
    BY <1>3, ArchivedRecordIs DEF RecordTypes
<1>4. CASE r \in AckRecords(as)
    <2>1. PICK i \in as : r = Ack(i)
        BY <1>4 DEF AckRecords
    <2> QED
        BY <1>1, <2>1, AckIs, Times DEF RecordTypes
<1> QED
    BY <1>2, <1>3, <1>4 DEF IsHistory, Filable

\* What a policy leaves.
LEMMA RetentionLeaves ==
    ASSUME NEW os \in Seq(Outcomes), NEW as \in SUBSET DOMAIN os, NEW log, IsHistory(log, os, as),
           NEW p \in RetentionPolicies, NEW b, NEW time \in Int, NEW gone \in Removals(log, b, p, time)
    PROVE  LET kept == Protected(log, b, p)
               left == Records(log) \ gone
           IN  /\ kept \subseteq left /\ gone \subseteq Records(log)
               /\ \A r \in gone, q \in left \ kept : r.at <= q.at
               /\ Cardinality(left) <= p.maxRecords \/ left \subseteq kept
<1> DEFINE all == Records(log)
           kept == Protected(log, b, p)
           expired == Expired(log, b, p, time)
           rest == all \ expired
           k == Cardinality(rest) - p.maxRecords
<1>1. p.maxRecords \in Nat /\ p.maxAge \in Int
    BY HistoryAssumption DEF RetentionPolicy
<1>2. IsFiniteSet(all) /\ \A r \in all : r.at \in Nat
    BY RecordsTyped DEF IsHistory
<1>3. PICK old \in Oldest(rest \ kept, k) : gone = expired \cup old
    BY DEF Removals
<1>4. kept \subseteq all /\ expired \subseteq all \ kept
    BY DEF Protected, Expired
<1>5. /\ \A r \in expired : r.at < time - p.maxAge
      /\ \A r \in expired, q \in rest \ kept : time - p.maxAge <= q.at
    <2>1. \A r \in expired : p.maxAge > 0 /\ r.at < time - p.maxAge
        BY DEF Expired
    <2>2. \A q \in rest \ kept : ~ (p.maxAge > 0 /\ q.at < time - p.maxAge)
        BY DEF Expired
    <2> QED
        BY <1>1, <1>2, <2>1, <2>2
<1> HIDE DEF all, kept, expired
<1>6. IsFiniteSet(rest) /\ IsFiniteSet(rest \ kept) /\ \A r \in rest \ kept : r.at \in Nat
    BY <1>2, FS_Subset
<1>7. Cardinality(rest) \in Nat /\ Cardinality(rest \ kept) \in Nat
    BY <1>6, FS_CardinalityType
<1>8. k \in Int
    BY <1>1, <1>7
<1> HIDE DEF k
<1>9. /\ old \subseteq rest \ kept
      /\ \A r \in old, q \in (rest \ kept) \ old : r.at <= q.at
      /\ k <= 0 => old = {}
      /\ k >= Cardinality(rest \ kept) => k <= 0 \/ old = rest \ kept
      /\ k > 0 /\ k < Cardinality(rest \ kept) => Cardinality(old) = k
    BY <1>3, <1>6, <1>8, OldestOf
<1> DEFINE left == all \ gone
<1>10. left = rest \ old /\ kept \subseteq left /\ gone \subseteq all
    BY <1>3, <1>4, <1>9
<1>11. ASSUME NEW r \in gone, NEW q \in left \ kept PROVE r.at <= q.at
    <2>1. q \in (rest \ kept) \ old /\ r \in all /\ q \in all
        BY <1>3, <1>4, <1>9, <1>10
    <2>2. CASE r \in old
        BY <1>9, <2>1, <2>2
    <2>3. CASE r \in expired
        <3>1. r.at < time - p.maxAge /\ time - p.maxAge <= q.at
            BY <1>5, <2>1, <2>3
        <3>2. r.at \in Nat /\ q.at \in Nat
            BY <1>2, <2>1
        <3> QED
            BY <1>1, <3>1, <3>2
    <2> QED
        BY <1>3, <2>2, <2>3
<1>12. Cardinality(left) <= p.maxRecords \/ left \subseteq kept
    <2>1. CASE k <= 0
        <3>1. left = rest
            BY <1>9, <1>10, <2>1
        <3>2. Cardinality(rest) <= p.maxRecords
            BY <1>1, <1>7, <2>1 DEF k
        <3> QED
            BY <3>1, <3>2
    <2>2. CASE k > 0 /\ k >= Cardinality(rest \ kept)
        BY <1>8, <1>9, <1>10, <2>2
    <2>3. CASE k > 0 /\ k < Cardinality(rest \ kept)
        <3>1. Cardinality(old) = k /\ old \cap rest = old
            BY <1>9, <2>3
        <3>2. Cardinality(rest \ old) = Cardinality(rest) - Cardinality(rest \cap old)
            BY <1>6, FS_Difference
        <3>3. rest \cap old = old
            BY <3>1
        <3>4. Cardinality(left) = Cardinality(rest) - k
            BY <1>10, <3>1, <3>2, <3>3
        <3>5. k = Cardinality(rest) - p.maxRecords
            BY DEF k
        <3> HIDE DEF left, rest
        <3> QED
            BY <1>1, <1>7, <3>4, <3>5
    <2> QED
        BY <1>7, <1>8, <2>1, <2>2, <2>3
<1> QED
    BY <1>10, <1>11, <1>12 DEF left, kept, all

\* No retention removes the baseline's record against its policy, nor a record before an
\* older one, nor leaves too many: RetentionEngine.apply.
THEOREM RetentionDoesSpare == HistorySpec => RetentionSpares
<1> DEFINE Spared ==
        \A p \in RetentionPolicies : Retain(p) =>
          LET kept == {r \in Records(store) :
                          p.retainBaseline /\ baseline # NoBaseline /\ r.ref = SnapshotRef(baseline)}
              gone == Records(store) \ Records(store')
          IN  /\ kept \subseteq Records(store')
              /\ \A r \in gone, q \in Records(store') \ kept : r.at <= q.at
              /\ Cardinality(Records(store')) <= p.maxRecords \/ Records(store') \subseteq kept
<1>1. ListsInv /\ [HistoryNext]_historyVars => [Spared]_historyVars
    <2> SUFFICES ASSUME ListsInv, NEW p \in RetentionPolicies, Retain(p)
                 PROVE  LET kept == Protected(store, baseline, p)
                            gone == Records(store) \ Records(store')
                        IN  /\ kept \subseteq Records(store')
                            /\ \A r \in gone, q \in Records(store') \ kept : r.at <= q.at
                            /\ Cardinality(Records(store')) <= p.maxRecords \/ Records(store') \subseteq kept
        BY DEF Protected
    <2>1. PICK gone \in Removals(store, baseline, p, now) : store' = Remove(store, gone)
        BY DEF Retain
    <2>2. /\ outcomes \in Seq(Outcomes) /\ acked \in SUBSET DOMAIN outcomes
          /\ IsHistory(store, outcomes, acked) /\ now \in Int
        <3>1. /\ outcomes \in Seq(Outcomes) /\ acked \in SUBSET DOMAIN outcomes
              /\ IsHistory(store, outcomes, acked) /\ now = Len(outcomes) * Period
            BY DEF ListsInv
        <3>2. Len(outcomes) \in Nat
            BY <3>1, LenProperties
        <3> QED
            BY <3>1, <3>2, Times
    <2>3. Records(store') = Records(store) \ gone
        BY <2>1, <2>2, Removing
    <2> DEFINE kept == Protected(store, baseline, p)
               left == Records(store) \ gone
    <2>4. /\ kept \subseteq left /\ gone \subseteq Records(store)
          /\ \A r \in gone, q \in left \ kept : r.at <= q.at
          /\ Cardinality(left) <= p.maxRecords \/ left \subseteq kept
        BY <2>1, <2>2, RetentionLeaves
    <2>5. gone = Records(store) \ left
        BY <2>4
    <2> HIDE DEF kept
    <2> QED
        BY <2>3, <2>4, <2>5 DEF kept
<1> QED
    BY <1>1, ListsStand, PTL DEF HistorySpec, RetentionSpares

\* Every variable keeps its type.
THEOREM HistoryIsTyped == HistorySpec => []HistoryTypes
<1>1. ListsInv /\ BaselineInv => HistoryTypes
    <2> SUFFICES ASSUME ListsInv, BaselineInv PROVE HistoryTypes
        OBVIOUS
    <2>1. /\ outcomes \in Seq(Outcomes) /\ acked \in SUBSET DOMAIN outcomes /\ lost \in BOOLEAN
          /\ IsHistory(store, outcomes, acked) /\ IsHistory(saved.store, outcomes, acked)
          /\ now = Len(outcomes) * Period
        BY DEF ListsInv
    <2>2. now \in Nat
        <3>1. Len(outcomes) \in Nat
            BY <2>1, LenProperties
        <3> QED
            BY <2>1, <3>1, Times
    <2>3. \A r \in Records(store) \cup Records(saved.store) : r.type \in RecordTypes /\ r.at \in Nat
        BY <2>1, RecordsTyped
    <2>4. baseline \in [capturedAt : Int] /\ saved.baseline \in [capturedAt : Int]
        <3>1. NoBaseline \in [capturedAt : Int]
            BY DEF NoBaseline
        <3>2. [capturedAt : 0 .. now] \subseteq [capturedAt : Int]
            BY <2>2
        <3> QED
            BY <3>1, <3>2 DEF BaselineInv
    <2> QED
        BY <2>1, <2>2, <2>3, <2>4 DEF HistoryTypes, BaselineInv
<1> QED
    BY <1>1, ListsStand, BaselineIsFirst, PTL

------------------------------------------------------------------------------
(* Sums of other terms                                                         *)

\* The sum of the terms of w at the values of f is that of the terms of v at its arguments.
LEMMA SumOfImage ==
    ASSUME NEW S, IsFiniteSet(S), NEW f, \A x, y \in S : f[x] = f[y] => x = y,
           NEW w, NEW v, \A x \in S : w[f[x]] = v[x] /\ v[x] \in Int
    PROVE  SumFunctionOnSet(w, {f[x] : x \in S}) = SumFunctionOnSet(v, S)
<1> DEFINE Image(T) == {f[x] : x \in T}
           Bad == {T \in SUBSET S : SumFunctionOnSet(w, Image(T)) # SumFunctionOnSet(v, T)}
<1> SUFFICES ASSUME Bad # {} PROVE FALSE
    OBVIOUS
<1>0. Bad \in SUBSET SUBSET S
    OBVIOUS
<1> HIDE DEF Bad
<1>1. PICK T \in Bad : \A U \in Bad : U \subseteq T => U = T
    BY ONLY <1>0, IsFiniteSet(S), Bad # {}, LeastSubset
<1>2. T \in SUBSET S /\ SumFunctionOnSet(w, Image(T)) # SumFunctionOnSet(v, T)
    BY <1>1 DEF Bad
<1>3. IsFiniteSet(T) /\ IsFiniteSet(Image(T))
    BY <1>2, FS_Subset, FiniteImage
<1>4. (\A x \in T : v[x] \in Int) /\ (\A y \in Image(T) : w[y] \in Int)
    BY <1>2
<1> HIDE DEF Image
<1>5. SumFunctionOnSet(w, {}) = 0 /\ SumFunctionOnSet(v, {}) = 0
    BY <1>3, <1>4, SumOfTerms
<1>6. T # {}
    BY <1>2, <1>5 DEF Image
<1>7. PICK x \in T : TRUE
    BY <1>6
<1>8. f[x] \in Image(T) /\ Image(T) \ {f[x]} = Image(T \ {x}) /\ w[f[x]] = v[x]
    BY <1>2, <1>7 DEF Image
<1>9. /\ SumFunctionOnSet(w, Image(T)) = w[f[x]] + SumFunctionOnSet(w, Image(T) \ {f[x]})
      /\ SumFunctionOnSet(v, T) = v[x] + SumFunctionOnSet(v, T \ {x})
    BY <1>3, <1>4, <1>7, <1>8, SumOfTerms
<1>10. T \ {x} \in SUBSET S /\ T \ {x} \notin Bad
    BY <1>1, <1>2, <1>7
<1>11. SumFunctionOnSet(w, Image(T \ {x})) = SumFunctionOnSet(v, T \ {x})
    BY <1>10 DEF Bad
<1> QED
    BY <1>2, <1>8, <1>9, <1>11

\* Fewer terms sum up to no more.
LEMMA SumOfPart ==
    ASSUME NEW S, IsFiniteSet(S), NEW w, \A x \in S : w[x] \in Nat, NEW R \in SUBSET S
    PROVE  SumFunctionOnSet(w, R) <= SumFunctionOnSet(w, S)
<1> DEFINE Bad == {T \in SUBSET S : R \subseteq T /\ ~ (SumFunctionOnSet(w, R) <= SumFunctionOnSet(w, T))}
<1> SUFFICES ASSUME Bad # {} PROVE FALSE
    OBVIOUS
<1>0. Bad \in SUBSET SUBSET S
    OBVIOUS
<1> HIDE DEF Bad
<1>1. PICK T \in Bad : \A U \in Bad : U \subseteq T => U = T
    BY ONLY <1>0, IsFiniteSet(S), Bad # {}, LeastSubset
<1>2. T \in SUBSET S /\ R \subseteq T /\ ~ (SumFunctionOnSet(w, R) <= SumFunctionOnSet(w, T))
    BY <1>1 DEF Bad
<1>3. ASSUME NEW U \in SUBSET S PROVE IsFiniteSet(U) /\ SumFunctionOnSet(w, U) \in Nat
    <2>1. IsFiniteSet(U)
        BY FS_Subset
    <2> QED
        BY <2>1, SumOfNaturals
<1>4. R # T
    BY <1>2, <1>3
<1>5. PICK x \in T : x \notin R
    BY <1>2, <1>4
<1>6. IsFiniteSet(T) /\ \A y \in T : w[y] \in Int
    BY <1>2, <1>3
<1>7. SumFunctionOnSet(w, T) = w[x] + SumFunctionOnSet(w, T \ {x})
    BY <1>6, SumOfTerms
<1>8. R \subseteq T \ {x} /\ T \ {x} \in SUBSET S /\ T \ {x} \notin Bad
    BY <1>1, <1>2, <1>5
<1>9. SumFunctionOnSet(w, R) <= SumFunctionOnSet(w, T \ {x})
    BY <1>8 DEF Bad
<1>10. w[x] \in Nat /\ SumFunctionOnSet(w, T \ {x}) \in Nat /\ SumFunctionOnSet(w, R) \in Nat
    BY <1>2, <1>3, <1>8
<1> QED
    BY <1>2, <1>7, <1>9, <1>10

\* Terms of 1 are counted.
LEMMA SumOfOnes ==
    ASSUME NEW S, IsFiniteSet(S), NEW w, \A x \in S : w[x] = 1
    PROVE  SumFunctionOnSet(w, S) = Cardinality(S)
<1> DEFINE Bad == {T \in SUBSET S : SumFunctionOnSet(w, T) # Cardinality(T)}
<1> SUFFICES ASSUME Bad # {} PROVE FALSE
    OBVIOUS
<1>0. Bad \in SUBSET SUBSET S
    OBVIOUS
<1> HIDE DEF Bad
<1>1. PICK T \in Bad : \A U \in Bad : U \subseteq T => U = T
    BY ONLY <1>0, IsFiniteSet(S), Bad # {}, LeastSubset
<1>2. T \in SUBSET S /\ SumFunctionOnSet(w, T) # Cardinality(T)
    BY <1>1 DEF Bad
<1>3. IsFiniteSet(T) /\ \A x \in T : w[x] \in Int
    BY <1>2, FS_Subset
<1>4. T # {}
    BY <1>2, <1>3, SumOfTerms, FS_EmptySet
<1>5. PICK x \in T : TRUE
    BY <1>4
<1>6. SumFunctionOnSet(w, T) = 1 + SumFunctionOnSet(w, T \ {x})
    BY <1>2, <1>3, <1>5, SumOfTerms
<1>7. T \ {x} \in SUBSET S /\ T \ {x} \notin Bad
    BY <1>1, <1>2, <1>5
<1>8. SumFunctionOnSet(w, T \ {x}) = Cardinality(T \ {x})
    BY <1>7 DEF Bad
<1>9. Cardinality(T \ {x}) = Cardinality(T) - 1 /\ Cardinality(T) \in Nat
    BY <1>3, <1>5, FS_RemoveElement, FS_CardinalityType
<1> QED
    BY <1>2, <1>6, <1>8, <1>9

\* Records that are listed once each are counted as often as there are arguments.
LEMMA CountOfImage ==
    ASSUME NEW S, IsFiniteSet(S), NEW f, \A x, y \in S : f[x] = f[y] => x = y,
           NEW w, \A x \in S : w[f[x]] = 1
    PROVE  SumFunctionOnSet(w, {f[x] : x \in S}) = Cardinality(S)
<1> DEFINE v == [x \in S |-> 1]
<1>1. \A x \in S : v[x] = 1
    OBVIOUS
<1> HIDE DEF v
<1>2. \A x \in S : w[f[x]] = v[x] /\ v[x] \in Int
    BY <1>1
<1>3. SumFunctionOnSet(w, {f[x] : x \in S}) = SumFunctionOnSet(v, S)
    BY <1>2, SumOfImage
<1>4. SumFunctionOnSet(v, S) = Cardinality(S)
    BY <1>1, SumOfOnes
<1> QED
    BY <1>3, <1>4

------------------------------------------------------------------------------
(* What the timeline counts                                                    *)

\* The cycles whose record of a kind is listed.
ToldOf(log, os, k) == {i \in DOMAIN os : Told(os, i, k) \in Records(log)}
RecordsOf(os, k, I) == {Told(os, i, k) : i \in I}

LEMMA ListedOfKind ==
    ASSUME NEW os \in Seq(Outcomes), NEW as, NEW log, IsHistory(log, os, as), NEW k \in 1 .. 5
    PROVE  /\ OfType(log, Kinds[k]) = RecordsOf(os, k, ToldOf(log, os, k))
           /\ \A i, j \in DOMAIN os : Told(os, i, k) = Told(os, j, k) => i = j
           /\ \A r \in Records(log) : log[r] = 1
           /\ IsFiniteSet(DOMAIN os) /\ DOMAIN os = 1 .. Len(os) /\ Len(os) \in Nat
<1>1. IsFiniteSet(DOMAIN os) /\ DOMAIN os \subseteq Nat /\ DOMAIN os = 1 .. Len(os) /\ Len(os) \in Nat
    <2>1. DOMAIN os = 1 .. Len(os) /\ Len(os) \in Nat
        BY LenProperties
    <2> QED
        BY <2>1, FS_Interval
<1>2. \A i : Told(os, i, k).type = Kinds[k] /\ Told(os, i, k).at = i * Period
    BY ToldIs
<1>3. \A i, j \in DOMAIN os : Told(os, i, k) = Told(os, j, k) => i = j
    <2> SUFFICES ASSUME NEW i \in DOMAIN os, NEW j \in DOMAIN os, Told(os, i, k) = Told(os, j, k) PROVE i = j
        OBVIOUS
    <2>1. i * Period = j * Period
        BY <1>2
    <2> QED
        BY <1>1, <2>1, Times
<1>4. \A i \in ToldOf(log, os, k) : Told(os, i, k) \in OfType(log, Kinds[k])
    BY <1>2 DEF ToldOf, OfType
<1>5. ASSUME NEW r \in OfType(log, Kinds[k]) PROVE \E i \in ToldOf(log, os, k) : r = Told(os, i, k)
    <2>1. r \in Records(log) /\ r.type = Kinds[k]
        BY DEF OfType
    <2>2. Kinds[k] \notin {"snapshot", "acknowledgement"}
        BY DEF Kinds
    <2>3. r \notin ArchivedRecords
        BY <2>1, <2>2, ArchivedRecordIs
    <2>4. r \notin AckRecords(as)
        <3>1. \A i : Ack(i).type = "acknowledgement"
            BY AckIs
        <3> QED
            BY <2>1, <2>2, <3>1 DEF AckRecords
    <2>5. r \in ToldRecords(os)
        BY <2>1, <2>3, <2>4 DEF IsHistory, Filable
    <2>6. PICK i \in DOMAIN os, m \in 1 .. 5 : r = Told(os, i, m)
        BY <2>5 DEF ToldRecords
    <2>7. Kinds[m] = Kinds[k]
        BY <2>1, <2>6, ToldIs
    <2>8. m = k
        BY <2>7 DEF Kinds
    <2> QED
        BY <2>1, <2>6, <2>8 DEF ToldOf
<1>6. OfType(log, Kinds[k]) = RecordsOf(os, k, ToldOf(log, os, k))
    BY <1>4, <1>5 DEF RecordsOf
<1>7. \A r \in Records(log) : log[r] = 1
    BY DEF IsHistory
<1> QED
    BY <1>1, <1>3, <1>6, <1>7

LEMMA ListedAcks ==
    ASSUME NEW os \in Seq(Outcomes), NEW as, NEW log, IsHistory(log, os, as)
    PROVE  OfType(log, "acknowledgement") = {Ack(i) : i \in {i \in as : Ack(i) \in Records(log)}}
<1>1. \A i : Ack(i).type = "acknowledgement"
    BY AckIs
<1>2. ASSUME NEW r \in OfType(log, "acknowledgement")
      PROVE  \E i \in {i \in as : Ack(i) \in Records(log)} : r = Ack(i)
    <2>1. r \in Records(log) /\ r.type = "acknowledgement"
        BY DEF OfType
    <2>2. r \notin ArchivedRecords
        BY <2>1, ArchivedRecordIs
    <2>3. r \notin ToldRecords(os)
        <3> SUFFICES ASSUME NEW i \in DOMAIN os, NEW m \in 1 .. 5, r = Told(os, i, m) PROVE FALSE
            BY DEF ToldRecords
        <3>1. Kinds[m] = "acknowledgement"
            BY <2>1, ToldIs
        <3> QED
            BY <3>1 DEF Kinds
    <2>4. r \in AckRecords(as)
        BY <2>1, <2>2, <2>3 DEF IsHistory, Filable
    <2> QED
        BY <2>1, <2>4 DEF AckRecords
<1>3. \A i \in as : Ack(i) \in Records(log) => Ack(i) \in OfType(log, "acknowledgement")
    BY <1>1 DEF OfType
<1> QED
    BY <1>2, <1>3

\* w weighs the records of a kind as v weighs their cycles.
Weighs(w, v, log, os, k) ==
    /\ DOMAIN w = OfType(log, Kinds[k])
    /\ \A i \in DOMAIN os : v[i] \in Int
    /\ \A i \in ToldOf(log, os, k) : w[Told(os, i, k)] = v[i]

LEMMA SumOfKind ==
    ASSUME NEW os \in Seq(Outcomes), NEW as, NEW log, IsHistory(log, os, as), NEW k \in 1 .. 5,
           NEW w, NEW v, Weighs(w, v, log, os, k)
    PROVE  SumFunction(w) = SumFunctionOnSet(v, ToldOf(log, os, k))
<1> DEFINE f == [i \in DOMAIN os |-> Told(os, i, k)]
           I == ToldOf(log, os, k)
<1>1. \A i \in DOMAIN os : f[i] = Told(os, i, k)
    OBVIOUS
<1> HIDE DEF f
<1>2. I \subseteq DOMAIN os /\ IsFiniteSet(I)
    BY ListedOfKind, FS_Subset DEF ToldOf
<1>3. OfType(log, Kinds[k]) = {f[i] : i \in I}
    <2>1. OfType(log, Kinds[k]) = RecordsOf(os, k, I)
        BY ListedOfKind
    <2> HIDE DEF I
    <2> QED
        BY <1>1, <1>2, <2>1 DEF RecordsOf
<1>4. \A i, j \in I : f[i] = f[j] => i = j
    <2>1. \A i, j \in DOMAIN os : Told(os, i, k) = Told(os, j, k) => i = j
        BY ListedOfKind
    <2> HIDE DEF I
    <2> QED
        BY <1>1, <1>2, <2>1
<1>5. \A i \in I : w[f[i]] = v[i] /\ v[i] \in Int
    BY <1>1, <1>2 DEF Weighs
<1> HIDE DEF I
<1>6. SumFunctionOnSet(w, {f[i] : i \in I}) = SumFunctionOnSet(v, I)
    BY <1>2, <1>4, <1>5, SumOfImage
<1> QED
    BY <1>3, <1>6 DEF SumFunction, Weighs, I

LEMMA CountOfKind ==
    ASSUME NEW os \in Seq(Outcomes), NEW as, NEW log, IsHistory(log, os, as), NEW k \in 1 .. 5,
           NEW I \in SUBSET ToldOf(log, os, k)
    PROVE  Count(log, RecordsOf(os, k, I)) = Cardinality(I)
<1> DEFINE f == [i \in DOMAIN os |-> Told(os, i, k)]
<1>1. \A i \in DOMAIN os : f[i] = Told(os, i, k)
    OBVIOUS
<1> HIDE DEF f
<1>2. I \subseteq DOMAIN os /\ IsFiniteSet(I)
    BY ListedOfKind, FS_Subset DEF ToldOf
<1>3. RecordsOf(os, k, I) = {f[i] : i \in I}
    BY <1>1, <1>2 DEF RecordsOf
<1>4. \A i, j \in I : f[i] = f[j] => i = j
    <2>1. \A i, j \in DOMAIN os : Told(os, i, k) = Told(os, j, k) => i = j
        BY ListedOfKind
    <2> QED
        BY <1>1, <1>2, <2>1
<1>5. \A i \in I : log[f[i]] = 1
    <2>1. \A r \in Records(log) : log[r] = 1
        BY DEF IsHistory
    <2>2. \A i \in I : f[i] \in Records(log)
        BY <1>1, <1>2 DEF ToldOf
    <2> QED
        BY <2>1, <2>2
<1>6. SumFunctionOnSet(log, {f[i] : i \in I}) = Cardinality(I)
    BY <1>2, <1>4, <1>5, CountOfImage
<1> QED
    BY <1>3, <1>6 DEF Count

LEMMA AcksCounted ==
    ASSUME NEW os \in Seq(Outcomes), NEW as \in SUBSET DOMAIN os, NEW log, IsHistory(log, os, as)
    PROVE  /\ Acknowledged(log) = Cardinality({i \in as : Ack(i) \in Records(log)})
           /\ Acknowledged(log) <= Cardinality(as)
<1> DEFINE f == [i \in DOMAIN os |-> Ack(i)]
           I == {i \in as : Ack(i) \in Records(log)}
<1>1. \A i \in DOMAIN os : f[i] = Ack(i)
    OBVIOUS
<1> HIDE DEF f
<1>2. I \subseteq DOMAIN os /\ IsFiniteSet(as) /\ I \subseteq as /\ DOMAIN os \subseteq Nat
    <2>1. DOMAIN os = 1 .. Len(os) /\ Len(os) \in Nat
        BY LenProperties
    <2>2. IsFiniteSet(DOMAIN os)
        BY <2>1, FS_Interval
    <2>3. IsFiniteSet(as)
        BY <2>2, FS_Subset
    <2>4. DOMAIN os \subseteq Nat
        BY <2>1
    <2> QED
        BY <2>3, <2>4
<1>3. IsFiniteSet(I) /\ Cardinality(I) <= Cardinality(as)
    <2> HIDE DEF I
    <2> QED
        BY <1>2, FS_Subset
<1>4. OfType(log, "acknowledgement") = {f[i] : i \in I}
    <2>1. OfType(log, "acknowledgement") = {Ack(i) : i \in I}
        BY ListedAcks
    <2> HIDE DEF I
    <2> QED
        BY <1>1, <1>2, <2>1
<1>5. \A i, j \in I : f[i] = f[j] => i = j
    <2> SUFFICES ASSUME NEW i \in I, NEW j \in I, f[i] = f[j] PROVE i = j
        OBVIOUS
    <2>1. Ack(i).at = i * Period /\ Ack(j).at = j * Period
        BY AckIs
    <2>2. i * Period = j * Period /\ i \in Nat /\ j \in Nat
        BY <1>1, <1>2, <2>1
    <2> QED
        BY <2>2, Times
<1>6. \A i \in I : log[f[i]] = 1
    BY <1>1, <1>2 DEF IsHistory
<1> HIDE DEF I
<1>7. SumFunctionOnSet(log, {f[i] : i \in I}) = Cardinality(I)
    BY <1>3, <1>5, <1>6, CountOfImage
<1>8. Acknowledged(log) = Cardinality(I)
    BY <1>4, <1>7 DEF Acknowledged, Count
<1> QED
    BY <1>3, <1>8 DEF I

LEMMA OutcomeParts ==
    ASSUME NEW os \in Seq(Outcomes), NEW i \in DOMAIN os
    PROVE  /\ os[i].unchanged \in BOOLEAN /\ os[i].delta \in Int
           /\ os[i].critical \in Nat /\ os[i].high \in Nat
<1>1. os[i] \in Outcomes
    BY ElementOfSeq, LenProperties
<1> QED
    BY <1>1, HistoryAssumption DEF Outcome

\* The records of all cycles are listed.
LEMMA AllOfKind ==
    ASSUME NEW os \in Seq(Outcomes), NEW as, NEW log, IsHistory(log, os, as),
           ToldRecords(os) \subseteq Records(log), NEW k \in 1 .. 5
    PROVE  ToldOf(log, os, k) = DOMAIN os /\ OfType(log, Kinds[k]) = RecordsOf(os, k, DOMAIN os)
<1>1. \A i \in DOMAIN os : Told(os, i, k) \in Records(log)
    <2> SUFFICES ASSUME NEW i \in DOMAIN os PROVE Told(os, i, k) \in ToldRecords(os)
        OBVIOUS
    <2> DEFINE x == <<i, k>>
    <2>1. x \in (DOMAIN os) \X (1 .. 5) /\ Told(os, x[1], x[2]) = Told(os, i, k)
        OBVIOUS
    <2> QED
        BY <2>1 DEF ToldRecords
<1>2. ToldOf(log, os, k) = DOMAIN os
    BY <1>1 DEF ToldOf
<1>3. OfType(log, Kinds[k]) = RecordsOf(os, k, ToldOf(log, os, k))
    BY ListedOfKind
<1> QED
    BY <1>2, <1>3

\* Sums over the cycles and over their records.
LEMMA AlertsCounted ==
    ASSUME NEW os \in Seq(Outcomes), NEW as, NEW log, IsHistory(log, os, as)
    PROVE  LET alerts == [i \in DOMAIN os |-> os[i].critical + os[i].high]
               critical == [i \in DOMAIN os |-> os[i].critical]
               delta == [i \in DOMAIN os |-> os[i].delta]
           IN  /\ TotalAlerts(log) = SumFunctionOnSet(alerts, ToldOf(log, os, 5))
               /\ CriticalAlerts(log) = SumFunctionOnSet(critical, ToldOf(log, os, 5))
               /\ ScoreDeltaTotal(log) = SumFunctionOnSet(delta, ToldOf(log, os, 4))
               /\ TotalAlerts(log) <= SumFunction(alerts)
<1> DEFINE alerts == [i \in DOMAIN os |-> os[i].critical + os[i].high]
           critical == [i \in DOMAIN os |-> os[i].critical]
           delta == [i \in DOMAIN os |-> os[i].delta]
           listed5 == OfType(log, "alert_batch")
           listed4 == OfType(log, "risk_delta")
           w == [r \in listed5 |-> log[r] * r.data.generated]
           x == [r \in listed5 |-> log[r] * r.data.critical]
           y == [r \in listed4 |-> log[r] * r.data.delta]
<1>1. /\ \A i \in DOMAIN os : alerts[i] \in Nat /\ alerts[i] = os[i].critical + os[i].high
      /\ \A i \in DOMAIN os : critical[i] \in Nat /\ critical[i] = os[i].critical
      /\ \A i \in DOMAIN os : delta[i] \in Int /\ delta[i] = os[i].delta
    BY OutcomeParts
<1>2. Kinds[5] = "alert_batch" /\ Kinds[4] = "risk_delta"
    BY DEF Kinds
<1>3. /\ \A i \in ToldOf(log, os, 5) : i \in DOMAIN os /\ Told(os, i, 5) \in listed5 /\ log[Told(os, i, 5)] = 1
      /\ \A i \in ToldOf(log, os, 4) : i \in DOMAIN os /\ Told(os, i, 4) \in listed4 /\ log[Told(os, i, 4)] = 1
    <2>1. \A i : Told(os, i, 5).type = "alert_batch" /\ Told(os, i, 4).type = "risk_delta"
        BY <1>2, ToldIs
    <2>2. \A r \in Records(log) : log[r] = 1
        BY DEF IsHistory
    <2> QED
        BY <2>1, <2>2 DEF ToldOf, OfType
<1>4. DOMAIN w = OfType(log, Kinds[5]) /\ DOMAIN x = OfType(log, Kinds[5]) /\ DOMAIN y = OfType(log, Kinds[4])
    BY <1>2
<1>5. \A i \in ToldOf(log, os, 5) : w[Told(os, i, 5)] = alerts[i] /\ x[Told(os, i, 5)] = critical[i]
    <2> SUFFICES ASSUME NEW i \in ToldOf(log, os, 5)
                 PROVE  w[Told(os, i, 5)] = alerts[i] /\ x[Told(os, i, 5)] = critical[i]
        OBVIOUS
    <2> DEFINE r == Told(os, i, 5)
    <2>1. i \in DOMAIN os /\ r \in listed5 /\ log[r] = 1
        BY <1>3
    <2>2. r.data.generated = os[i].critical + os[i].high /\ r.data.critical = os[i].critical
        BY ToldData
    <2>3. w[r] = log[r] * r.data.generated /\ x[r] = log[r] * r.data.critical
        BY <2>1
    <2> HIDE DEF alerts, critical, w, x, r, listed5
    <2>4. w[r] = 1 * alerts[i] /\ x[r] = 1 * critical[i] /\ alerts[i] \in Nat /\ critical[i] \in Nat
        BY <1>1, <2>1, <2>2, <2>3
    <2>5. w[r] = alerts[i] /\ x[r] = critical[i]
        BY <2>4
    <2> QED
        BY <2>5 DEF r
<1>6. \A i \in ToldOf(log, os, 4) : y[Told(os, i, 4)] = delta[i]
    <2> SUFFICES ASSUME NEW i \in ToldOf(log, os, 4) PROVE y[Told(os, i, 4)] = delta[i]
        OBVIOUS
    <2> DEFINE r == Told(os, i, 4)
    <2>1. i \in DOMAIN os /\ r \in listed4 /\ log[r] = 1
        BY <1>3
    <2>2. r.data.delta = os[i].delta
        BY ToldData
    <2>3. y[r] = log[r] * r.data.delta
        BY <2>1
    <2> HIDE DEF delta, y, r, listed4
    <2>4. y[r] = 1 * delta[i] /\ delta[i] \in Int
        BY <1>1, <2>1, <2>2, <2>3
    <2>5. y[r] = delta[i]
        BY <2>4
    <2> QED
        BY <2>5 DEF r
<1>7. TotalAlerts(log) = SumFunction(w) /\ CriticalAlerts(log) = SumFunction(x) /\ ScoreDeltaTotal(log) = SumFunction(y)
    BY DEF TotalAlerts, CriticalAlerts, ScoreDeltaTotal
<1>0. 5 \in 1 .. 5 /\ 4 \in 1 .. 5
    OBVIOUS
<1>8. DOMAIN alerts = DOMAIN os /\ ToldOf(log, os, 5) \subseteq DOMAIN os /\ IsFiniteSet(DOMAIN os)
    <2>1. IsFiniteSet(DOMAIN os)
        BY ONLY os \in Seq(Outcomes), IsHistory(log, os, as), <1>0, ListedOfKind
    <2> QED
        BY <2>1 DEF ToldOf
<1> HIDE DEF w, x, y, alerts, critical, delta
<1>9. \A i \in DOMAIN os : alerts[i] \in Int /\ critical[i] \in Int /\ delta[i] \in Int
    BY <1>1
<1>10. SumFunction(w) = SumFunctionOnSet(alerts, ToldOf(log, os, 5))
    <2>1. Weighs(w, alerts, log, os, 5)
        BY <1>4, <1>5, <1>9 DEF Weighs
    <2> QED
        BY <1>0, <2>1, SumOfKind
<1>11. SumFunction(x) = SumFunctionOnSet(critical, ToldOf(log, os, 5))
    <2>1. Weighs(x, critical, log, os, 5)
        BY <1>4, <1>5, <1>9 DEF Weighs
    <2> QED
        BY <1>0, <2>1, SumOfKind
<1>12. SumFunction(y) = SumFunctionOnSet(delta, ToldOf(log, os, 4))
    <2>1. Weighs(y, delta, log, os, 4)
        BY <1>4, <1>6, <1>9 DEF Weighs
    <2> QED
        BY <1>0, <2>1, SumOfKind
<1>13. SumFunctionOnSet(alerts, ToldOf(log, os, 5)) <= SumFunction(alerts)
    BY <1>1, <1>8, SumOfPart DEF SumFunction
<1>14. /\ TotalAlerts(log) = SumFunctionOnSet(alerts, ToldOf(log, os, 5))
       /\ CriticalAlerts(log) = SumFunctionOnSet(critical, ToldOf(log, os, 5))
       /\ ScoreDeltaTotal(log) = SumFunctionOnSet(delta, ToldOf(log, os, 4))
       /\ TotalAlerts(log) <= SumFunction(alerts)
    BY <1>7, <1>10, <1>11, <1>12, <1>13
<1> QED
    BY <1>14 DEF alerts, critical, delta

\* The records R tell which cycles are in I.
Tells(R, I, log, os, k) ==
    /\ I \subseteq DOMAIN os /\ R \subseteq OfType(log, Kinds[k])
    /\ \A i \in DOMAIN os : i \in I <=> Told(os, i, k) \in R

\* All records listed, the timeline finds the cycles with and without a change, and
\* those that raised and that lowered the risk.
LEMMA TrendCounted ==
    ASSUME NEW os \in Seq(Outcomes), NEW as, NEW log, IsHistory(log, os, as),
           ToldRecords(os) \subseteq Records(log)
    PROVE  LET changes == OfType(log, "change_detection")
               risks == OfType(log, "risk_delta")
           IN  /\ Count(log, {r \in changes : r.data.unchanged}) = Cardinality({i \in DOMAIN os : os[i].unchanged})
               /\ Count(log, {r \in changes : \A q \in changes : q.at >= r.at => q.data.unchanged})
                    = Cardinality({i \in DOMAIN os : \A j \in i .. Len(os) : os[j].unchanged})
               /\ Count(log, {r \in risks : r.data.delta > 0}) = Cardinality({i \in DOMAIN os : os[i].delta > 0})
               /\ Count(log, {r \in risks : r.data.delta < 0}) = Cardinality({i \in DOMAIN os : os[i].delta < 0})
<1> DEFINE changes == OfType(log, "change_detection")
           risks == OfType(log, "risk_delta")
           still == {r \in changes : r.data.unchanged}
           streak == {r \in changes : \A q \in changes : q.at >= r.at => q.data.unchanged}
           up == {r \in risks : r.data.delta > 0}
           down == {r \in risks : r.data.delta < 0}
           Still == {i \in DOMAIN os : os[i].unchanged}
           Streak == {i \in DOMAIN os : \A j \in i .. Len(os) : os[j].unchanged}
           Up == {i \in DOMAIN os : os[i].delta > 0}
           Down == {i \in DOMAIN os : os[i].delta < 0}
<1>1. Kinds[1] = "change_detection" /\ Kinds[4] = "risk_delta" /\ 1 \in 1 .. 5 /\ 4 \in 1 .. 5
    BY DEF Kinds
<1>2. changes = RecordsOf(os, 1, DOMAIN os) /\ risks = RecordsOf(os, 4, DOMAIN os)
    <2>1. OfType(log, Kinds[1]) = RecordsOf(os, 1, DOMAIN os)
        BY <1>1, AllOfKind
    <2>2. OfType(log, Kinds[4]) = RecordsOf(os, 4, DOMAIN os)
        BY <1>1, AllOfKind
    <2> QED
        BY <1>1, <2>1, <2>2
<1>3. \A i : Told(os, i, 1).data.unchanged = os[i].unchanged /\ Told(os, i, 4).data.delta = os[i].delta
    BY ToldData
<1>4. \A i : Told(os, i, 1).at = i * Period
    BY <1>1, ToldIs
<1>5. /\ \A i \in DOMAIN os : Told(os, i, 1) \in changes
      /\ \A i \in DOMAIN os : Told(os, i, 4) \in risks
      /\ \A r \in changes : \E i \in DOMAIN os : r = Told(os, i, 1)
    BY <1>2 DEF RecordsOf
<1>6. Tells(still, Still, log, os, 1)
    BY <1>1, <1>3, <1>5 DEF Tells
<1>7. Tells(up, Up, log, os, 4)
    BY <1>1, <1>3, <1>5 DEF Tells
<1>8. Tells(down, Down, log, os, 4)
    BY <1>1, <1>3, <1>5 DEF Tells
<1>9. Tells(streak, Streak, log, os, 1)
    <2>1. DOMAIN os = 1 .. Len(os) /\ Len(os) \in Nat
        BY LenProperties
    <2>2. ASSUME NEW i \in DOMAIN os, NEW j \in DOMAIN os PROVE j * Period >= i * Period <=> j >= i
        <3>1. i \in Nat /\ j \in Nat
            BY <2>1
        <3>2. i * Period \in Nat /\ j * Period \in Nat
            BY <3>1, Times
        <3>3. j < i <=> j * Period < i * Period
            BY <3>1, Times
        <3> QED
            BY <3>1, <3>2, <3>3
    <2>3. ASSUME NEW i \in DOMAIN os PROVE i \in Streak <=> Told(os, i, 1) \in streak
        <3>1. i \in Streak <=> \A j \in DOMAIN os : j >= i => os[j].unchanged
            BY <2>1
        <3>2. Told(os, i, 1) \in streak
                <=> \A j \in DOMAIN os : Told(os, j, 1).at >= Told(os, i, 1).at => Told(os, j, 1).data.unchanged
            BY <1>5
        <3>3. \A j \in DOMAIN os :
                (Told(os, j, 1).at >= Told(os, i, 1).at => Told(os, j, 1).data.unchanged)
                    <=> (j >= i => os[j].unchanged)
            BY <1>3, <1>4, <2>2
        <3> HIDE DEF streak, Streak
        <3> QED
            BY <3>1, <3>2, <3>3
    <2>4. Streak \subseteq DOMAIN os /\ streak \subseteq changes
        OBVIOUS
    <2> HIDE DEF streak, Streak
    <2> QED
        BY <1>1, <2>3, <2>4 DEF Tells
<1> HIDE DEF still, streak, up, down, Still, Streak, Up, Down
<1>10. ASSUME NEW k \in 1 .. 5, NEW I, NEW R, Tells(R, I, log, os, k)
       PROVE  Count(log, R) = Cardinality(I)
    <2>1. ToldOf(log, os, k) = DOMAIN os /\ OfType(log, Kinds[k]) = RecordsOf(os, k, DOMAIN os)
        BY AllOfKind
    <2>2. R = RecordsOf(os, k, I)
        BY <1>10, <2>1 DEF RecordsOf, Tells
    <2>3. I \in SUBSET ToldOf(log, os, k)
        BY <1>10, <2>1 DEF Tells
    <2>4. Count(log, RecordsOf(os, k, I)) = Cardinality(I)
        BY <2>3, CountOfKind
    <2> QED
        BY <2>2, <2>4
<1>11. Count(log, still) = Cardinality(Still) /\ Count(log, streak) = Cardinality(Streak)
    <2>1. Count(log, still) = Cardinality(Still)
        BY <1>1, <1>6, <1>10, Zenon
    <2>2. Count(log, streak) = Cardinality(Streak)
        BY <1>1, <1>9, <1>10, Zenon
    <2> QED
        BY <2>1, <2>2
<1>12. Count(log, up) = Cardinality(Up) /\ Count(log, down) = Cardinality(Down)
    <2>1. Count(log, up) = Cardinality(Up)
        BY <1>1, <1>7, <1>10, Zenon
    <2>2. Count(log, down) = Cardinality(Down)
        BY <1>1, <1>8, <1>10, Zenon
    <2> QED
        BY <2>1, <2>2
<1> QED
    BY <1>11, <1>12 DEF still, streak, up, down, Still, Streak, Up, Down

\* Across filing again, retention and restarts: no alert and no acknowledgement counts
\* twice, and where nothing was lost each counts once, as does each cycle (TrendAnalyzer).
THEOREM TheTimelineTellsTheTruth == HistorySpec => []TimelineTellsTheTruth
<1>1. ListsInv => TimelineTellsTheTruth
    <2> SUFFICES ASSUME ListsInv PROVE TimelineTellsTheTruth
        OBVIOUS
    <2>1. /\ outcomes \in Seq(Outcomes) /\ acked \in SUBSET DOMAIN outcomes
          /\ IsHistory(store, outcomes, acked)
        BY DEF ListsInv
    <2> DEFINE alerts == [i \in DOMAIN outcomes |-> outcomes[i].critical + outcomes[i].high]
               critical == [i \in DOMAIN outcomes |-> outcomes[i].critical]
               delta == [i \in DOMAIN outcomes |-> outcomes[i].delta]
    <2>2. /\ TotalAlerts(store) = SumFunctionOnSet(alerts, ToldOf(store, outcomes, 5))
          /\ CriticalAlerts(store) = SumFunctionOnSet(critical, ToldOf(store, outcomes, 5))
          /\ ScoreDeltaTotal(store) = SumFunctionOnSet(delta, ToldOf(store, outcomes, 4))
          /\ TotalAlerts(store) <= SumFunction(alerts)
        BY <2>1, AlertsCounted
    <2>3. /\ Acknowledged(store) = Cardinality({i \in acked : Ack(i) \in Records(store)})
          /\ Acknowledged(store) <= Cardinality(acked)
        BY <2>1, AcksCounted
    <2>4. ASSUME ~lost, pending = << >>
          PROVE  /\ TotalAlerts(store) = Alerts /\ Acknowledged(store) = Cardinality(acked)
                 /\ CriticalAlerts(store) = SumFunction(critical)
                 /\ ScoreDeltaTotal(store) = SumFunction(delta)
                 /\ UnchangedCycles(store) = Cardinality({i \in DOMAIN outcomes : outcomes[i].unchanged})
                 /\ ChangeFreeStreak(store) = Cardinality(Trailing)
                 /\ Direction(store) =
                        LET up == Cardinality({i \in DOMAIN outcomes : outcomes[i].delta > 0})
                            down == Cardinality({i \in DOMAIN outcomes : outcomes[i].delta < 0})
                        IN  CASE up > down -> "increased" [] down > up -> "decreased" [] OTHER -> "unchanged"
        <3>1. ToldRecords(outcomes) \subseteq Records(store) /\ AckRecords(acked) \subseteq Records(store)
            BY <2>4, NothingPending DEF ListsInv, AllListed
        <3>2. ToldOf(store, outcomes, 5) = DOMAIN outcomes /\ ToldOf(store, outcomes, 4) = DOMAIN outcomes
            <4>1. 4 \in 1 .. 5 /\ 5 \in 1 .. 5
                OBVIOUS
            <4> QED
                BY <2>1, <3>1, <4>1, AllOfKind
        <3>3. /\ TotalAlerts(store) = SumFunction(alerts)
              /\ CriticalAlerts(store) = SumFunction(critical)
              /\ ScoreDeltaTotal(store) = SumFunction(delta)
            <4>1. DOMAIN alerts = DOMAIN outcomes /\ DOMAIN critical = DOMAIN outcomes /\ DOMAIN delta = DOMAIN outcomes
                OBVIOUS
            <4> HIDE DEF alerts, critical, delta
            <4> QED
                BY <2>2, <3>2, <4>1 DEF SumFunction
        <3>4. Acknowledged(store) = Cardinality(acked)
            <4>1. {i \in acked : Ack(i) \in Records(store)} = acked
                BY <3>1 DEF AckRecords
            <4> QED
                BY <2>3, <4>1
        <3>5. /\ UnchangedCycles(store) = Cardinality({i \in DOMAIN outcomes : outcomes[i].unchanged})
              /\ ChangeFreeStreak(store) = Cardinality(Trailing)
              /\ Count(store, {r \in OfType(store, "risk_delta") : r.data.delta > 0})
                    = Cardinality({i \in DOMAIN outcomes : outcomes[i].delta > 0})
              /\ Count(store, {r \in OfType(store, "risk_delta") : r.data.delta < 0})
                    = Cardinality({i \in DOMAIN outcomes : outcomes[i].delta < 0})
            BY <2>1, <3>1, TrendCounted, Zenon DEF UnchangedCycles, ChangeFreeStreak, Trailing
        <3>6. Direction(store) =
                LET up == Cardinality({i \in DOMAIN outcomes : outcomes[i].delta > 0})
                    down == Cardinality({i \in DOMAIN outcomes : outcomes[i].delta < 0})
                IN  CASE up > down -> "increased" [] down > up -> "decreased" [] OTHER -> "unchanged"
            BY <3>5, Zenon DEF Direction
        <3>7. Alerts = SumFunction(alerts)
            BY DEF Alerts
        <3> HIDE DEF alerts, critical, delta
        <3> QED
            BY <3>3, <3>4, <3>5, <3>6, <3>7, Zenon
    <2>5. TotalAlerts(store) <= Alerts /\ Acknowledged(store) <= Cardinality(acked)
        BY <2>2, <2>3, Zenon DEF Alerts
    <2> QED
        BY <2>4, <2>5, Zenon DEF TimelineTellsTheTruth
<1> QED
    BY <1>1, ListsStand, PTL
================================================================================
