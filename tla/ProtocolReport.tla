---------------------------- MODULE ProtocolReport ----------------------------
(***************************************************************************)
(* ProtocolExecutiveReportBuilder: the scans of the contracts of a         *)
(* protocol, each of which may fail or be skipped, are drawn together into *)
(* one assessment with recommendations.  A recommendation is acted upon,   *)
(* the protocol is scanned again, and the two reports are laid side by     *)
(* side.                                                                   *)
(*                                                                         *)
(* A node is a contract, numbered in the order of the addresses, which is  *)
(* that of node_results.  When scans run and are retried is the concern of *)
(* ProtocolScheduler.  Wording, severities, priorities, the node table and *)
(* the listings of the report are left out.                                *)
(*                                                                         *)
(* An operator named F_xxx is F with a bug, a mutant.                      *)
(***************************************************************************)
EXTENDS ThreatSurface

CONSTANTS
    Nodes,      \* 1 .. how many contracts the protocol has
    Cases,      \* what may be true of them: functions from Nodes to findings
    Timelock,   \* the address of a timelock that can be put in charge
    NoReport

\* What the report relies on of the findings: a delay is that of an admin, or of its
\* owner; abilities, controls and wallet signals are of those there are; the roles
\* and the known deployments are few, and the names of deployments and exchanges
\* those of the tables.
IsFacts(f) ==
    /\ {"contract", "implementation", "admin", "adminType", "owner", "ownerType", "delay", "controls", "abilities",
        "pool", "wallet", "clone", "beacon", "uninitialised", "trade", "verified", "code", "deployed", "roles",
        "governed", "renounced", "creator", "suspected", "scam"} \subseteq DOMAIN f
    /\ {f.adminType, f.ownerType} \subseteq AdminTypes
    /\ f.delay # "none" => f.admin # NoAddress
    /\ f.controls \subseteq Controls /\ f.abilities \subseteq Capabilities /\ f.wallet \subseteq WalletFindings
    /\ IsFiniteSet(f.roles) /\ IsFiniteSet(f.deployed)
    /\ \A e \in f.deployed : e.category \in DOMAIN Catalogue /\ e.name \in ProfileNames(e.category)
    /\ f.pool # NoPool =>
        /\ {"depth", "locked", "holder", "dex"} \subseteq DOMAIN f.pool /\ f.pool.dex \in PoolDexes
        /\ [f.pool EXCEPT !.locked = TRUE] # NoPool

ASSUME ReportAssumption ==
    /\ Nodes \subseteq Nat /\ IsFiniteSet(Nodes)
    /\ Timelock # NoAddress
    /\ \A c \in Cases : DOMAIN c = Nodes /\ \A n \in Nodes : IsFacts(c[n])

VARIABLES
    facts,      \* what a scan of each contract finds
    results,    \* NodeScanResult of each
    report,     \* the latest report
    before      \* the report before it and what was done about it, or NoReport

vars == <<facts, results, report, before>>

Result(status) == [status |-> status, proxy |-> "none", detected |-> FALSE]
Detected(proxy) == [status |-> "completed", proxy |-> proxy, detected |-> TRUE]
Pending == [n \in Nodes |-> Result("pending")]

Init == facts \in Cases /\ results = Pending /\ report = NoReport /\ before = NoReport

\* What a completed scan says.  The detection of protocols may have raised.
AnalysisOf(f, r) ==
    IF ~f.contract THEN [facts |-> f, assessment |-> Assessment(f)]
    ELSE Analysis(f, IF r.detected THEN Intelligence(f, r.proxy, Timelocked(f)) ELSE NoIntelligence)

------------------------------------------------------------------------------
(* ProtocolSummaryBuilder, over done: the analyses of the completed nodes *)

Contracts(done) == {n \in DOMAIN done : done[n].facts.contract}
Those(done, holds(_)) == {n \in DOMAIN done : holds(done[n].facts)}
HowMany(done, holds(_)) == Cardinality(Those(done, holds))
Total(done, count(_)) == SumFunction([n \in Contracts(done) |-> count(done[n])])
Found(done, c) == UNION {done[n].intelligence.found[c] : n \in Contracts(done)}
Relations(done) ==
    UNION {{<<r.label, r.type>> : r \in done[n].architecture.relationships} : n \in Contracts(done)}
Admins(done) == {done[n].facts.admin : n \in DOMAIN done} \ {NoAddress}
HighestRisk(done) == Max({0} \cup {done[n].assessment.score : n \in DOMAIN done})

\* _analysis_to_evidence_bundle: a wallet that is only sanctioned was counted as a
\* known scam by the scan, and is not here.
EvidenceOf(a) == IF a.facts.scam THEN a.assessment.evidence ELSE a.assessment.evidence \ {"wallet_known_scam"}
Pooled(done) == UNION {EvidenceOf(done[n]) : n \in DOMAIN done}

\* has_admin_eoa_without_timelock over pooled evidence with any timelock enough.
F_EoaAdmin(done) ==
    /\ \E n \in DOMAIN done : EoaWithoutTimelock(done[n].facts)
    /\ \A n \in DOMAIN done : ~Timelocked(done[n].facts)

\* has_admin_eoa_without_timelock: the admins in the order of the nodes, until one
\* is a timelock.
EoaAdmin(done) ==
    LET admins == {n \in DOMAIN done : done[n].facts.admin # NoAddress}
    IN  \E n \in admins :
            EoaWithoutTimelock(done[n].facts) /\ \A m \in admins : m < n => ~Timelocked(done[m].facts)

\* RiskCorrelationEngine.correlate: the rules are matched against the evidence of
\* all contracts at once.
Findings(done) ==
    LET e == Pooled(done)
    IN  When("upgradeable" \in e /\ EoaAdmin(done), "critical_governance_centralization")
        \cup When("mint" \in e /\ e \cap {"no_liquidity", "low_liquidity"} # {}, "exit_liquidity_risk")
        \cup When("upgradeable" \in e /\ Found(done, "bridge") # {}, "bridge_upgrade_risk")
        \cup When(Found(done, "oracle") # {} /\ (Admins(done) # {} \/ "upgradeable" \in e), "oracle_manipulation_risk")
        \cup When({"mint", "fresh_deployer"} \subseteq e
                    /\ e \cap {"wallet_known_scam", "tornado_funded_deployer"} # {},
                  "potential_rug_pull_pattern")
        \cup When(e \cap Capabilities # {} /\ Total(done, LAMBDA a : Cardinality(a.surface.privileged)) > 0,
                  "centralized_administrative_control")

------------------------------------------------------------------------------
(* ProtocolScoreCalculator *)

AttackSurface(done) ==
    Clamp(8 * Total(done, LAMBDA a : Cardinality(a.surface.dependencies))
          + 12 * Total(done, LAMBDA a : Cardinality(a.surface.paths))
          + 10 * Total(done, LAMBDA a : Cardinality(a.surface.assets))
          + 4 * Cardinality(Found(done, "integrations")))
PrivilegeConcentration(done) ==
    Clamp(10 * Cardinality(Admins(done)) + 8 * Total(done, LAMBDA a : Cardinality(a.surface.privileged))
          + 20 * HowMany(done, LAMBDA f : f.adminType = "eoa") - 5 * HowMany(done, LAMBDA f : f.adminType = "multisig"))
TrustBoundaryScore(done) == Clamp(15 * Total(done, LAMBDA a : Cardinality(a.surface.boundaries)))
Upgradeability(done) ==
    Clamp(25 * HowMany(done, Upgradeable) - 10 * HowMany(done, LAMBDA f : Upgradeable(f) /\ Timelocked(f)))

\* The metric is 100 less the maturity: high is bad, as for the others.
GovernanceMaturity(done) ==
    LET roles == SumFunction([n \in DOMAIN done |-> Cardinality(done[n].facts.roles)])
    IN  100 - Clamp(20 * HowMany(done, Timelocked) + 15 * HowMany(done, LAMBDA f : f.renounced)
                    + 3 * (IF roles > 10 THEN 10 ELSE roles)
                    + 5 * HowMany(done, LAMBDA f : GovernanceType(f) # "none" \/ f.roles # {})
                    - 5 * Cardinality(Admins(done)))
Complexity(done) ==
    Clamp(8 * Cardinality(Nodes) + 6 * Cardinality(Relations(done)) + 4 * Cardinality(Found(done, "integrations"))
          + 3 * Total(done, LAMBDA a : Cardinality(a.intelligence.found.dex) + Cardinality(a.intelligence.found.oracle)))

Posture(done) ==
    [risk |-> HighestRisk(done), attack |-> AttackSurface(done), privilege |-> PrivilegeConcentration(done),
     boundaries |-> TrustBoundaryScore(done), upgradeability |-> Upgradeability(done),
     maturity |-> GovernanceMaturity(done), complexity |-> Complexity(done)]

\* overall_protocol_risk, in hundredths.  The maturity, already inverted, is
\* inverted once more.
Overall(p) ==
    35 * p.risk + 20 * p.attack + 15 * p.privilege + 15 * p.upgradeability + 15 * (100 - p.maturity)

\* overall_protocol_risk with a failed scan of no account.
F_OverallLevel(score, failed) ==
    CASE score >= 5000 -> "HIGH" [] score >= 2500 /\ score < 5000 -> "MEDIUM" [] OTHER -> "LOW"

\* overall_protocol_risk, _risk_level_from_score: no LOW with a scan that failed
OverallLevel(score, failed) ==
    CASE score >= 5000 -> "HIGH"
      [] score < 5000 /\ (score >= 2500 \/ failed # {}) -> "MEDIUM"
      [] OTHER -> "LOW"

------------------------------------------------------------------------------
(* RecommendationEngine: what is recommended, and for which node.  The id of a *)
(* finding has its place in the list of findings as well.                      *)

Of(id, nodes) == {<<id, n>> : n \in nodes}

\* _upgradeability_recommendations by the type of the admin alone.
F_UpgradeRecommendations(done) ==
    Of("upgrade.unprotected", Those(done, LAMBDA f : Upgradeable(f) /\ f.adminType # "multisig"))

\* _upgradeability_recommendations and _liquidity_recommendations
UpgradeRecommendations(done) ==
    Of("upgrade.unprotected", Those(done, LAMBDA f : Upgradeable(f) /\ ~Timelocked(f)))
LiquidityRecommendations(done) ==
    Of("liquidity.unlocked", Those(done, LAMBDA f : f.pool # NoPool /\ ~f.pool.locked))

\* _node_risk_recommendations
RiskRecommendations(done) ==
    Of("risk.high_node", {n \in DOMAIN done : done[n].assessment.level = "HIGH" \/ done[n].assessment.score >= 50})

CoverageRecommendations(failed, skipped) ==
    When(failed # {}, <<"coverage.failed_scans">>) \cup When(skipped # {}, <<"coverage.skipped_nodes">>)
GovernanceRecommendations(done) ==
    When(Admins(done) # {} /\ Those(done, Timelocked) = {}, <<"governance.no_timelock">>)
WalletRecommendations(done) ==
    When(Those(done, LAMBDA f : f.scam) # {}, <<"wallet.known_scam">>)
    \cup When("tornado_funded_deployer" \in Pooled(done), <<"wallet.tornado_funded">>)
ThreatRecommendations(done) ==
    When(\E n \in Contracts(done) : done[n].surface.paths # {}, <<"threat.attack_paths">>)
CorrelationRecommendations(done) == {<<"correlation", rule>> : rule \in Findings(done)}

\* RecommendationEngine.generate
Recommendations(done, failed, skipped) ==
    CoverageRecommendations(failed, skipped) \cup RiskRecommendations(done) \cup UpgradeRecommendations(done)
    \cup GovernanceRecommendations(done) \cup WalletRecommendations(done) \cup LiquidityRecommendations(done)
    \cup ThreatRecommendations(done) \cup CorrelationRecommendations(done)

\* ProtocolExecutiveReportBuilder.build
Report(scanned, outcomes) ==
    LET done == [n \in {m \in Nodes : outcomes[m].status = "completed"} |-> AnalysisOf(scanned[n], outcomes[n])]
        Ended(status) == {n \in Nodes : outcomes[n].status = status}
        posture == Posture(done)
    IN  [done |-> done, failed |-> Ended("failed"), findings |-> Findings(done), posture |-> posture,
         level |-> OverallLevel(Overall(posture), Ended("failed")),
         recommendations |-> Recommendations(done, Ended("failed"), Ended("skipped"))]

------------------------------------------------------------------------------
(* The scans and the reports *)

Settle(n, result) ==
    /\ results[n].status = "pending"
    /\ results' = [results EXCEPT ![n] = result]
    /\ UNCHANGED <<facts, report, before>>

\* The detection reads the beacon slot, which may fail, and again the slots the scan
\* found empty, which may have been set by then.
Complete(n) ==
    LET f == facts[n]
        known == When(Upgradeable(f), "implementation") \cup When(f.admin # NoAddress, "admin")
        open == When(f.beacon, "beacon") \cup (IF f.uninitialised THEN {"implementation", "admin"} ELSE {})
    IN  \E read \in SUBSET open :
            LET set == known \cup read
            IN  /\ f.contract
                /\ Settle(n, Detected(ProxyKind(f.clone, "beacon" \in set, "implementation" \in set, "admin" \in set, f.code)))

\* A scan without intelligence: of what is no contract, or when detection raised
CompleteBare(n) == Settle(n, Result("completed"))
Fail(n) == Settle(n, Result("failed"))
Skip(n) == Settle(n, Result("skipped"))

Build ==
    /\ report = NoReport /\ \A n \in Nodes : results[n].status # "pending"
    /\ report' = Report(facts, results)
    /\ UNCHANGED <<facts, results, before>>

------------------------------------------------------------------------------
(* What the team does about a recommendation, once, before a second scan *)

\* A timelock becomes the admin or, where the admin is a contract with an owner,
\* that owner: it is what counts for a treasury, so a multisig no longer does.
BehindTimelock(f) ==
    LET owned == f.owner # NoAddress
    IN  [f EXCEPT !.delay = "delay", !.wallet = @ \ {"treasury_multisig"},
                  !.admin = IF owned THEN @ ELSE Timelock, !.adminType = "contract",
                  !.owner = IF owned THEN Timelock ELSE @, !.ownerType = IF owned THEN "contract" ELSE @]

Act(n, remedy, hardened) ==
    /\ report # NoReport /\ before = NoReport
    /\ facts' = [facts EXCEPT ![n] = hardened] /\ results' = Pending
    /\ report' = NoReport /\ before' = [report |-> report, results |-> results, node |-> n, remedy |-> remedy]
AddTimelock(n) ==
    LET f == facts[n]
    IN  f.admin # NoAddress /\ Upgradeable(f) /\ ~Timelocked(f) /\ Act(n, "timelock", BehindTimelock(f))
LockLiquidity(n) ==
    LET f == facts[n]
    IN  f.pool # NoPool /\ ~f.pool.locked /\ Act(n, "lock", [f EXCEPT !.pool.locked = TRUE])

Next ==
    \/ Build
    \/ \E n \in Nodes :
        Complete(n) \/ CompleteBare(n) \/ Fail(n) \/ Skip(n) \/ AddTimelock(n) \/ LockLiquidity(n)

Spec == Init /\ [][Next]_vars

------------------------------------------------------------------------------
TypeOK ==
    /\ \A n \in Nodes : results[n].status \in {"pending", "completed", "failed", "skipped"}
    /\ report # NoReport => report.level \in {"LOW", "MEDIUM", "HIGH"} /\ DOMAIN report.done \subseteq Nodes

Reported == IF report = NoReport THEN {} ELSE Contracts(report.done)

\* Whatever else points the same way, each relationship a candidate proposes is in
\* the list, no less certain, and in the graph: its edge ends at the very node it
\* is about, or at the contract itself when that node goes by another label
\* (relationship_engine and architecture_graph, which key by different things).
EdgesStand ==
    \A n \in Reported :
        LET a == report.done[n].architecture
        IN  \A c \in a.candidates : \E e \in a.edges :
                LET r == e.relationship
                IN  /\ r.target = c.target /\ r.type = c.type /\ r.confidence >= c.confidence
                    /\ e.end = IF a.labels[r.target] = r.label THEN r.target ELSE Contract

\* Who owns the contract, who may upgrade it and what follows, as the parts of its
\* analysis a have it
ViewsAgree(a) ==
    LET s == a.surface
        paths == {p.name : p \in s.paths}
        proxy == ProxyName(a.intelligence.found)
    IN  /\ <<"OWNER">> \in s.boundaries <=> \E e \in s.privileged : e[1] = "OWNER"
        /\ <<"TIMELOCK">> \in s.boundaries <=> <<"TIMELOCK">> \in s.privileged
        /\ <<"mint_inflation">> \in paths <=> "mint" \in a.assessment.evidence
        /\ {"upgradeable", "admin_timelock"} \subseteq a.assessment.evidence
            <=> \E r \in a.architecture.relationships :
                    r.target = <<"governance", "timelock">> /\ r.type = "UPGRADEABLE_BY"
        /\ "upgradeable" \in a.assessment.evidence =>
            /\ <<"proxy", proxy>> \in s.dependencies /\ <<"UPGRADEABLE_PROXY", proxy>> \in s.boundaries
            /\ <<"implementation", a.facts.implementation>> \in s.assets /\ <<"owner_proxy_impl_funds">> \in paths
        /\ <<"owner_proxy_impl_funds">> \in paths /\ "upgradeable" \notin a.assessment.evidence =>
            a.facts.clone \/ a.facts.beacon \/ a.facts.uninitialised

\* The parts of a threat surface, each drawn by a module of its own, and the risk
\* evidence agree on who owns the contract, who may upgrade it and what follows.
SurfaceAgrees == \A n \in Reported : ViewsAgree(report.done[n])

\* A protocol said to be of low risk has no scan that failed and no contract of
\* high risk, whatever the other contracts add to the average.
LowIsEarned ==
    (report # NoReport /\ report.level = "LOW") =>
        report.failed = {} /\ \A n \in DOMAIN report.done : report.done[n].assessment.level # "HIGH"

\* What the scan of one contract found by correlation is found again among the
\* evidence of all, but for the two ways to lose it: a contract before it whose
\* admin is a timelock, or a wallet that is sanctioned without being a known scam.
FindingsReachTheReport ==
    report # NoReport =>
        \A n \in DOMAIN report.done : \A c \in report.done[n].assessment.correlated \ report.findings :
            LET a == report.done[n]
            IN  \/ /\ c = "critical_governance_centralization"
                   /\ \E m \in DOMAIN report.done : m < n /\ Timelocked(report.done[m].facts)
                \/ /\ c = "potential_rug_pull_pattern" /\ ~a.facts.scam
                   /\ "tornado_funded_deployer" \notin a.assessment.evidence

\* Both reports are complete, and only the contract that was hardened differs.
Comparable ==
    /\ before # NoReport /\ report # NoReport
    /\ \A n \in Nodes :
        /\ {results[n].status, before.results[n].status} = {"completed"}
        /\ results[n].detected = before.results[n].detected
        /\ results[n].detected => results[n].proxy = before.results[n].proxy
Called(remedy, n) ==
    IF remedy = "lock" THEN {<<"liquidity.unlocked", n>>} ELSE {<<"upgrade.unprotected", n>>, <<"governance.no_timelock">>}

\* Doing what the report recommends helps: the recommendation goes, none is added,
\* the protocol is no easier to upgrade and no contract of higher risk, but for a
\* multisig that gives way to a timelock: it no longer counts as a treasury.
RemediesHelp ==
    Comparable =>
        LET old == before.report
            n == before.node
        IN  /\ report.recommendations \subseteq old.recommendations \ Called(before.remedy, n)
            /\ report.posture.upgradeability <= old.posture.upgradeability
            /\ \A m \in Nodes :
                \/ report.done[m].assessment.score <= old.done[m].assessment.score
                \/ m = n /\ before.remedy = "timelock" /\ "treasury_multisig" \in old.done[m].facts.wallet
=============================================================================
