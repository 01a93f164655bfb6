-------------------------- MODULE Monitoring_proofs --------------------------
(***************************************************************************)
(* Proofs about the monitoring of a watch, for any snapshots, findings,    *)
(* alert policies and bounds.                                              *)
(***************************************************************************)
EXTENDS Monitoring, TLAPS

------------------------------------------------------------------------------
(* Change detection *)

LEMMA GovernanceTells ==
    ASSUME NEW s, NEW t, NEW a, Governance(s, a) = Governance(t, a)
    PROVE  a \in DOMAIN s.contracts <=> a \in DOMAIN t.contracts
<1>1. \A u : DOMAIN Governance(u, a) = IF a \in DOMAIN u.contracts THEN GovernanceFields ELSE {}
    BY DEF Governance
<1>2. GovernanceFields # {}
    BY DEF GovernanceFields
<1> QED
    BY <1>1, <1>2

\* Nothing changed between two snapshots if and only if they are equal in all
\* that is watched.
LEMMA UnchangedIsEqual ==
    ASSUME NEW s, NEW t, IsSnapshot(s), IsSnapshot(t)
    PROVE  Unchanged(s, t) <=> Watched(s) = Watched(t)
<1> DEFINE S == s.contracts
           T == t.contracts
           Fields == ContractFields \cup GovernanceFields
           Of(u) == [a \in DOMAIN u.contracts |-> [f \in Fields |-> u.contracts[a][f]]]
<1>1. \A u : Watched(u).contracts = Of(u) /\ Watched(u).fingerprints = u.fingerprints
    BY DEF Watched
<1>2. ASSUME Watched(s) = Watched(t) PROVE Unchanged(s, t)
    <2>1. Of(s) = Of(t) /\ s.fingerprints = t.fingerprints
        <3> HIDE DEF Of
        <3> QED
            BY <1>1, <1>2
    <2>2. DOMAIN S = DOMAIN T
        BY <2>1
    <2>3. \A a \in DOMAIN S : \A f \in Fields : S[a][f] = T[a][f]
        <3> SUFFICES ASSUME NEW a \in DOMAIN S, NEW f \in Fields PROVE S[a][f] = T[a][f]
            OBVIOUS
        <3>1. Of(s)[a][f] = S[a][f] /\ Of(t)[a][f] = T[a][f]
            BY <2>2
        <3> QED
            BY <2>1, <3>1
    <2>4. ASSUME NEW a \in ContractsOf(s, t) PROVE ContractChanges(s, t, a) = {}
        <3>1. a \in DOMAIN S /\ a \in DOMAIN T
            BY <2>2 DEF ContractsOf
        <3>2. \A f \in ContractFields : FieldOf(s, a, f) = FieldOf(t, a, f)
            BY <2>3, <3>1 DEF FieldOf
        <3>3. Governance(s, a) = Governance(t, a)
            BY <2>3, <3>1 DEF Governance
        <3> QED
            BY <3>2, <3>3 DEF ContractChanges
    <2>5. ProtocolChanges(s, t) = {}
        BY <2>1 DEF ProtocolChanges
    <2> QED
        BY <2>4, <2>5 DEF Unchanged, Changes
<1>3. ASSUME Unchanged(s, t) PROVE Watched(s) = Watched(t)
    <2>1. \A a \in ContractsOf(s, t) : ContractChanges(s, t, a) = {}
        BY <1>3 DEF Unchanged, Changes
    <2>2. ProtocolChanges(s, t) = {}
        BY <1>3 DEF Unchanged, Changes
    <2>3. \A a \in ContractsOf(s, t) :
            /\ Governance(s, a) = Governance(t, a)
            /\ \A f \in ContractFields : FieldOf(s, a, f) = FieldOf(t, a, f)
        BY <2>1 DEF ContractChanges
    <2>4. DOMAIN S = DOMAIN T
        <3>1. \A a \in ContractsOf(s, t) : a \in DOMAIN S <=> a \in DOMAIN T
            BY <2>3, GovernanceTells
        <3> QED
            BY <3>1 DEF ContractsOf
    <2>5. \A a \in DOMAIN S : \A f \in Fields : S[a][f] = T[a][f]
        <3> SUFFICES ASSUME NEW a \in DOMAIN S, NEW f \in Fields PROVE S[a][f] = T[a][f]
            OBVIOUS
        <3>1. a \in ContractsOf(s, t) /\ a \in DOMAIN T
            BY <2>4 DEF ContractsOf
        <3>2. CASE f \in ContractFields
            BY <2>3, <3>1, <3>2 DEF FieldOf
        <3>3. CASE f \in GovernanceFields
            <4>1. [g \in GovernanceFields |-> S[a][g]] = [g \in GovernanceFields |-> T[a][g]]
                BY <2>3, <3>1 DEF Governance
            <4>2. /\ [g \in GovernanceFields |-> S[a][g]][f] = S[a][f]
                  /\ [g \in GovernanceFields |-> T[a][g]][f] = T[a][f]
                BY <3>3
            <4> QED
                BY <4>1, <4>2
        <3> QED
            BY <3>2, <3>3
    <2>6. s.fingerprints = t.fingerprints
        <3>1. \A f \in Fingerprints : s.fingerprints[f] = t.fingerprints[f]
            BY <2>2 DEF ProtocolChanges
        <3>2. /\ s.fingerprints = [f \in Fingerprints |-> s.fingerprints[f]]
              /\ t.fingerprints = [f \in Fingerprints |-> t.fingerprints[f]]
            BY DEF IsSnapshot
        <3> QED
            BY <3>1, <3>2
    <2>7. Of(s) = Of(t)
        BY <2>4, <2>5
    <2> QED
        BY <2>6, <2>7 DEF Watched
<1> QED
    BY <1>2, <1>3

------------------------------------------------------------------------------
(* What a cycle computes has its type *)

ChangeRecord == [type : ChangeTypes, contracts : SUBSET Addresses]

LEMMA ChangesType ==
    ASSUME NEW s, NEW t, IsSnapshot(s), IsSnapshot(t)
    PROVE  Changes(s, t) \subseteq ChangeRecord
<1>1. ContractsOf(s, t) \in SUBSET Addresses
    BY DEF ContractsOf, IsSnapshot
<1>2. \A f \in ContractFields : ContractChange[f] \in ChangeTypes
    BY DEF ChangeTypes
<1>3. \A f \in Fingerprints : ProtocolChange[f] \in ChangeTypes
    BY DEF ChangeTypes
<1>4. "governance_changed" \in ChangeTypes
    BY DEF ChangeTypes
<1>5. ASSUME NEW a \in ContractsOf(s, t) PROVE ContractChanges(s, t, a) \subseteq ChangeRecord
    BY <1>1, <1>2, <1>4 DEF ContractChanges, ChangeRecord
<1>6. ProtocolChanges(s, t) \subseteq ChangeRecord
    BY <1>1, <1>3 DEF ProtocolChanges, ChangeRecord
<1> QED
    BY <1>5, <1>6 DEF Changes

\* Whatever changed, the modules that are run again exist.
LEMMA SelectedExist ==
    ASSUME NEW changes, changes \subseteq ChangeRecord
    PROVE  Selected(changes) \subseteq Modules
<1>1. Modules = {"capability", "governance", "liquidity", "protocol", "relationship", "threat"}
    BY DEF Modules, ModuleOrder
<1>2. ChangeTypes = {"implementation_changed", "owner_changed", "proxy_admin_changed", "bytecode_changed",
                     "treasury_changed", "governance_changed", "dependency_changed", "liquidity_changed",
                     "runtime_fingerprint_changed"}
    BY DEF ChangeTypes, ContractFields, ContractChange, Fingerprints, ProtocolChange
<1>3. \A type \in ChangeTypes : Impact[type] \subseteq Modules
    BY <1>1, <1>2 DEF Impact
<1> QED
    BY <1>3 DEF Selected, ChangeRecord

LEMMA MergedType ==
    ASSUME NEW found \in Findings, NEW modules, modules \subseteq Modules
    PROVE  \A e \in Merged(found, modules) : IsEvidence(e)
BY MonitoringAssumption DEF Merged

LEMMA AlertParts ==
    ASSUME NEW rule, NEW severity, NEW ids
    PROVE  Alert(rule, severity, ids).id = <<rule, ids>> /\ Alert(rule, severity, ids).severity = severity
BY DEF Alert

\* The candidates for new critical evidence go by that rule, and no other does.
LEMMA CandidateRules ==
    ASSUME NEW previous, NEW current, NEW a \in Candidates(previous, current)
    PROVE  /\ a.id[1] \in Rules
           /\ a.id[1] = "new_critical_evidence" => a.severity = "critical"
<1> DEFINE Fits(x) == x.id[1] \in Rules /\ (x.id[1] = "new_critical_evidence" => x.severity = "critical")
<1>1. "new_critical_evidence" \notin EvidenceRules /\ EvidenceRules \subseteq Rules
    BY DEF Rules, EvidenceRules, Floor
<1>2. {"new_critical_evidence", "high_risk_increase", "critical_risk_increase"} \subseteq Rules
    BY DEF Rules
<1>3. \A e : Fits(CriticalAlert(e))
    BY <1>2, AlertParts DEF CriticalAlert
<1>4. \A x \in RiskIncrease(previous, current) : Fits(x)
    BY <1>2, AlertParts DEF RiskIncrease
<1>5. \A e : \A x \in ForAdded(e) : Fits(x)
    <2> SUFFICES ASSUME NEW e, NEW x \in ForAdded(e) PROVE Fits(x)
        OBVIOUS
    <2>1. CASE \E y : x = CriticalAlert(y)
        BY <1>3, <2>1
    <2>2. CASE \E r \in EvidenceRules : x = Alert(r, AtLeast(e.severity, Floor[r]), {e.id})
        BY <1>1, <2>2, AlertParts
    <2> QED
        BY <2>1, <2>2 DEF ForAdded
<1> HIDE DEF Fits
<1>6. Fits(a)
    BY <1>3, <1>4, <1>5 DEF Candidates
<1> QED
    BY <1>6 DEF Fits

------------------------------------------------------------------------------
(* The invariant *)

\* What the last report says of its changes is about the baseline as it is.
ReportIsOfBaseline ==
    report.ran =>
        /\ IsSnapshot(report.snapshot) /\ IsSnapshot(baseline)
        /\ report.changes \subseteq ChangeRecord
        /\ report.unchanged = Unchanged(baseline, report.snapshot)

\* Every alert sent since the last restart is remembered, no older than it was sent.
SentIsRemembered ==
    /\ \A id \in DOMAIN recent : recent[id].at <= now
    /\ \A x \in sent :
        /\ x.life \in Nat /\ x.life <= restarts /\ x.at \in Nat /\ x.at <= now
        /\ x.life = restarts => x.alert.id \in DOMAIN recent /\ x.at <= recent[x.alert.id].at

MonitoringInv == MonitoringTypes /\ ReportIsOfBaseline /\ CriticalIsPaged /\ SentIsRemembered

LEMMA CycleTypes ==
    ASSUME MonitoringInv, NEW s \in Snapshots, NEW found \in Findings, NEW step \in Steps, Cycle(s, found, step)
    PROVE  MonitoringTypes' /\ ReportIsOfBaseline'
<1> DEFINE at == now + step
           base == IF baseline = None THEN s ELSE baseline
           changes == Changes(base, s)
           evidence == Merged(found, Selected(changes))
           alerts == Generated(bundle, evidence, policy, recent, at)
<1>1. IsSnapshot(s) /\ IsSnapshot(base)
    BY MonitoringAssumption DEF MonitoringInv, MonitoringTypes
<1>2. at \in Nat
    BY MonitoringAssumption DEF MonitoringInv, MonitoringTypes
<1>3. changes \subseteq ChangeRecord
    BY <1>1, ChangesType
<1>4. \A e \in evidence : IsEvidence(e)
    BY <1>3, SelectedExist, MergedType
<1>5. \A a \in alerts : a.id[1] \in Rules
    BY CandidateRules DEF Generated
<1>6. /\ now' = at /\ baseline' = base /\ bundle' = evidence /\ recent' = Remember(alerts, at)
      /\ report' = [ran |-> TRUE, snapshot |-> s, changes |-> changes, unchanged |-> Unchanged(base, s),
                    before |-> bundle, alerts |-> alerts]
      /\ cycles < MaxCycles /\ cycles' = cycles + 1 /\ UNCHANGED <<policy, restarts>>
    BY DEF Cycle
<1> HIDE DEF at, base, changes, evidence, alerts
<1>7. \A id \in DOMAIN recent' : id[1] \in Rules /\ recent'[id] \in [at : Nat, acked : BOOLEAN]
    BY <1>2, <1>5, <1>6 DEF Remember, MonitoringInv, MonitoringTypes
<1>8. cycles' \in 0..MaxCycles
    BY <1>6, MonitoringAssumption DEF MonitoringInv, MonitoringTypes
<1>9. MonitoringTypes'
    BY <1>1, <1>2, <1>3, <1>4, <1>6, <1>7, <1>8 DEF MonitoringInv, MonitoringTypes, ChangeRecord
<1>10. ReportIsOfBaseline'
    BY <1>1, <1>3, <1>6 DEF ReportIsOfBaseline
<1> QED
    BY <1>9, <1>10

LEMMA RankIsNat ==
    /\ "critical" \in Severities
    /\ \A s \in Severities : Rank[s] \in Nat /\ Rank[s] <= Rank["critical"]
BY DEF Severities, Rank

\* What is critical and was not is paged, or was within the cooldown or acknowledged.
LEMMA CyclePages ==
    ASSUME MonitoringInv, NEW s \in Snapshots, NEW found \in Findings, NEW step \in Steps, Cycle(s, found, step)
    PROVE  CriticalIsPaged'
<1> DEFINE at == now + step
           evidence == bundle'
           alerts == Generated(bundle, evidence, policy, recent, at)
<1>1. /\ now' = at /\ recent' = Remember(alerts, at) /\ report'.before = bundle /\ report'.alerts = alerts
      /\ policy' = policy
    BY DEF Cycle
<1> SUFFICES ASSUME NEW e \in evidence, e.severity = "critical",
                    ~(\E x \in bundle : x.id = e.id /\ x.severity = "critical")
             PROVE  LET id == CriticalAlert(e).id IN
                    \/ \E a \in alerts : a.id = id /\ "pagerduty" \in Channels(a.severity)
                    \/ /\ id \in DOMAIN recent'
                       /\ recent'[id].acked \/ at < recent'[id].at + policy.cooldown
    BY <1>1 DEF CriticalIsPaged
<1> DEFINE c == CriticalAlert(e)
<1>2. c \in Candidates(bundle, evidence)
    <2>1. CASE e.id \notin Ids(bundle)
        <3>1. e \in Added(bundle, evidence)
            BY <2>1 DEF Added
        <3>2. c \in ForAdded(e)
            BY DEF ForAdded
        <3> QED
            BY <3>1, <3>2 DEF Candidates
    <2>2. CASE e.id \in Ids(bundle)
        <3>1. \E x \in bundle : x.id = e.id
            BY <2>2 DEF Ids
        <3>2. WithId(bundle, e.id) \in bundle /\ WithId(bundle, e.id).id = e.id
            BY <3>1 DEF WithId
        <3>3. e \in Escalated(bundle, evidence)
            BY <2>2, <3>2 DEF Escalated, Updated
        <3> QED
            BY <3>3 DEF Candidates
    <2> QED
        BY <2>1, <2>2
<1>3. c.severity = "critical" /\ c.id = <<"new_critical_evidence", {e.id}>>
    BY AlertParts DEF CriticalAlert
<1>4. CASE ~Suppressed(c, policy, recent, at)
    <2>1. c \in alerts
        BY <1>2, <1>4 DEF Generated
    <2>2. "pagerduty" \in Channels(c.severity)
        BY <1>3 DEF Channels
    <2> QED
        BY <2>1, <2>2
<1>5. CASE Suppressed(c, policy, recent, at)
    <2>1. ~(Rank[c.severity] < Rank[policy.minimum])
        <3>1. policy.minimum \in Severities
            BY MonitoringAssumption DEF MonitoringInv, MonitoringTypes, AlertPolicy
        <3> QED
            BY <1>3, <3>1, RankIsNat
    <2>2. c.id \in DOMAIN recent /\ (recent[c.id].acked \/ at < recent[c.id].at + policy.cooldown)
        BY <1>5, <2>1 DEF Suppressed
    <2>3. ASSUME NEW a \in alerts, a.id = c.id PROVE FALSE
        <3>1. a \in Candidates(bundle, evidence) /\ ~Suppressed(a, policy, recent, at)
            BY DEF Generated
        <3>2. a.severity = "critical"
            BY <1>3, <2>3, <3>1, CandidateRules
        <3> QED
            BY <1>3, <1>5, <2>3, <3>1, <3>2 DEF Suppressed
    <2>4. c.id \in DOMAIN recent' /\ recent'[c.id] = recent[c.id]
        BY <1>1, <2>2, <2>3 DEF Remember
    <2> QED
        BY <2>2, <2>4
<1> QED
    BY <1>4, <1>5

LEMMA CycleRemembers ==
    ASSUME MonitoringInv, NEW s \in Snapshots, NEW found \in Findings, NEW step \in Steps, Cycle(s, found, step)
    PROVE  SentIsRemembered'
<1> DEFINE at == now + step
           alerts == Generated(bundle, bundle', policy, recent, at)
<1>1. /\ now' = at /\ recent' = Remember(alerts, at) /\ restarts' = restarts
      /\ sent' = sent \cup {[alert |-> a, at |-> at, life |-> restarts] : a \in alerts}
    BY DEF Cycle
<1>2. at \in Nat /\ now \in Nat /\ now <= at /\ restarts \in Nat
    BY MonitoringAssumption DEF MonitoringInv, MonitoringTypes
<1> HIDE DEF at, alerts
<1>3. ASSUME NEW id \in DOMAIN recent
      PROVE  id \in DOMAIN recent' /\ recent[id].at <= recent'[id].at
    <2>1. recent[id].at \in Nat /\ recent[id].at <= at
        BY <1>2 DEF MonitoringInv, MonitoringTypes, SentIsRemembered
    <2> QED
        BY <1>1, <1>2, <2>1 DEF Remember
<1>4. \A id \in DOMAIN recent' : recent'[id].at \in Nat /\ recent'[id].at <= at
    BY <1>1, <1>2 DEF Remember, MonitoringInv, MonitoringTypes, SentIsRemembered
<1>5. \A a \in alerts : a.id \in DOMAIN recent' /\ recent'[a.id].at = at
    BY <1>1 DEF Remember
<1>6. ASSUME NEW x \in sent'
      PROVE  /\ x.life \in Nat /\ x.life <= restarts /\ x.at \in Nat /\ x.at <= at
             /\ x.life = restarts => x.alert.id \in DOMAIN recent' /\ x.at <= recent'[x.alert.id].at
    <2>1. CASE x \in sent
        <3>1. /\ x.life \in Nat /\ x.life <= restarts /\ x.at \in Nat /\ x.at <= now
              /\ x.life = restarts => x.alert.id \in DOMAIN recent /\ x.at <= recent[x.alert.id].at
            BY <2>1 DEF MonitoringInv, SentIsRemembered
        <3>2. \A id \in DOMAIN recent : recent[id].at \in Nat
            BY DEF MonitoringInv, MonitoringTypes
        <3> QED
            BY <1>2, <1>3, <1>4, <3>1, <3>2
    <2>2. CASE \E a \in alerts : x = [alert |-> a, at |-> at, life |-> restarts]
        BY <1>2, <1>5, <2>2
    <2> QED
        BY <1>1, <2>1, <2>2
<1> QED
    BY <1>1, <1>4, <1>6 DEF SentIsRemembered

LEMMA AcknowledgeKeeps ==
    ASSUME MonitoringInv, NEW id \in DOMAIN recent, Acknowledge(id)
    PROVE  MonitoringInv'
<1>1. /\ DOMAIN recent' = DOMAIN recent
      /\ \A x \in DOMAIN recent : recent'[x] = IF x = id THEN [recent[id] EXCEPT !.acked = TRUE] ELSE recent[x]
      /\ UNCHANGED <<policy, now, baseline, bundle, report, cycles, restarts, sent>>
    BY DEF Acknowledge
<1>2. \A x \in DOMAIN recent : recent[x] \in [at : Nat, acked : BOOLEAN]
    BY DEF MonitoringInv, MonitoringTypes
<1>3. \A x \in DOMAIN recent :
        /\ recent'[x] \in [at : Nat, acked : BOOLEAN] /\ recent'[x].at = recent[x].at
        /\ recent[x].acked => recent'[x].acked
    BY <1>1, <1>2
<1>4. MonitoringTypes'
    BY <1>1, <1>3 DEF MonitoringInv, MonitoringTypes
<1>5. ReportIsOfBaseline'
    BY <1>1 DEF MonitoringInv, ReportIsOfBaseline
<1>6. CriticalIsPaged'
    BY <1>1, <1>3 DEF MonitoringInv, CriticalIsPaged
<1>7. SentIsRemembered'
    BY <1>1, <1>3 DEF MonitoringInv, SentIsRemembered
<1> QED
    BY <1>4, <1>5, <1>6, <1>7 DEF MonitoringInv

LEMMA RestartKeeps ==
    ASSUME MonitoringInv, Restart
    PROVE  MonitoringInv'
<1>1. /\ restarts' = restarts + 1 /\ restarts' \in 0..MaxRestarts /\ restarts \in Nat
      /\ baseline' \in {baseline, None} /\ bundle' = {} /\ recent' = << >>
      /\ report' = [ran |-> FALSE] /\ UNCHANGED <<policy, now, cycles, sent>>
    BY MonitoringAssumption DEF MonitoringInv, MonitoringTypes, Restart, NoReport
<1>2. DOMAIN recent' = {}
    BY <1>1
<1>3. MonitoringTypes'
    BY <1>1, <1>2 DEF MonitoringInv, MonitoringTypes
<1>4. ReportIsOfBaseline' /\ CriticalIsPaged'
    BY <1>1 DEF ReportIsOfBaseline, CriticalIsPaged
<1>5. SentIsRemembered'
    BY <1>1, <1>2 DEF MonitoringInv, SentIsRemembered
<1> QED
    BY <1>3, <1>4, <1>5 DEF MonitoringInv

\* Every state of the monitoring satisfies the invariant.
THEOREM MonitoringInvariant == Spec => []MonitoringInv
<1>1. Init => MonitoringInv
    BY MonitoringAssumption DEF Init, NoReport, MonitoringInv, MonitoringTypes, ReportIsOfBaseline, CriticalIsPaged,
                                SentIsRemembered
<1>2. MonitoringInv /\ [Next]_vars => MonitoringInv'
    <2> SUFFICES ASSUME MonitoringInv, [Next]_vars PROVE MonitoringInv'
        OBVIOUS
    <2>1. ASSUME NEW s \in Snapshots, NEW f \in Findings, NEW step \in Steps, Cycle(s, f, step)
          PROVE  MonitoringInv'
        BY <2>1, CycleTypes, CyclePages, CycleRemembers DEF MonitoringInv
    <2>2. ASSUME NEW id \in DOMAIN recent, Acknowledge(id) PROVE MonitoringInv'
        BY <2>2, AcknowledgeKeeps
    <2>3. CASE Restart
        BY <2>3, RestartKeeps
    <2>4. CASE UNCHANGED vars
        BY <2>4 DEF vars, MonitoringInv, MonitoringTypes, ReportIsOfBaseline, CriticalIsPaged, SentIsRemembered
    <2> QED
        BY <2>1, <2>2, <2>3, <2>4 DEF Next
<1> QED
    BY <1>1, <1>2, PTL DEF Spec

------------------------------------------------------------------------------
(* What follows *)

\* Every variable keeps its type.
THEOREM MonitoringIsTyped == Spec => []MonitoringTypes
<1>1. MonitoringInv => MonitoringTypes
    BY DEF MonitoringInv
<1> QED
    BY <1>1, MonitoringInvariant, PTL

\* A cycle says "unchanged" if and only if all that is watched is as in the baseline,
\* for any snapshots.
THEOREM ChangesAreNeverSilent == Spec => []NoSilentChange
<1>1. MonitoringInv => NoSilentChange
    BY UnchangedIsEqual DEF MonitoringInv, ReportIsOfBaseline, NoSilentChange
<1> QED
    BY <1>1, MonitoringInvariant, PTL

\* What becomes critical pages somebody, unless that alert was acknowledged or sent
\* within the cooldown, for any evidence and any policy.
THEOREM CriticalsArePaged == Spec => []CriticalIsPaged
<1>1. MonitoringInv => CriticalIsPaged
    BY DEF MonitoringInv
<1> QED
    BY <1>1, MonitoringInvariant, PTL

\* Between two restarts no alert is repeated within the cooldown or after it was
\* acknowledged, for any policy.
THEOREM RepeatsStayQuiet == Spec => RepeatsAreQuiet
<1> DEFINE Quiet ==
        \A x \in sent' \ sent :
            /\ \A y \in sent : y.alert.id = x.alert.id /\ y.life = x.life => x.at >= y.at + policy.cooldown
            /\ policy.respectAcks /\ x.alert.id \in DOMAIN recent => ~recent[x.alert.id].acked
<1>1. MonitoringInv /\ [Next]_vars => [Quiet]_vars
    <2> SUFFICES ASSUME MonitoringInv, Next PROVE Quiet
        OBVIOUS
    <2>1. ASSUME NEW s \in Snapshots, NEW f \in Findings, NEW step \in Steps, Cycle(s, f, step)
          PROVE  Quiet
        <3> DEFINE at == now + step
                   alerts == Generated(bundle, bundle', policy, recent, at)
        <3>1. sent' = sent \cup {[alert |-> a, at |-> at, life |-> restarts] : a \in alerts}
            BY <2>1 DEF Cycle
        <3>2. \A a \in alerts : ~Suppressed(a, policy, recent, at)
            BY DEF Generated
        <3>3. at \in Nat /\ now \in Nat /\ now <= at /\ policy.cooldown \in Int
            BY MonitoringAssumption DEF MonitoringInv, MonitoringTypes, AlertPolicy
        <3>4. \A y \in sent :
                /\ y.at \in Nat /\ y.at <= now
                /\ y.life = restarts => y.alert.id \in DOMAIN recent /\ y.at <= recent[y.alert.id].at
            BY DEF MonitoringInv, SentIsRemembered
        <3>5. \A id \in DOMAIN recent : recent[id].at \in Nat
            BY DEF MonitoringInv, MonitoringTypes
        <3> HIDE DEF at, alerts
        <3> SUFFICES ASSUME NEW x \in sent' \ sent
                     PROVE  /\ \A y \in sent : y.alert.id = x.alert.id /\ y.life = x.life
                                                => x.at >= y.at + policy.cooldown
                            /\ policy.respectAcks /\ x.alert.id \in DOMAIN recent => ~recent[x.alert.id].acked
            OBVIOUS
        <3>6. PICK a \in alerts : x = [alert |-> a, at |-> at, life |-> restarts]
            BY <3>1
        <3>7. x.alert.id \in DOMAIN recent =>
                /\ policy.respectAcks => ~recent[x.alert.id].acked
                /\ policy.cooldown > 0 => ~(at < recent[x.alert.id].at + policy.cooldown)
            BY <3>2, <3>6 DEF Suppressed
        <3>8. ASSUME NEW y \in sent, y.alert.id = x.alert.id, y.life = x.life
              PROVE  x.at >= y.at + policy.cooldown
            <4>1. /\ y.alert.id \in DOMAIN recent /\ y.at <= recent[y.alert.id].at
                  /\ recent[y.alert.id].at \in Nat /\ y.at \in Nat /\ y.at <= now /\ x.at = at
                BY <3>4, <3>5, <3>6, <3>8
            <4>2. CASE policy.cooldown > 0
                BY <3>3, <3>7, <3>8, <4>1, <4>2
            <4>3. CASE policy.cooldown <= 0
                BY <3>3, <4>1, <4>3
            <4> QED
                BY <3>3, <4>2, <4>3
        <3> QED
            BY <3>7, <3>8
    <2>2. ASSUME NEW id \in DOMAIN recent, Acknowledge(id) PROVE Quiet
        BY <2>2 DEF Acknowledge
    <2>3. CASE Restart
        BY <2>3 DEF Restart
    <2> QED
        BY <2>1, <2>2, <2>3 DEF Next
<1> QED
    BY <1>1, MonitoringInvariant, PTL DEF Spec, RepeatsAreQuiet
=============================================================================
