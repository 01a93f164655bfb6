------------------------------ MODULE Alerting ------------------------------
(***************************************************************************)
(* From a risk report to the alerts sent: the rules of AlertRuleEngine,    *)
(* AlertSuppressionEngine over the alerts sent before, AlertRouter.  An    *)
(* alert is identified by its rule and the evidence it refers to, whatever *)
(* its severity; at most one candidate of a report has an id, so the batch *)
(* deduplication has nothing to drop.                                      *)
(*                                                                         *)
(* An operator named F_xxx is F with a bug, a mutant.                      *)
(***************************************************************************)
EXTENDS Reanalysis

\* The rules about added evidence: the severity an alert has at least, and the
\* sources whose evidence it takes whatever the signal is.
Floor ==
    [governance_change |-> "high", implementation_change |-> "critical",
     ownership_change |-> "high", treasury_change |-> "high",
     runtime_exploit_indicator |-> "high"]
Sources ==
    [governance_change |-> {"governance"}, implementation_change |-> {"proxy"},
     ownership_change |-> {}, treasury_change |-> {},
     runtime_exploit_indicator |-> {"simulation", "threat_surface", "classification"}]
EvidenceRules == DOMAIN Floor
Rules == EvidenceRules \cup {"new_critical_evidence", "high_risk_increase", "critical_risk_increase"}

Alert(rule, severity, ids) == [id |-> <<rule, ids>>, severity |-> severity]

\* _risk_increase_rules
RiskIncrease(previous, current) ==
    LET delta == ScoreDelta(previous, current)
        about == Contributing(previous, current)
    IN  IF Trend(previous, current) # "increased" THEN {}
        ELSE IF delta >= 40 \/ MaxSeverity(current) = "critical"
                THEN {Alert("critical_risk_increase", "critical", about)}
        ELSE IF delta >= 20 \/ MaxSeverity(current) = "high"
                THEN {Alert("high_risk_increase", "high", about)}
        ELSE {}

CriticalAlert(e) == Alert("new_critical_evidence", "critical", {e.id})

\* _rules_for_added_evidence
ForAdded(e) ==
    {CriticalAlert(x) : x \in {y \in {e} : y.severity = "critical"}}
    \cup {Alert(r, AtLeast(e.severity, Floor[r]), {e.id}) :
            r \in {x \in EvidenceRules : x \in e.matches \/ e.source \in Sources[x]}}

\* _rules_for_updated_evidence
Escalated(previous, current) ==
    {e \in Updated(previous, current) :
        e.severity = "critical" /\ WithId(previous, e.id).severity # "critical"}

Candidates(previous, current) ==
    RiskIncrease(previous, current)
    \cup (UNION {ForAdded(e) : e \in Added(previous, current)})
    \cup {CriticalAlert(e) : e \in Escalated(previous, current)}

\* An acknowledgement counts no longer than the cooldown.
F_AckExpires(alert, policy, recent, now) ==
    \/ Rank[alert.severity] < Rank[policy.minimum]
    \/ /\ alert.id \in DOMAIN recent
       /\ policy.cooldown > 0 /\ now < recent[alert.id].at + policy.cooldown

\* _suppression_reason: recent maps the ids sent before to the last such alert;
\* a cooldown ends at its last instant
Suppressed(alert, policy, recent, now) ==
    \/ Rank[alert.severity] < Rank[policy.minimum]
    \/ /\ alert.id \in DOMAIN recent
       /\ \/ policy.respectAcks /\ recent[alert.id].acked
          \/ policy.cooldown > 0 /\ now < recent[alert.id].at + policy.cooldown

\* generated_alerts
Generated(previous, current, policy, recent, now) ==
    {a \in Candidates(previous, current) : ~Suppressed(a, policy, recent, now)}

\* _channels_for_severity
Channels(severity) ==
    CASE severity = "critical" -> {"pagerduty", "slack", "email", "siem"}
      [] severity = "high" -> {"slack", "email", "webhook"}
      [] OTHER -> {"webhook", "email"}
=============================================================================
