----------------------------- MODULE Monitoring -----------------------------
(***************************************************************************)
(* The continuous monitoring of one watch, the pipeline of README.md:17    *)
(* up to the alerts: change detection against the baseline, re-analysis of *)
(* what the changes may affect, risk delta, alerts.  A cycle is a chain of *)
(* calls, none of which suspends while another cycle of the watch could run.*)
(*                                                                         *)
(* The caller is not in the repository and external: it hands each cycle   *)
(* the evidence of the one before and the alerts sent so far, has them     *)
(* acknowledged, and after a restart knows neither any more; the baseline  *)
(* it knows if it was dumped (module History).                             *)
(*                                                                         *)
(* An operator named F_xxx is F with a bug, a mutant.                      *)
(***************************************************************************)
EXTENDS Integers, Sequences, FiniteSets, ChangeDetection, Alerting

CONSTANTS
    Snapshots,          \* states the watched protocol may be in
    Findings,           \* what the modules may find: [Modules -> sets of evidence]
    AlertPolicies,
    Steps,              \* how far the clock may go between cycles
    MaxCycles, MaxRestarts      \* bounds of the instance

AlertPolicy == [minimum : Severities, cooldown : Int, respectAcks : BOOLEAN]

ASSUME MonitoringAssumption ==
    /\ \A s \in Snapshots : IsSnapshot(s)
    /\ \A f \in Findings : \A m \in Modules : \A e \in f[m] : IsEvidence(e)
    /\ AlertPolicies \subseteq AlertPolicy
    /\ Steps \subseteq Nat \ {0} /\ MaxCycles \in Nat /\ MaxRestarts \in Nat

VARIABLES
    policy,         \* the alert policy in force
    now,            \* the clock: when the last cycle ran
    baseline,       \* the baseline snapshot, or None
    bundle,         \* the evidence of the last cycle
    recent,         \* alert id -> the last alert with it
    report,         \* the last cycle: its snapshot and what came of it
    cycles, restarts,
    sent            \* history: the alerts sent, with the time and the life

vars == <<policy, now, baseline, bundle, recent, report, cycles, restarts, sent>>

NoReport == [ran |-> FALSE]

Init ==
    /\ policy \in AlertPolicies
    /\ now = 0
    /\ baseline = None
    /\ bundle = {} /\ recent = << >> /\ report = NoReport
    /\ cycles = 0 /\ restarts = 0
    /\ sent = {}

Remember(alerts, at) ==
    [id \in DOMAIN recent \cup {a.id : a \in alerts} |->
        IF \E a \in alerts : a.id = id THEN [at |-> at, acked |-> FALSE] ELSE recent[id]]

\* The first snapshot is the baseline.
Cycle(snapshot, found, step) ==
    LET at == now + step
        base == IF baseline = None THEN snapshot ELSE baseline
        changes == Changes(base, snapshot)
        evidence == Merged(found, Selected(changes))
        alerts == Generated(bundle, evidence, policy, recent, at)
    IN  /\ cycles < MaxCycles
        /\ cycles' = cycles + 1
        /\ now' = at
        /\ baseline' = base
        /\ bundle' = evidence
        /\ recent' = Remember(alerts, at)
        /\ report' = [ran |-> TRUE, snapshot |-> snapshot, changes |-> changes,
                      unchanged |-> Unchanged(base, snapshot), before |-> bundle, alerts |-> alerts]
        /\ sent' = sent \cup {[alert |-> a, at |-> at, life |-> restarts] : a \in alerts}
        /\ UNCHANGED <<policy, restarts>>

\* AlertEngine.acknowledge; the caller keeps the acknowledged alert.
Acknowledge(id) ==
    /\ recent' = [recent EXCEPT ![id].acked = TRUE]
    /\ UNCHANGED <<policy, now, baseline, bundle, report, cycles, restarts, sent>>

Restart ==
    /\ restarts < MaxRestarts
    /\ restarts' = restarts + 1
    /\ baseline' \in {baseline, None}
    /\ bundle' = {} /\ recent' = << >> /\ report' = NoReport
    /\ UNCHANGED <<policy, now, cycles, sent>>

Next ==
    \/ \E s \in Snapshots, f \in Findings, step \in Steps : Cycle(s, f, step)
    \/ \E id \in DOMAIN recent : Acknowledge(id)
    \/ Restart

Spec == Init /\ [][Next]_vars

-----------------------------------------------------------------------------
\* Every variable keeps its type.
MonitoringTypes ==
    /\ policy \in AlertPolicies /\ now \in Nat
    /\ baseline # None => IsSnapshot(baseline)
    /\ \A e \in bundle : IsEvidence(e)
    /\ \A id \in DOMAIN recent : id[1] \in Rules /\ recent[id] \in [at : Nat, acked : BOOLEAN]
    /\ report.ran => report.changes \subseteq [type : ChangeTypes, contracts : SUBSET Addresses]
    /\ cycles \in 0..MaxCycles /\ restarts \in 0..MaxRestarts

\* A cycle says "unchanged" (ChangeDetectionResult.unchanged) if and only if the
\* protocol has the contracts of the baseline and each of them every watched
\* field, and the fingerprints are the same: nothing changes silently, not even
\* by a contract that comes or goes without a value in any field.
NoSilentChange ==
    report.ran => (report.unchanged <=> Watched(report.snapshot) = Watched(baseline))

\* Evidence that is critical and was not in the cycle before, because it is new
\* or because its severity rose, pages somebody (AlertRouter's PagerDuty
\* channel), unless that very alert was acknowledged or sent within the
\* cooldown since the last restart.
CriticalIsPaged ==
    report.ran =>
        \A e \in bundle :
            e.severity = "critical" /\ ~(\E x \in report.before : x.id = e.id /\ x.severity = "critical")
            => LET id == CriticalAlert(e).id IN
               \/ \E a \in report.alerts : a.id = id /\ "pagerduty" \in Channels(a.severity)
               \/ /\ id \in DOMAIN recent
                  /\ recent[id].acked \/ now < recent[id].at + policy.cooldown

\* Between two restarts an alert is sent again only when the cooldown of the
\* last one is over, and never once it was acknowledged, whatever evidence came
\* and went between (AlertSuppressionEngine over the recent alerts).
RepeatsAreQuiet ==
    [][\A x \in sent' \ sent :
          /\ \A y \in sent : y.alert.id = x.alert.id /\ y.life = x.life
                                => x.at >= y.at + policy.cooldown
          /\ policy.respectAcks /\ x.alert.id \in DOMAIN recent => ~recent[x.alert.id].acked]_vars
=============================================================================
