----------------------------- MODULE Reanalysis -----------------------------
(***************************************************************************)
(* From the changes of a cycle to its risk report: the modules to run      *)
(* again, the evidence they give, the difference to the evidence known     *)
(* before (DeltaBuilder) and the trend of the risk (RiskDeltaEngine).      *)
(*                                                                         *)
(* An operator named F_xxx is F with a bug, a mutant.                      *)
(***************************************************************************)
EXTENDS Integers, FiniteSets, Sequences, FiniteSetsExt

\* MODULE_ORDER, the order in which the selected modules run
ModuleOrder == <<"capability", "governance", "liquidity", "protocol", "relationship", "threat">>
Modules == {ModuleOrder[i] : i \in DOMAIN ModuleOrder}

\* CHANGE_TYPE_MODULES
Impact ==
    [implementation_changed |-> {"capability", "protocol", "threat"},
     bytecode_changed |-> {"capability", "protocol", "threat"},
     owner_changed |-> {"governance", "threat"},
     proxy_admin_changed |-> {"governance", "threat"},
     governance_changed |-> {"governance", "threat"},
     treasury_changed |-> {"governance", "threat"},
     liquidity_changed |-> {"liquidity"},
     dependency_changed |-> {"protocol", "relationship"},
     runtime_fingerprint_changed |-> {"protocol", "threat"}]

\* The plan: nothing to run when nothing changed.
Selected(changes) == UNION {Impact[c.type] : c \in changes}

Rank == [info |-> 0, low |-> 1, medium |-> 2, high |-> 3, critical |-> 4]
Severities == DOMAIN Rank
AtLeast(s, floor) == IF Rank[s] < Rank[floor] THEN floor ELSE s

\* RiskEvidence: the id names source, category and signal; matches holds the
\* alert rules whose signal lists the signal matches
IsEvidence(e) ==
    /\ DOMAIN e = {"id", "source", "matches", "severity", "score", "reasonOnly"}
    /\ e.severity \in Severities /\ e.score \in Int /\ e.reasonOnly \in BOOLEAN

\* merge_evidence over the modules executed: of one id the first is kept
Position(m) == CHOOSE i \in DOMAIN ModuleOrder : ModuleOrder[i] = m
Merged(found, modules) ==
    {e \in UNION {found[m] : m \in modules} :
        \E m \in modules :
            /\ e \in found[m]
            /\ \A n \in modules : Position(n) < Position(m) => \A x \in found[n] : x.id # e.id}

Ids(bundle) == {e.id : e \in bundle}
WithId(bundle, id) == CHOOSE e \in bundle : e.id = id

\* _evidence_changed: all but the timestamp
Added(previous, current) == {e \in current : e.id \notin Ids(previous)}
Removed(previous, current) == {e \in previous : e.id \notin Ids(current)}
\* Evidence counts as changed when its score has.
F_Updated(previous, current) ==
    {e \in current : e.id \in Ids(previous) /\ e.score # WithId(previous, e.id).score}
Updated(previous, current) == {e \in current : e.id \in Ids(previous) /\ e \notin previous}

Contribution(e) == IF e.reasonOnly THEN 0 ELSE e.score
Total(bundle) == MapThenSumSet(Contribution, bundle)
MaxSeverity(bundle) ==
    IF bundle = {} THEN "info"
    ELSE CHOOSE s \in {e.severity : e \in bundle} : \A e \in bundle : Rank[e.severity] <= Rank[s]

\* DeltaClassifier: the sum of the differences is the difference of the sums
ScoreDelta(previous, current) == Total(current) - Total(previous)
Trend(previous, current) ==
    CASE ScoreDelta(previous, current) > 0 -> "increased"
      [] ScoreDelta(previous, current) < 0 -> "decreased"
      [] OTHER -> "unchanged"

\* contributing_evidence_ids
Contributing(previous, current) ==
    Ids(Added(previous, current) \cup Removed(previous, current) \cup Updated(previous, current))
=============================================================================
