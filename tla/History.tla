------------------------------ MODULE History ------------------------------
(***************************************************************************)
(* The stores behind the monitoring of one watch: its baseline and its     *)
(* history of records, with their ingestion, retention, timeline metrics   *)
(* and dumps.  A history is a bag: how often the watch index lists each    *)
(* record.  A record is identified by its type, what it refers to and the  *)
(* time it is about.                                                       *)
(*                                                                         *)
(* The caller is not in the repository and external: it files the records  *)
(* of a cycle one after the other, again when it is not sure they were     *)
(* filed, and between cycles applies retention policies, dumps the two     *)
(* stores one after the other, and loads the dumps after a restart.        *)
(*                                                                         *)
(* An operator named F_xxx is F with a bug, a mutant.                      *)
(***************************************************************************)
EXTENDS Integers, Sequences, FiniteSets, Bags, FiniteSetsExt, Functions

CONSTANTS
    Outcomes,           \* what a cycle may come to
    RetentionPolicies,
    Period,             \* between two cycles
    Delays,             \* how long after its capture a snapshot may be archived
    MaxCycles, MaxRestarts      \* bounds of the instance

\* The score, the alerts and whether the protocol differs from its baseline.
Outcome == [unchanged : BOOLEAN, delta : Int, critical : Nat, high : Nat]
RetentionPolicy == [maxRecords : Nat, maxAge : Int, retainBaseline : BOOLEAN]

ASSUME HistoryAssumption ==
    /\ Outcomes \subseteq Outcome
    /\ RetentionPolicies \subseteq RetentionPolicy
    /\ Period \in Nat \ {0} /\ Delays \subseteq Nat
    /\ MaxCycles \in Nat /\ MaxRestarts \in Nat

RecordTypes ==
    {"snapshot", "change_detection", "reanalysis", "evidence_delta", "risk_delta",
     "alert_batch", "acknowledgement"}

NoData == [kind |-> "none"]
Record(type, ref, at, data) ==
    [id |-> <<type, ref, at>>, type |-> type, ref |-> ref, at |-> at, data |-> data]

\* ingest_snapshot; a snapshot is identified by when it was captured
SnapshotRef(s) == <<"snapshot", s.capturedAt>>
SnapshotRecord(s) == Record("snapshot", SnapshotRef(s), s.capturedAt, NoData)

\* archive_cycle: the record is filed under another time, its id stays
CycleRecord(s, archivedAt) == [SnapshotRecord(s) EXCEPT !.at = archivedAt]

\* ingest_change_result, ingest_reanalysis_result, ingest_evidence_delta,
\* ingest_risk_delta, ingest_alert_batch: what a cycle leaves, in this order
CycleRecords(at, outcome) ==
    <<Record("change_detection", <<"cycle", at>>, at,
             [kind |-> "change", unchanged |-> outcome.unchanged]),
      Record("reanalysis", <<"plan", at>>, at, NoData),
      Record("evidence_delta", <<"evidence", at>>, at, NoData),
      Record("risk_delta", <<"risk", at>>, at, [kind |-> "risk", delta |-> outcome.delta]),
      Record("alert_batch", <<"alerts", at>>, at,
             [kind |-> "alerts", generated |-> outcome.critical + outcome.high,
              critical |-> outcome.critical, high |-> outcome.high])>>

\* ingest_acknowledgement: filed under the time of the alert
AckRecord(ref, at) == Record("acknowledgement", ref, at, NoData)

\* InMemoryHistoryStore
Records(log) == BagToSet(log)
\* Lists a record again that is already there.
F_AppendRecord(log, r) == log (+) SetToBag({r})

AppendRecord(log, r) ==
    IF \E q \in Records(log) : q.id = r.id THEN log ELSE log (+) SetToBag({r})

Remove(log, gone) == [r \in Records(log) \ gone |-> log[r]]

\* dump_history_store and load_history_store
Reloaded(log) == SetToBag(Records(log))

-----------------------------------------------------------------------------
(***************************************************************************)
(* RetentionEngine: what is too old goes, then the oldest of the rest down *)
(* to the maximum.  Records of one time are ordered by a hash, so any of   *)
(* them may come first.                                                    *)
(***************************************************************************)

NoBaseline == [capturedAt |-> -1]

\* The baseline's record counts, but only with the age.
F_Protected(log, baseline, policy) ==
    {r \in Records(log) :
        policy.retainBaseline /\ baseline # NoBaseline /\ r = SnapshotRecord(baseline)
            /\ policy.maxAge > 0}

Protected(log, baseline, policy) ==
    {r \in Records(log) :
        policy.retainBaseline /\ baseline # NoBaseline /\ r.ref = SnapshotRef(baseline)}

Expired(log, baseline, policy, now) ==
    {r \in Records(log) \ Protected(log, baseline, policy) :
        policy.maxAge > 0 /\ r.at < now - policy.maxAge}

\* The sets of k records of S that may be its oldest k.
Oldest(S, k) ==
    IF k <= 0 THEN {{}}
    ELSE IF k >= Cardinality(S) THEN {S}
    ELSE LET upTo(t) == {r \in S : r.at <= t}
             t == CHOOSE t \in {r.at : r \in S} :
                    /\ Cardinality(upTo(t)) >= k
                    /\ \A q \in S : q.at < t => Cardinality(upTo(q.at)) < k
             older == {r \in S : r.at < t}
         IN  {older \cup ties : ties \in kSubset(k - Cardinality(older), upTo(t) \ older)}

\* What apply may remove.
Removals(log, baseline, policy, now) ==
    LET expired == Expired(log, baseline, policy, now)
        rest == Records(log) \ expired
    IN  {expired \cup old : old \in Oldest(rest \ Protected(log, baseline, policy),
                                           Cardinality(rest) - policy.maxRecords)}

-----------------------------------------------------------------------------
(***************************************************************************)
(* TrendAnalyzer over the records listed.                                  *)
(***************************************************************************)

OfType(log, type) == {r \in Records(log) : r.type = type}
Count(log, S) == SumFunctionOnSet(log, S)

\* _alert_frequency_metrics
TotalAlerts(log) == SumFunction([r \in OfType(log, "alert_batch") |-> log[r] * r.data.generated])
CriticalAlerts(log) == SumFunction([r \in OfType(log, "alert_batch") |-> log[r] * r.data.critical])

Acknowledged(log) == Count(log, OfType(log, "acknowledgement"))

\* _risk_trend_metrics
Direction(log) ==
    LET cycles == OfType(log, "risk_delta")
        up == Count(log, {r \in cycles : r.data.delta > 0})
        down == Count(log, {r \in cycles : r.data.delta < 0})
    IN  CASE up > down -> "increased" [] down > up -> "decreased" [] OTHER -> "unchanged"
ScoreDeltaTotal(log) == SumFunction([r \in OfType(log, "risk_delta") |-> log[r] * r.data.delta])

\* _stability_metrics: the cycles without a change since the last with one
UnchangedCycles(log) ==
    Count(log, {r \in OfType(log, "change_detection") : r.data.unchanged})
ChangeFreeStreak(log) ==
    LET cycles == OfType(log, "change_detection") IN
    Count(log, {r \in cycles : \A q \in cycles : q.at >= r.at => q.data.unchanged})

-----------------------------------------------------------------------------
VARIABLES
    now,            \* the clock: when the last cycle ran
    baseline,       \* the baseline snapshot, or NoBaseline
    store,          \* the history store
    saved,          \* the dumps of both
    pending,        \* records of the last cycle not yet filed
    filed,          \* all records of the last cycle
    restarts,
    outcomes,       \* history: what each cycle came to
    acked,          \* history: cycles whose alert was acknowledged
    lost            \* history: records were removed, or a restart took some

historyVars == <<now, baseline, store, saved, pending, filed, restarts, outcomes, acked, lost>>

HistoryInit ==
    /\ now = 0
    /\ baseline = NoBaseline
    /\ store = EmptyBag
    /\ saved = [baseline |-> NoBaseline, store |-> EmptyBag]
    /\ pending = << >> /\ filed = << >>
    /\ restarts = 0
    /\ outcomes = << >> /\ acked = {}
    /\ lost = FALSE

\* A baseline can be replaced.
F_SetBaseline(s) == baseline' = s

\* set_baseline: the first stays
SetBaseline(s) == baseline' = IF baseline = NoBaseline THEN s ELSE baseline

\* A cycle: without a baseline its snapshot becomes one (archive), later ones
\* are archived under the time they are filed (archive_cycle).
Cycle(outcome, delay) ==
    LET at == now + Period
        snapshot == [capturedAt |-> at]
        first == IF baseline = NoBaseline THEN SnapshotRecord(snapshot)
                                          ELSE CycleRecord(snapshot, at + delay)
    IN  /\ Len(outcomes) < MaxCycles
        /\ pending = << >>
        /\ now' = at
        /\ SetBaseline(snapshot)
        /\ filed' = <<first>> \o CycleRecords(at, outcome)
        /\ pending' = filed'
        /\ outcomes' = Append(outcomes, outcome)
        /\ UNCHANGED <<store, saved, restarts, acked, lost>>

\* The next record of the cycle is filed.
File ==
    /\ pending # << >>
    /\ store' = AppendRecord(store, Head(pending))
    /\ pending' = Tail(pending)
    /\ UNCHANGED <<now, baseline, saved, filed, restarts, outcomes, acked, lost>>

FileAgain ==
    /\ pending = << >>
    /\ pending' = filed
    /\ UNCHANGED <<now, baseline, store, saved, filed, restarts, outcomes, acked, lost>>

\* The acknowledgement of an alert of cycle i is filed.
Acknowledge(i) ==
    /\ pending = << >>
    /\ outcomes[i].critical + outcomes[i].high > 0
    /\ store' = AppendRecord(store, AckRecord(<<"alert", i>>, i * Period))
    /\ acked' = acked \cup {i}
    /\ UNCHANGED <<now, baseline, saved, pending, filed, restarts, outcomes, lost>>

\* remove_records
Retain(p) ==
    /\ pending = << >>
    /\ \E gone \in Removals(store, baseline, p, now) :
          /\ store' = Remove(store, gone)
          /\ lost' = (lost \/ gone # {})
    /\ UNCHANGED <<now, baseline, saved, pending, filed, restarts, outcomes, acked>>

SaveBaseline ==
    /\ pending = << >>
    /\ saved' = [saved EXCEPT !.baseline = baseline]
    /\ UNCHANGED <<now, baseline, store, pending, filed, restarts, outcomes, acked, lost>>

SaveHistory ==
    /\ pending = << >>
    /\ saved' = [saved EXCEPT !.store = store]
    /\ UNCHANGED <<now, baseline, store, pending, filed, restarts, outcomes, acked, lost>>

\* Only what was dumped comes back.
Restart ==
    /\ restarts < MaxRestarts
    /\ restarts' = restarts + 1
    /\ baseline' = saved.baseline
    /\ store' = Reloaded(saved.store)
    /\ pending' = << >> /\ filed' = << >>
    /\ lost' = (lost \/ pending # << >> \/ store # saved.store)
    /\ UNCHANGED <<now, saved, outcomes, acked>>

HistoryNext ==
    \/ \E o \in Outcomes, d \in Delays : Cycle(o, d)
    \/ File \/ FileAgain
    \/ \E i \in DOMAIN outcomes : Acknowledge(i)
    \/ \E p \in RetentionPolicies : Retain(p)
    \/ SaveBaseline \/ SaveHistory
    \/ Restart

HistorySpec == HistoryInit /\ [][HistoryNext]_historyVars

-----------------------------------------------------------------------------
\* Every variable keeps its type.
HistoryTypes ==
    /\ now \in Nat
    /\ baseline \in [capturedAt : Int] /\ saved.baseline \in [capturedAt : Int]
    /\ \A r \in Records(store) \cup Records(saved.store) : r.type \in RecordTypes /\ r.at \in Nat
    /\ outcomes \in Seq(Outcomes)
    /\ restarts \in 0..MaxRestarts /\ lost \in BOOLEAN

\* The baseline every cycle compares with is older than every other snapshot
\* filed, and once it is dumped also after restarts (InMemoryBaselineStore).
BaselineStands ==
    /\ saved.baseline # NoBaseline => baseline = saved.baseline
    /\ restarts = 0 => \A r \in Records(store) :
          r.type = "snapshot" => baseline.capturedAt <= r.ref[2]

\* What retention may never do (RetentionEngine.apply): remove the record of
\* the baseline when told to keep it, remove a record and keep an older one,
\* or leave more records than allowed besides the baseline's.
RetentionSpares ==
    [][\A p \in RetentionPolicies : Retain(p) =>
          LET kept == {r \in Records(store) :
                          p.retainBaseline /\ baseline # NoBaseline /\ r.ref = SnapshotRef(baseline)}
              gone == Records(store) \ Records(store')
          IN  /\ kept \subseteq Records(store')
              /\ \A r \in gone, q \in Records(store') \ kept : r.at <= q.at
              /\ Cardinality(Records(store')) <= p.maxRecords \/ Records(store') \subseteq kept]_historyVars

Alerts == SumFunction([i \in DOMAIN outcomes |-> outcomes[i].critical + outcomes[i].high])
Trailing == {i \in DOMAIN outcomes : \A j \in i..Len(outcomes) : outcomes[j].unchanged}

\* However often records are filed, and across restarts that lost nothing, the
\* timeline counts every cycle and every alert once and finds the changes at
\* the right end (TrendAnalyzer).  Whatever was lost, it never counts an alert or
\* an acknowledgement too many.
TimelineTellsTheTruth ==
    /\ TotalAlerts(store) <= Alerts /\ Acknowledged(store) <= Cardinality(acked)
    /\ ~lost /\ pending = << >> =>
          /\ TotalAlerts(store) = Alerts /\ Acknowledged(store) = Cardinality(acked)
          /\ CriticalAlerts(store) = SumFunction([i \in DOMAIN outcomes |-> outcomes[i].critical])
          /\ ScoreDeltaTotal(store) = SumFunction([i \in DOMAIN outcomes |-> outcomes[i].delta])
          /\ UnchangedCycles(store) = Cardinality({i \in DOMAIN outcomes : outcomes[i].unchanged})
          /\ ChangeFreeStreak(store) = Cardinality(Trailing)
          /\ Direction(store) =
                LET up == Cardinality({i \in DOMAIN outcomes : outcomes[i].delta > 0})
                    down == Cardinality({i \in DOMAIN outcomes : outcomes[i].delta < 0})
                IN  CASE up > down -> "increased" [] down > up -> "decreased" [] OTHER -> "unchanged"
=============================================================================
