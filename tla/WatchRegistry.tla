---------------------------- MODULE WatchRegistry ----------------------------
(***************************************************************************)
(* Continuous monitoring's registry of watched protocols                   *)
(* (backend/app/blockchain/continuous: watch_registry, watch_manager,      *)
(* scheduler, persistence, protocol_subscription).  A watch is one         *)
(* subscription of the store and the audit events recorded for it; every   *)
(* operation rewrites the subscription and appends its events.  The loop   *)
(* that scans the due watches is not in the tree: any caller may call any  *)
(* operation at any time, and may report an execution long after it.  A    *)
(* call that raises changes nothing and is no step.                        *)
(*                                                                         *)
(* An operator named F_xxx is F with a bug, a mutant.                      *)
(***************************************************************************)
EXTENDS Naturals, Sequences

CONSTANTS
    Watches,    \* watch identifiers, chain_id:root_address
    Interval,   \* the schedules with an interval (hourly, daily, weekly) -> its length
    Scans,      \* scan reports a baseline may be taken from
    EmptyScan,  \* the report {}, falsy like None
    None,       \* Python's None
    MaxTime,    \* bound on the clock
    MaxEvents   \* bound on the audit events of a watch

Schedules == DOMAIN Interval \cup {"manual", "cron"}
Truthy(scan) == scan \in Scans
Reports == Scans \cup {EmptyScan, None}

ASSUME WatchAssumption ==
    /\ DOMAIN Interval \cap {"manual", "cron"} = {}
    /\ \A s \in DOMAIN Interval : Interval[s] \in Nat \ {0}
    /\ None \notin Nat \cup Scans
    /\ EmptyScan \notin Scans \cup {None}
    /\ MaxTime \in Nat
    /\ MaxEvents \in Nat

VARIABLES
    clock,      \* the host's clock, _utc_now()
    subs,       \* _subscriptions, None where a watch has none
    events,     \* _events, by watch
    saved       \* the last dump_store: what load_store restores after a restart

vars == <<clock, subs, events, saved>>

WatchStatus == {"enabled", "disabled", "paused"}
RemovalType == {"unregistered", "deleted"}
StatusType == {"registered", "enabled", "disabled", "paused", "resumed"}
WatchEventType == RemovalType \cup StatusType \cup {"config_updated", "scheduled", "executed"}

Time == 0 .. MaxTime
TimeOrNone == Nat \cup {None}

WatchSubscription ==
    [status : WatchStatus, schedule : Schedules, baseline : Reports,
     last : TimeOrNone, next : TimeOrNone]

\* None is not a subscription.
ASSUME NoneAssumption == None \notin WatchSubscription

WatchEvent == [type : WatchEventType, at : Nat, scan : Reports]

Event(type, at) == [type |-> type, at |-> at, scan |-> None]

Init ==
    /\ clock = 0
    /\ subs = [w \in Watches |-> None]
    /\ events = [w \in Watches |-> <<>>]
    /\ saved = [subs |-> subs, events |-> events]

-----------------------------------------------------------------------------
(* WatchScheduler.                                                         *)

\* compute_next_execution: a cron schedule is a placeholder and has no next.
NextExecution(schedule, reference) ==
    IF schedule \in DOMAIN Interval THEN reference + Interval[schedule] ELSE None

IsDue(w) ==
    /\ subs[w] # None
    /\ subs[w].status = "enabled"
    /\ subs[w].schedule # "manual"
    /\ subs[w].next # None
    /\ clock >= subs[w].next

-----------------------------------------------------------------------------
(* WatchRegistry and WatchManager.                                         *)

Registered(w) == subs[w] # None

\* What every operation does: save_subscription or delete_subscription, then
\* the events.
Save(w, sub, new) ==
    /\ Len(events[w]) + Len(new) <= MaxEvents
    /\ subs' = [subs EXCEPT ![w] = sub]
    /\ events' = [events EXCEPT ![w] = @ \o new]
    /\ UNCHANGED <<clock, saved>>

NewSubscription(schedule, baseline) ==
    [status |-> "enabled", schedule |-> schedule, baseline |-> baseline,
     last |-> None, next |-> NextExecution(schedule, clock)]

Register(w, schedule, baseline) ==
    /\ ~Registered(w)
    /\ LET sub == NewSubscription(schedule, baseline)
       IN  Save(w, sub, IF sub.next = None THEN <<Event("registered", clock)>>
                        ELSE <<Event("registered", clock), Event("scheduled", clock)>>)

\* unregister and delete_watch differ in the event only.
Remove(w, type) ==
    /\ Registered(w)
    /\ Save(w, None, <<Event(type, clock)>>)

Reconfigured_anyStatus(sub, schedule) ==
    [sub EXCEPT !.schedule = schedule, !.next = NextExecution(schedule, clock)]

\* merge_configuration takes the schedule of the update, whatever it was.
Reconfigured(sub, schedule) ==
    [sub EXCEPT !.schedule = schedule,
                !.next = IF sub.status = "enabled" THEN NextExecution(schedule, clock) ELSE None]

UpdateConfiguration(w, schedule) ==
    /\ Registered(w)
    /\ Save(w, Reconfigured(subs[w], schedule), <<Event("config_updated", clock)>>)

Executed_newBaseline(sub, at, scan) ==
    [sub EXCEPT !.baseline = IF Truthy(scan) THEN scan ELSE sub.baseline,
                !.last = at,
                !.next = IF sub.status = "enabled" THEN NextExecution(sub.schedule, at) ELSE sub.next]

\* record_execution, for a scan that was executed at a time `at' and is
\* reported now; the snapshot becomes the baseline unless there is one.
Executed(sub, at, scan) ==
    [sub EXCEPT !.baseline = IF Truthy(sub.baseline) THEN sub.baseline ELSE scan,
                !.last = at,
                !.next = IF sub.status = "enabled" THEN NextExecution(sub.schedule, at) ELSE sub.next]

RecordExecution(w, at, scan) ==
    /\ Registered(w)
    /\ at <= clock
    /\ Save(w, Executed(subs[w], at, scan),
            <<[type |-> "executed", at |-> at, scan |-> IF Truthy(scan) THEN scan ELSE EmptyScan]>>)

\* WatchManager._transition.
Moved(sub, status) ==
    [sub EXCEPT !.status = status,
                !.next = IF status = "enabled" THEN NextExecution(sub.schedule, clock) ELSE None]

Transition_typeAsStatus(w, status, type) ==
    /\ Registered(w)
    /\ Save(w, Moved(subs[w], type), <<Event(type, clock)>>)

Transition(w, status, type) ==
    /\ Registered(w)
    /\ Save(w, Moved(subs[w], status), <<Event(type, clock)>>)

Enable(w) == Transition(w, "enabled", "enabled")
Disable(w) == Transition(w, "disabled", "disabled")
Pause(w) == Transition(w, "paused", "paused")
Resume(w) == subs[w] # None /\ subs[w].status = "paused" /\ Transition(w, "enabled", "resumed")

-----------------------------------------------------------------------------
(* The world around it.                                                    *)

Tick ==
    /\ clock < MaxTime
    /\ clock' = clock + 1
    /\ UNCHANGED <<subs, events, saved>>

DumpStore_eventsOnly == saved' = [saved EXCEPT !.events = events]

\* dump_store: both parts of the store in one call.
DumpStore == saved' = [subs |-> subs, events |-> events]

Dump == DumpStore /\ UNCHANGED <<clock, subs, events>>

\* The process restarts: memory is lost, load_store restores the last dump.
Restart ==
    /\ subs' = saved.subs
    /\ events' = saved.events
    /\ UNCHANGED <<clock, saved>>

Next ==
    \/ Tick
    \/ Dump
    \/ Restart
    \/ \E w \in Watches :
         \/ \E schedule \in Schedules, baseline \in Reports : Register(w, schedule, baseline)
         \/ \E type \in RemovalType : Remove(w, type)
         \/ \E schedule \in Schedules : UpdateConfiguration(w, schedule)
         \/ \E at \in Time, scan \in Reports : RecordExecution(w, at, scan)
         \/ Enable(w) \/ Disable(w) \/ Pause(w) \/ Resume(w)

Spec == Init /\ [][Next]_vars

-----------------------------------------------------------------------------
(* Properties.                                                             *)

TypeOK ==
    /\ clock \in Time
    /\ subs \in [Watches -> WatchSubscription \cup {None}]
    /\ events \in [Watches -> Seq(WatchEvent)]
    /\ saved \in [subs : [Watches -> WatchSubscription \cup {None}],
                  events : [Watches -> Seq(WatchEvent)]]

\* e is the last event of the log whose type is in T.
IsLast(log, i, T) ==
    /\ i \in DOMAIN log
    /\ log[i].type \in T
    /\ \A j \in DOMAIN log : j > i => log[j].type \notin T

\* Position i of the log belongs to the registration that is in force.
Current(log, i) ==
    /\ i \in DOMAIN log
    /\ \A j \in DOMAIN log : j > i => log[j].type # "registered"

StatusOf(type) == IF type \in {"registered", "resumed"} THEN "enabled" ELSE type

\* The subscription that the audit log tells of.
StatusReplays(sub, log) ==
    /\ sub = None <=> \/ log = <<>>
                      \/ log # <<>> /\ log[Len(log)].type \in RemovalType
    /\ sub # None =>
         \E i \in DOMAIN log : IsLast(log, i, StatusType) /\ sub.status = StatusOf(log[i].type)

LastReplays(sub, log) ==
    sub # None =>
      IF \E i \in DOMAIN log : Current(log, i) /\ log[i].type = "executed"
      THEN \E i \in DOMAIN log : IsLast(log, i, {"executed"}) /\ sub.last = log[i].at
      ELSE sub.last = None

\* The audit log accounts for every watch: replaying it gives whether the
\* watch exists, its status and its last execution, over re-registrations and
\* restarts from a dump.
AuditReplays ==
    \A w \in Watches :
        StatusReplays(subs[w], events[w]) /\ LastReplays(subs[w], events[w])

NextFollows(sub, log) ==
    sub # None =>
        sub.next = IF sub.status = "enabled"
                   THEN NextExecution(sub.schedule, log[Len(log)].at) ELSE None

\* An enabled watch is scheduled one interval after whatever happened to it
\* last, and no other watch is scheduled: what a manual or cron watch, or one
\* that is paused or disabled, was scheduled for before does not survive.
ScheduleFollowsLog == \A w \in Watches : NextFollows(subs[w], events[w])

LastBeforeNext(sub) == sub # None /\ sub.next # None /\ sub.last # None => sub.last < sub.next

\* A watch is scheduled for later than the execution that was reported last,
\* however late the report and whatever happened in between.
ScheduledAfterLast == \A w \in Watches : LastBeforeNext(subs[w])

\* A watch is due exactly when it is enabled, has an interval, and nothing at
\* all happened to it for one interval.
DueAfterInterval ==
    \A w \in Watches :
        IsDue(w) <=>
            /\ Registered(w)
            /\ subs[w].status = "enabled"
            /\ subs[w].schedule \in DOMAIN Interval
            /\ clock >= events[w][Len(events[w])].at + Interval[subs[w].schedule]

BaselineTaken(sub, log) ==
    sub # None /\ (\E i \in DOMAIN log : Current(log, i) /\ Truthy(log[i].scan))
        => Truthy(sub.baseline)

\* A watch that was executed with a report, since it was registered, has a
\* baseline, whether it was enabled then or not.
BaselineCaptured == \A w \in Watches : BaselineTaken(subs[w], events[w])

\* ... and the baseline, once taken, is the baseline until the watch is
\* removed, whatever is executed, reconfigured, paused or resumed.  (A log
\* gets shorter only when a restart goes back to an older dump.)
BaselineKept ==
    [][\A w \in Watches :
         (/\ subs[w] # None
          /\ Truthy(subs[w].baseline)
          /\ subs'[w] # None
          /\ Len(events'[w]) >= Len(events[w]))
            => subs'[w].baseline = subs[w].baseline]_vars

(* The inductive invariant behind the properties.                          *)

\* One watch, as the store in memory or the dump has it.
WatchOK(sub, log, now) ==
    /\ StatusReplays(sub, log)
    /\ LastReplays(sub, log)
    /\ NextFollows(sub, log)
    /\ BaselineTaken(sub, log)
    /\ log # <<>> => log[Len(log)].at <= now
    /\ sub # None /\ sub.last # None => sub.last <= log[Len(log)].at

\* The dump is an earlier state of the memory, or the same.
SavedIsPast ==
    \A w \in Watches :
        /\ Len(saved.events[w]) <= Len(events[w])
        /\ Len(saved.events[w]) = Len(events[w]) => saved.subs[w] = subs[w]

RegistryInv ==
    /\ \A w \in Watches : /\ WatchOK(subs[w], events[w], clock)
                          /\ WatchOK(saved.subs[w], saved.events[w], clock)
    /\ SavedIsPast
=============================================================================
