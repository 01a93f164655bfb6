------------------------ MODULE WatchRegistry_proofs ------------------------
(***************************************************************************)
(* Safety of WatchRegistry for any watches, schedules, clock and number of *)
(* events.  The audit log of a watch grows by one event at a time, so the  *)
(* invariant is carried over one appended event; a registration that       *)
(* schedules is two of them.                                               *)
(***************************************************************************)
EXTENDS WatchRegistry, TLAPS

-----------------------------------------------------------------------------
(* Appending an event to a log.                                            *)

\* new is log with e at its end.
Extends(log, new, e) ==
    /\ new \in Seq(WatchEvent)
    /\ Len(log) \in Nat
    /\ Len(new) = Len(log) + 1
    /\ DOMAIN log = 1 .. Len(log)
    /\ DOMAIN new = 1 .. Len(log) + 1
    /\ \A i \in DOMAIN log : new[i] = log[i]
    /\ new[Len(log) + 1] = e
    /\ new # <<>>

\* What `\o <<e>>' does.
LEMMA AppendedOne ==
    ASSUME NEW log \in Seq(WatchEvent), NEW e \in WatchEvent
    PROVE  Extends(log, log \o <<e>>, e)
BY DEF Extends

\* Two events are appended one after the other.
LEMMA AppendedTwo ==
    ASSUME NEW log \in Seq(WatchEvent), NEW d \in WatchEvent, NEW e \in WatchEvent
    PROVE  Extends(log \o <<d>>, log \o <<d, e>>, e)
BY DEF Extends

\* The status replays from the log if the new event sets it, ...
LEMMA StatusSet ==
    ASSUME NEW log, NEW new, NEW e \in WatchEvent, Extends(log, new, e), NEW sub, sub # None,
           e.type \in StatusType, sub.status = StatusOf(e.type)
    PROVE  StatusReplays(sub, new)
<1>1. IsLast(new, Len(log) + 1, StatusType)
  BY DEF Extends, IsLast
<1>2. new[Len(new)].type \notin RemovalType
  BY DEF Extends, StatusType, RemovalType
<1> QED BY <1>1, <1>2 DEF StatusReplays, Extends

\* ... or leaves it alone,
LEMMA StatusKept ==
    ASSUME NEW log, NEW new, NEW e \in WatchEvent, Extends(log, new, e),
           NEW old, NEW sub, old # None, sub # None, StatusReplays(old, log),
           e.type \notin StatusType \cup RemovalType, sub.status = old.status
    PROVE  StatusReplays(sub, new)
<1>1. PICK i \in DOMAIN log : IsLast(log, i, StatusType) /\ old.status = StatusOf(log[i].type)
  BY DEF StatusReplays
<1>2. IsLast(new, i, StatusType) /\ new[i] = log[i]
  BY <1>1 DEF IsLast, Extends
<1> QED BY <1>1, <1>2 DEF StatusReplays, Extends

\* ... and an unregistered or deleted watch is gone.
LEMMA StatusGone ==
    ASSUME NEW log, NEW new, NEW e \in WatchEvent, Extends(log, new, e), e.type \in RemovalType
    PROVE  StatusReplays(None, new)
BY DEF StatusReplays, Extends

\* The last execution: an executed event sets it, ...
LEMMA LastSet ==
    ASSUME NEW log, NEW new, NEW e \in WatchEvent, Extends(log, new, e),
           NEW sub, e.type = "executed", sub.last = e.at
    PROVE  LastReplays(sub, new)
<1>1. IsLast(new, Len(log) + 1, {"executed"}) /\ Current(new, Len(log) + 1)
  BY DEF IsLast, Current, Extends
<1>2. new[Len(log) + 1].type = "executed" /\ new[Len(log) + 1].at = sub.last
  BY DEF Extends
<1>3. Len(log) + 1 \in DOMAIN new
  BY DEF Extends
<1> QED BY <1>1, <1>2, <1>3 DEF LastReplays

\* ... a registration starts without one, ...
LEMMA LastUnset ==
    ASSUME NEW log, NEW new, NEW e \in WatchEvent, Extends(log, new, e),
           NEW sub, e.type = "registered", sub.last = None
    PROVE  LastReplays(sub, new)
<1>1. \A i \in DOMAIN new : Current(new, i) => new[i].type = "registered"
  BY DEF Current, Extends
<1> QED BY <1>1 DEF LastReplays

\* ... any other event leaves it alone.
LEMMA LastKept ==
    ASSUME NEW log, NEW new, NEW e \in WatchEvent, Extends(log, new, e),
           NEW old, NEW sub, old # None, LastReplays(old, log),
           e.type \notin {"executed", "registered"}, sub.last = old.last
    PROVE  LastReplays(sub, new)
<1>1. \A i \in DOMAIN log : Current(new, i) <=> Current(log, i)
  BY DEF Current, Extends
<1>2. \A i \in DOMAIN new : new[i].type = "executed" => i \in DOMAIN log /\ new[i] = log[i]
  BY DEF Extends
<1>3. \A i \in DOMAIN log : IsLast(new, i, {"executed"}) <=> IsLast(log, i, {"executed"})
  BY DEF IsLast, Extends
<1>4. DOMAIN log \subseteq DOMAIN new /\ \A i \in DOMAIN log : new[i] = log[i]
  BY DEF Extends
<1>5. CASE \E i \in DOMAIN log : Current(log, i) /\ log[i].type = "executed"
  <2>1. \E i \in DOMAIN new : Current(new, i) /\ new[i].type = "executed"
    BY <1>1, <1>4, <1>5
  <2>2. \E i \in DOMAIN log : IsLast(log, i, {"executed"}) /\ old.last = log[i].at
    BY <1>5 DEF LastReplays
  <2>3. \E i \in DOMAIN new : IsLast(new, i, {"executed"}) /\ sub.last = new[i].at
    BY <2>2, <1>3, <1>4
  <2> QED BY <2>1, <2>3 DEF LastReplays
<1>6. CASE ~ \E i \in DOMAIN log : Current(log, i) /\ log[i].type = "executed"
  <2>1. ~ \E i \in DOMAIN new : Current(new, i) /\ new[i].type = "executed"
    BY <1>1, <1>2, <1>6
  <2>2. sub.last = None
    BY <1>6 DEF LastReplays
  <2> QED BY <2>1, <2>2 DEF LastReplays
<1> QED BY <1>5, <1>6

\* The baseline: a registration's log holds no report yet, ...
LEMMA BaselineFresh ==
    ASSUME NEW log, NEW new, NEW e \in WatchEvent, Extends(log, new, e),
           NEW sub, e.type = "registered", ~Truthy(e.scan)
    PROVE  BaselineTaken(sub, new)
<1>1. \A i \in DOMAIN new : Current(new, i) => new[i] = e
  BY DEF Current, Extends
<1> QED BY <1>1 DEF BaselineTaken

\* ... and later events need a baseline only if they bring a report.
LEMMA BaselineStays ==
    ASSUME NEW log, NEW new, NEW e \in WatchEvent, Extends(log, new, e),
           NEW old, NEW sub, old # None, BaselineTaken(old, log), e.type # "registered",
           Truthy(old.baseline) \/ Truthy(e.scan) => Truthy(sub.baseline)
    PROVE  BaselineTaken(sub, new)
<1>1. \A i \in DOMAIN log : Current(new, i) <=> Current(log, i)
  BY DEF Current, Extends
<1>2. \A i \in DOMAIN new : (i \in DOMAIN log /\ new[i] = log[i]) \/ new[i] = e
  BY DEF Extends
<1> QED BY <1>1, <1>2 DEF BaselineTaken

-----------------------------------------------------------------------------
(* The operations, on one watch.                                           *)

\* Next execution times are times, after the one they are reckoned from.
LEMMA NextTyped ==
    ASSUME NEW schedule \in Schedules, NEW reference \in Nat
    PROVE  /\ NextExecution(schedule, reference) \in TimeOrNone
           /\ NextExecution(schedule, reference) # None => reference < NextExecution(schedule, reference)
<1>1. CASE schedule \in DOMAIN Interval
  <2>1. Interval[schedule] \in Nat \ {0}
    BY <1>1, WatchAssumption
  <2> QED BY <1>1, <2>1 DEF NextExecution, TimeOrNone
<1>2. CASE schedule \notin DOMAIN Interval
  BY <1>2 DEF NextExecution, TimeOrNone
<1> QED BY <1>1, <1>2

\* The fields of a subscription.
LEMMA Fields ==
    ASSUME NEW sub \in WatchSubscription
    PROVE  /\ sub # None
           /\ sub.status \in WatchStatus /\ sub.schedule \in Schedules
           /\ sub.baseline \in Reports
           /\ sub.last \in TimeOrNone /\ sub.next \in TimeOrNone
BY NoneAssumption DEF WatchSubscription

LEMMA MovedFields ==
    ASSUME NEW sub \in WatchSubscription, NEW status \in WatchStatus, clock \in Nat
    PROVE  LET new == Moved(sub, status)
           IN  /\ new \in WatchSubscription
               /\ new.status = status /\ new.schedule = sub.schedule
               /\ new.baseline = sub.baseline /\ new.last = sub.last
               /\ new.next = IF status = "enabled" THEN NextExecution(sub.schedule, clock) ELSE None
<1> DEFINE next == IF status = "enabled" THEN NextExecution(sub.schedule, clock) ELSE None
<1>1. next \in TimeOrNone
  BY Fields, NextTyped DEF TimeOrNone
<1> HIDE DEF next
<1>2. LET new == [sub EXCEPT !.status = status, !.next = next]
      IN  /\ new \in WatchSubscription
          /\ new.status = status /\ new.schedule = sub.schedule
          /\ new.baseline = sub.baseline /\ new.last = sub.last
          /\ new.next = next
  BY <1>1 DEF WatchSubscription
<1> QED BY <1>2 DEF Moved, next

LEMMA ReconfiguredFields ==
    ASSUME NEW sub \in WatchSubscription, NEW schedule \in Schedules, clock \in Nat
    PROVE  LET new == Reconfigured(sub, schedule)
           IN  /\ new \in WatchSubscription
               /\ new.status = sub.status /\ new.schedule = schedule
               /\ new.baseline = sub.baseline /\ new.last = sub.last
               /\ new.next = IF sub.status = "enabled" THEN NextExecution(schedule, clock) ELSE None
<1> DEFINE next == IF sub.status = "enabled" THEN NextExecution(schedule, clock) ELSE None
<1>1. next \in TimeOrNone
  BY NextTyped DEF TimeOrNone
<1> HIDE DEF next
<1>2. LET new == [sub EXCEPT !.schedule = schedule, !.next = next]
      IN  /\ new \in WatchSubscription
          /\ new.status = sub.status /\ new.schedule = schedule
          /\ new.baseline = sub.baseline /\ new.last = sub.last
          /\ new.next = next
  BY <1>1 DEF WatchSubscription
<1> QED BY <1>2 DEF Reconfigured, next

LEMMA ExecutedFields ==
    ASSUME NEW sub \in WatchSubscription, NEW at \in Nat, NEW scan \in Reports
    PROVE  LET new == Executed(sub, at, scan)
           IN  /\ new \in WatchSubscription
               /\ new.status = sub.status /\ new.schedule = sub.schedule
               /\ new.baseline = IF Truthy(sub.baseline) THEN sub.baseline ELSE scan
               /\ new.last = at
               /\ new.next = IF sub.status = "enabled" THEN NextExecution(sub.schedule, at) ELSE sub.next
<1> DEFINE next == IF sub.status = "enabled" THEN NextExecution(sub.schedule, at) ELSE sub.next
           baseline == IF Truthy(sub.baseline) THEN sub.baseline ELSE scan
<1>1. next \in TimeOrNone /\ at \in TimeOrNone /\ baseline \in Reports
  BY Fields, NextTyped DEF TimeOrNone
<1> HIDE DEF next, baseline
<1>2. LET new == [sub EXCEPT !.baseline = baseline, !.last = at, !.next = next]
      IN  /\ new \in WatchSubscription
          /\ new.status = sub.status /\ new.schedule = sub.schedule
          /\ new.baseline = baseline /\ new.last = at
          /\ new.next = next
  BY <1>1 DEF WatchSubscription
<1> QED BY <1>2 DEF Executed, next, baseline

LEMMA NewFields ==
    ASSUME NEW schedule \in Schedules, NEW baseline \in Reports, clock \in Nat
    PROVE  LET new == NewSubscription(schedule, baseline)
           IN  /\ new \in WatchSubscription
               /\ new.status = "enabled" /\ new.schedule = schedule
               /\ new.last = None
               /\ new.next = NextExecution(schedule, clock)
BY NextTyped DEF NewSubscription, WatchSubscription, WatchStatus, TimeOrNone

\* A log that is not empty ends in an event.
LEMMA LogEnd ==
    ASSUME NEW log \in Seq(WatchEvent), log # <<>>
    PROVE  /\ Len(log) \in DOMAIN log
           /\ log[Len(log)].at \in Nat
<1>1. Len(log) \in 1 .. Len(log) /\ DOMAIN log = 1 .. Len(log)
  OBVIOUS
<1>2. log[Len(log)] \in WatchEvent
  BY <1>1
<1> QED BY <1>1, <1>2 DEF WatchEvent

\* A watch in order was executed in the past.
LEMMA LastInPast ==
    ASSUME NEW sub \in WatchSubscription, NEW log \in Seq(WatchEvent), NEW now \in Nat,
           WatchOK(sub, log, now), sub.last # None
    PROVE  sub.last \in Nat /\ sub.last <= now
<1>1. log # <<>>
  BY Fields DEF WatchOK, StatusReplays
<1>2. log[Len(log)].at \in Nat /\ log[Len(log)].at <= now
  BY <1>1, LogEnd DEF WatchOK
<1>3. sub.last \in Nat /\ sub.last <= log[Len(log)].at
  BY Fields DEF WatchOK, TimeOrNone
<1> QED BY <1>2, <1>3

\* Time does a watch no harm.
LEMMA LaterOK ==
    ASSUME NEW sub, NEW log \in Seq(WatchEvent), NEW now \in Nat, NEW later \in Nat,
           now <= later, WatchOK(sub, log, now)
    PROVE  WatchOK(sub, log, later)
<1>1. log # <<>> => log[Len(log)].at <= later
  <2>1. SUFFICES ASSUME log # <<>> PROVE log[Len(log)].at <= later
    OBVIOUS
  <2> QED BY <2>1, LogEnd DEF WatchOK
<1> QED BY <1>1 DEF WatchOK

\* Every operation hands the next one a watch in order.
LEMMA MovedOK ==
    ASSUME NEW sub \in WatchSubscription, NEW log \in Seq(WatchEvent), clock \in Nat,
           WatchOK(sub, log, clock), NEW status \in WatchStatus,
           NEW type \in StatusType \ {"registered"}, status = StatusOf(type),
           NEW new, Extends(log, new, Event(type, clock))
    PROVE  WatchOK(Moved(sub, status), new, clock)
<1> DEFINE e == Event(type, clock)
           moved == Moved(sub, status)
<1>1. /\ e \in WatchEvent
      /\ e.type = type /\ e.at = clock /\ e.scan = None
  BY DEF Event, WatchEvent, WatchEventType, Reports
<1>2. /\ moved \in WatchSubscription
      /\ moved.status = status /\ moved.schedule = sub.schedule
      /\ moved.baseline = sub.baseline /\ moved.last = sub.last
      /\ moved.next = IF status = "enabled" THEN NextExecution(sub.schedule, clock) ELSE None
  BY MovedFields
<1> HIDE DEF e, moved
<1>3. sub # None /\ moved # None
  BY <1>2, Fields
<1>4. ~Truthy(e.scan)
  BY <1>1, WatchAssumption DEF Truthy
<1>5. StatusReplays(moved, new)
  BY <1>1, <1>2, <1>3, StatusSet DEF e
<1>6. LastReplays(moved, new)
  BY <1>1, <1>2, <1>3, LastKept DEF e, WatchOK, StatusType
<1>7. BaselineTaken(moved, new)
  BY <1>1, <1>2, <1>3, <1>4, BaselineStays DEF e, WatchOK
<1>8. new[Len(new)].at = clock
  BY <1>1 DEF Extends, e
<1>9. NextFollows(moved, new)
  BY <1>2, <1>8 DEF NextFollows
<1>10. sub.last # None => sub.last \in Nat /\ sub.last <= clock
  BY LastInPast
<1> QED BY <1>2, <1>5, <1>6, <1>7, <1>8, <1>9, <1>10 DEF WatchOK, moved
LEMMA ReconfiguredOK ==
    ASSUME NEW sub \in WatchSubscription, NEW log \in Seq(WatchEvent), clock \in Nat,
           WatchOK(sub, log, clock), NEW schedule \in Schedules,
           NEW new, Extends(log, new, Event("config_updated", clock))
    PROVE  WatchOK(Reconfigured(sub, schedule), new, clock)
<1> DEFINE e == Event("config_updated", clock)
           after == Reconfigured(sub, schedule)
<1>1. /\ e \in WatchEvent
      /\ e.type = "config_updated" /\ e.at = clock /\ e.scan = None
  BY DEF Event, WatchEvent, WatchEventType, Reports
<1>2. /\ after \in WatchSubscription
      /\ after.status = sub.status /\ after.schedule = schedule
      /\ after.baseline = sub.baseline /\ after.last = sub.last
      /\ after.next = IF sub.status = "enabled" THEN NextExecution(schedule, clock) ELSE None
  BY ReconfiguredFields
<1> HIDE DEF e, after
<1>3. sub # None /\ after # None
  BY <1>2, Fields
<1>4. ~Truthy(e.scan)
  BY <1>1, WatchAssumption DEF Truthy
<1>5. StatusReplays(after, new)
  BY <1>1, <1>2, <1>3, StatusKept DEF e, WatchOK, StatusType, RemovalType
<1>6. LastReplays(after, new)
  BY <1>1, <1>2, <1>3, LastKept DEF e, WatchOK
<1>7. BaselineTaken(after, new)
  BY <1>1, <1>2, <1>3, <1>4, BaselineStays DEF e, WatchOK
<1>8. new[Len(new)].at = clock
  BY <1>1 DEF Extends, e
<1>9. NextFollows(after, new)
  BY <1>2, <1>8 DEF NextFollows
<1>10. sub.last # None => sub.last \in Nat /\ sub.last <= clock
  BY LastInPast
<1> QED BY <1>2, <1>5, <1>6, <1>7, <1>8, <1>9, <1>10 DEF WatchOK, after

LEMMA ExecutedOK ==
    ASSUME NEW sub \in WatchSubscription, NEW log \in Seq(WatchEvent), clock \in Nat,
           WatchOK(sub, log, clock), NEW at \in Nat, at <= clock, NEW scan \in Reports,
           NEW e \in WatchEvent, e.type = "executed", e.at = at,
           Truthy(e.scan) => Truthy(scan),
           NEW new, Extends(log, new, e)
    PROVE  WatchOK(Executed(sub, at, scan), new, clock)
<1> DEFINE after == Executed(sub, at, scan)
<1>1. /\ after \in WatchSubscription
      /\ after.status = sub.status /\ after.schedule = sub.schedule
      /\ after.baseline = IF Truthy(sub.baseline) THEN sub.baseline ELSE scan
      /\ after.last = at
      /\ after.next = IF sub.status = "enabled" THEN NextExecution(sub.schedule, at) ELSE sub.next
  BY ExecutedFields
<1> HIDE DEF after
<1>2. sub # None /\ after # None
  BY <1>1, Fields
<1>3. StatusReplays(after, new)
  BY <1>1, <1>2, StatusKept DEF WatchOK, StatusType, RemovalType
<1>4. LastReplays(after, new)
  BY <1>1, LastSet
<1>5. BaselineTaken(after, new)
  BY <1>1, <1>2, BaselineStays DEF WatchOK
<1>6. new[Len(new)].at = at
  BY DEF Extends
<1>7. sub.status # "enabled" => sub.next = None
  BY <1>2 DEF WatchOK, NextFollows
<1>8. NextFollows(after, new)
  BY <1>1, <1>6, <1>7 DEF NextFollows
<1> QED BY <1>1, <1>3, <1>4, <1>5, <1>6, <1>8 DEF WatchOK, after

LEMMA RemovedOK ==
    ASSUME NEW log, clock \in Nat, NEW type \in RemovalType,
           NEW new, Extends(log, new, Event(type, clock))
    PROVE  WatchOK(None, new, clock)
<1> DEFINE e == Event(type, clock)
<1>1. e \in WatchEvent /\ e.type = type /\ e.at = clock
  BY DEF Event, WatchEvent, WatchEventType, Reports
<1>2. StatusReplays(None, new)
  BY <1>1, StatusGone
<1>3. new[Len(new)].at = clock
  BY <1>1 DEF Extends
<1> QED BY <1>2, <1>3 DEF WatchOK, LastReplays, NextFollows, BaselineTaken

\* A registered event makes a watch in order of a new subscription, ...
LEMMA NewOK ==
    ASSUME NEW schedule \in Schedules, NEW baseline \in Reports, clock \in Nat,
           NEW log, NEW new, Extends(log, new, Event("registered", clock))
    PROVE  WatchOK(NewSubscription(schedule, baseline), new, clock)
<1> DEFINE e == Event("registered", clock)
           sub == NewSubscription(schedule, baseline)
<1>1. /\ e \in WatchEvent
      /\ e.type = "registered" /\ e.at = clock /\ e.scan = None
  BY DEF Event, WatchEvent, WatchEventType, StatusType, Reports
<1>2. /\ sub \in WatchSubscription
      /\ sub.status = "enabled" /\ sub.schedule = schedule
      /\ sub.last = None
      /\ sub.next = NextExecution(schedule, clock)
  BY NewFields
<1> HIDE DEF e, sub
<1>3. sub # None
  BY <1>2, Fields
<1>4. ~Truthy(e.scan)
  BY <1>1, WatchAssumption DEF Truthy
<1>5. StatusReplays(sub, new)
  BY <1>1, <1>2, <1>3, StatusSet DEF e, StatusType, StatusOf
<1>6. LastReplays(sub, new)
  BY <1>1, <1>2, LastUnset DEF e
<1>7. BaselineTaken(sub, new)
  BY <1>1, <1>4, BaselineFresh DEF e
<1>8. new[Len(new)].at = clock
  BY <1>1 DEF Extends, e
<1>9. NextFollows(sub, new)
  BY <1>2, <1>8 DEF NextFollows
<1> QED BY <1>2, <1>5, <1>6, <1>7, <1>8, <1>9 DEF WatchOK, sub

\* ... and the scheduled event that may follow leaves it in order.
LEMMA ScheduledOK ==
    ASSUME NEW sub \in WatchSubscription, NEW log \in Seq(WatchEvent), clock \in Nat,
           WatchOK(sub, log, clock), log # <<>>, log[Len(log)].at = clock,
           NEW new, Extends(log, new, Event("scheduled", clock))
    PROVE  WatchOK(sub, new, clock)
<1> DEFINE e == Event("scheduled", clock)
<1>1. /\ e \in WatchEvent
      /\ e.type = "scheduled" /\ e.at = clock /\ e.scan = None
  BY DEF Event, WatchEvent, WatchEventType, Reports
<1> HIDE DEF e
<1>2. sub # None /\ ~Truthy(e.scan)
  BY <1>1, Fields, WatchAssumption DEF Truthy
<1>3. StatusReplays(sub, new)
  BY <1>1, <1>2, StatusKept DEF e, WatchOK, StatusType, RemovalType
<1>4. LastReplays(sub, new)
  BY <1>1, <1>2, LastKept DEF e, WatchOK
<1>5. BaselineTaken(sub, new)
  BY <1>1, <1>2, BaselineStays DEF e, WatchOK
<1>6. new[Len(new)].at = clock
  BY <1>1 DEF Extends, e
<1>7. NextFollows(sub, new)
  BY <1>6 DEF WatchOK, NextFollows
<1> QED BY <1>3, <1>4, <1>5, <1>6, <1>7 DEF WatchOK

-----------------------------------------------------------------------------
(* The registry.                                                           *)

Inv == TypeOK /\ RegistryInv

\* An operation that leaves its watch in order leaves the registry in order.
LEMMA SaveStep ==
    ASSUME Inv, NEW w \in Watches, NEW sub \in WatchSubscription \cup {None},
           NEW new \in Seq(WatchEvent), new # <<>>, Save(w, sub, new),
           WatchOK(sub, events[w] \o new, clock)
    PROVE  Inv'
<1>1. /\ clock \in Time
      /\ subs \in [Watches -> WatchSubscription \cup {None}]
      /\ events \in [Watches -> Seq(WatchEvent)]
      /\ saved \in [subs : [Watches -> WatchSubscription \cup {None}],
                    events : [Watches -> Seq(WatchEvent)]]
  BY DEF Inv, TypeOK
<1>2. /\ subs' = [subs EXCEPT ![w] = sub]
      /\ events' = [events EXCEPT ![w] = events[w] \o new]
      /\ clock' = clock /\ saved' = saved
  BY DEF Save
<1>3. events[w] \o new \in Seq(WatchEvent) /\ Len(events[w] \o new) > Len(events[w])
  BY <1>1
<1>4. TypeOK'
  BY <1>1, <1>2, <1>3 DEF TypeOK
<1>5. \A v \in Watches : WatchOK(subs[v], events[v], clock)'
  <2>1. SUFFICES ASSUME NEW v \in Watches PROVE WatchOK(subs'[v], events'[v], clock)
    BY <1>2
  <2>2. CASE v = w
    BY <1>1, <1>2, <2>2
  <2>3. CASE v # w
    BY <1>1, <1>2, <2>3 DEF Inv, RegistryInv
  <2> QED BY <2>2, <2>3
<1>6. \A v \in Watches : WatchOK(saved.subs[v], saved.events[v], clock)'
  BY <1>2 DEF Inv, RegistryInv
<1>7. SavedIsPast'
  <2>1. SUFFICES ASSUME NEW v \in Watches
                 PROVE  /\ Len(saved.events[v]) <= Len(events'[v])
                        /\ Len(saved.events[v]) = Len(events'[v]) => saved.subs[v] = subs'[v]
    BY <1>2 DEF SavedIsPast
  <2>2. /\ Len(saved.events[v]) <= Len(events[v])
        /\ Len(saved.events[v]) = Len(events[v]) => saved.subs[v] = subs[v]
    BY DEF Inv, RegistryInv, SavedIsPast
  <2>3. CASE v = w
    <3>1. saved.events[w] \in Seq(WatchEvent) /\ events[w] \in Seq(WatchEvent)
      BY <1>1
    <3>2. Len(saved.events[w]) \in Nat /\ Len(events[w]) \in Nat /\ Len(events[w] \o new) \in Nat
      BY <3>1, <1>3
    <3>3. events'[v] = events[w] \o new
      BY <1>1, <1>2, <2>3
    <3> QED BY <1>3, <2>2, <2>3, <3>2, <3>3
  <2>4. CASE v # w
    BY <1>1, <1>2, <2>2, <2>4
  <2> QED BY <2>3, <2>4
<1> QED BY <1>4, <1>5, <1>6, <1>7 DEF Inv, RegistryInv

\* What an operation finds: a subscription and a log of events, in order.
LEMMA Found ==
    ASSUME Inv, NEW w \in Watches
    PROVE  /\ clock \in Nat
           /\ events[w] \in Seq(WatchEvent)
           /\ WatchOK(subs[w], events[w], clock)
           /\ Registered(w) => subs[w] \in WatchSubscription
BY DEF Inv, TypeOK, RegistryInv, Registered, Time

LEMMA RegisterStep ==
    ASSUME Inv, NEW w \in Watches, NEW schedule \in Schedules, NEW baseline \in Reports,
           Register(w, schedule, baseline)
    PROVE  Inv'
<1> DEFINE sub == NewSubscription(schedule, baseline)
           d == Event("registered", clock)
           e == Event("scheduled", clock)
           log == events[w]
<1>1. clock \in Nat /\ log \in Seq(WatchEvent)
  BY Found
<1>2. d \in WatchEvent /\ e \in WatchEvent /\ d.at = clock
  BY <1>1 DEF Event, WatchEvent, WatchEventType, StatusType, Reports
<1>3. sub \in WatchSubscription
  BY <1>1, NewFields
<1>4. Extends(log, log \o <<d>>, d)
  BY <1>1, <1>2, AppendedOne
<1>5. WatchOK(sub, log \o <<d>>, clock)
  BY <1>1, <1>4, NewOK
<1>6. CASE sub.next = None
  <2>1. Save(w, sub, <<d>>)
    BY <1>6 DEF Register
  <2>2. <<d>> \in Seq(WatchEvent) /\ <<d>> # <<>>
    BY <1>2
  <2> HIDE DEF sub, d
  <2> QED BY <1>3, <1>5, <2>1, <2>2, SaveStep
<1>7. CASE sub.next # None
  <2>1. Save(w, sub, <<d, e>>)
    BY <1>7 DEF Register
  <2>2. <<d, e>> \in Seq(WatchEvent) /\ <<d, e>> # <<>>
    BY <1>2
  <2>3. Extends(log \o <<d>>, log \o <<d, e>>, e)
    BY <1>1, <1>2, AppendedTwo
  <2>4. /\ log \o <<d>> \in Seq(WatchEvent) /\ log \o <<d>> # <<>>
        /\ (log \o <<d>>)[Len(log \o <<d>>)].at = clock
    BY <1>2, <1>4 DEF Extends
  <2>5. WatchOK(sub, log \o <<d, e>>, clock)
    BY <1>1, <1>3, <1>5, <2>3, <2>4, ScheduledOK
  <2> HIDE DEF sub, d, e
  <2> QED BY <1>3, <2>1, <2>2, <2>5, SaveStep
<1> QED BY <1>6, <1>7

LEMMA RemoveStep ==
    ASSUME Inv, NEW w \in Watches, NEW type \in RemovalType, Remove(w, type)
    PROVE  Inv'
<1> DEFINE e == Event(type, clock)
<1>1. clock \in Nat /\ events[w] \in Seq(WatchEvent)
  BY Found
<1>2. e \in WatchEvent
  BY <1>1 DEF Event, WatchEvent, WatchEventType, Reports
<1>3. WatchOK(None, events[w] \o <<e>>, clock)
  BY <1>1, <1>2, AppendedOne, RemovedOK
<1>4. Save(w, None, <<e>>) /\ <<e>> \in Seq(WatchEvent) /\ <<e>> # <<>>
  BY <1>2 DEF Remove
<1> HIDE DEF e
<1> QED BY <1>3, <1>4, SaveStep

LEMMA UpdateStep ==
    ASSUME Inv, NEW w \in Watches, NEW schedule \in Schedules, UpdateConfiguration(w, schedule)
    PROVE  Inv'
<1> DEFINE e == Event("config_updated", clock)
           sub == Reconfigured(subs[w], schedule)
<1>1. /\ clock \in Nat /\ events[w] \in Seq(WatchEvent)
      /\ subs[w] \in WatchSubscription /\ WatchOK(subs[w], events[w], clock)
  BY Found DEF UpdateConfiguration
<1>2. e \in WatchEvent
  BY <1>1 DEF Event, WatchEvent, WatchEventType, Reports
<1>3. WatchOK(sub, events[w] \o <<e>>, clock)
  BY <1>1, <1>2, AppendedOne, ReconfiguredOK
<1>4. sub \in WatchSubscription
  BY <1>1, ReconfiguredFields
<1>5. Save(w, sub, <<e>>) /\ <<e>> \in Seq(WatchEvent) /\ <<e>> # <<>>
  BY <1>2 DEF UpdateConfiguration
<1> HIDE DEF e, sub
<1> QED BY <1>3, <1>4, <1>5, SaveStep

LEMMA ExecutionStep ==
    ASSUME Inv, NEW w \in Watches, NEW at \in Time, NEW scan \in Reports,
           RecordExecution(w, at, scan)
    PROVE  Inv'
<1> DEFINE e == [type |-> "executed", at |-> at, scan |-> IF Truthy(scan) THEN scan ELSE EmptyScan]
           sub == Executed(subs[w], at, scan)
<1>1. /\ clock \in Nat /\ events[w] \in Seq(WatchEvent)
      /\ subs[w] \in WatchSubscription /\ WatchOK(subs[w], events[w], clock)
  BY Found DEF RecordExecution
<1>2. at \in Nat /\ at <= clock
  BY DEF RecordExecution, Time
<1>3. /\ e \in WatchEvent /\ e.type = "executed" /\ e.at = at
      /\ Truthy(e.scan) => Truthy(scan)
  BY <1>2, WatchAssumption DEF WatchEvent, WatchEventType, Reports, Truthy
<1>4. sub \in WatchSubscription
  BY <1>1, <1>2, ExecutedFields
<1>5. Save(w, sub, <<e>>) /\ <<e>> \in Seq(WatchEvent) /\ <<e>> # <<>>
  BY <1>3 DEF RecordExecution
<1> HIDE DEF e
<1>6. WatchOK(sub, events[w] \o <<e>>, clock)
  BY <1>1, <1>2, <1>3, AppendedOne, ExecutedOK
<1> HIDE DEF sub
<1> QED BY <1>4, <1>5, <1>6, SaveStep

LEMMA TransitionStep ==
    ASSUME Inv, NEW w \in Watches, NEW status \in WatchStatus,
           NEW type \in StatusType \ {"registered"}, status = StatusOf(type),
           Transition(w, status, type)
    PROVE  Inv'
<1> DEFINE e == Event(type, clock)
           sub == Moved(subs[w], status)
<1>1. /\ clock \in Nat /\ events[w] \in Seq(WatchEvent)
      /\ subs[w] \in WatchSubscription /\ WatchOK(subs[w], events[w], clock)
  BY Found DEF Transition
<1>2. e \in WatchEvent
  BY <1>1 DEF Event, WatchEvent, WatchEventType, Reports
<1>3. WatchOK(sub, events[w] \o <<e>>, clock)
  BY <1>1, <1>2, AppendedOne, MovedOK
<1>4. sub \in WatchSubscription
  BY <1>1, MovedFields
<1>5. Save(w, sub, <<e>>) /\ <<e>> \in Seq(WatchEvent) /\ <<e>> # <<>>
  BY <1>2 DEF Transition
<1> HIDE DEF e, sub
<1> QED BY <1>3, <1>4, <1>5, SaveStep

\* Time, dumps and restarts leave the registry in order.
LEMMA WorldStep ==
    ASSUME Inv, Tick \/ Dump \/ Restart
    PROVE  Inv'
<1>1. /\ clock \in Time
      /\ subs \in [Watches -> WatchSubscription \cup {None}]
      /\ events \in [Watches -> Seq(WatchEvent)]
      /\ saved \in [subs : [Watches -> WatchSubscription \cup {None}],
                    events : [Watches -> Seq(WatchEvent)]]
  BY DEF Inv, TypeOK
<1>2. CASE Tick
  <2>1. clock \in Nat /\ clock' \in Nat /\ clock <= clock' /\ clock' \in Time
    BY <1>1, <1>2, WatchAssumption DEF Tick, Time
  <2>2. subs' = subs /\ events' = events /\ saved' = saved
    BY <1>2 DEF Tick
  <2>3. \A w \in Watches : WatchOK(subs[w], events[w], clock')
    BY <1>1, <2>1, LaterOK DEF Inv, RegistryInv
  <2>4. \A w \in Watches : WatchOK(saved.subs[w], saved.events[w], clock')
    <3>1. SUFFICES ASSUME NEW w \in Watches
                   PROVE  WatchOK(saved.subs[w], saved.events[w], clock')
      OBVIOUS
    <3>2. saved.events[w] \in Seq(WatchEvent)
      BY <1>1
    <3> QED BY <2>1, <3>2, LaterOK DEF Inv, RegistryInv
  <2>5. TypeOK'
    BY <1>1, <2>1, <2>2 DEF TypeOK
  <2> QED BY <2>2, <2>3, <2>4, <2>5 DEF Inv, RegistryInv, SavedIsPast
<1>3. CASE Dump
  <2>1. /\ clock' = clock /\ subs' = subs /\ events' = events
        /\ saved' = [subs |-> subs, events |-> events]
    BY <1>3 DEF Dump, DumpStore
  <2>2. saved'.subs = subs /\ saved'.events = events
    BY <2>1
  <2>3. TypeOK'
    BY <1>1, <2>1 DEF TypeOK
  <2>4. SavedIsPast'
    BY <1>1, <2>1, <2>2 DEF SavedIsPast
  <2> QED BY <2>1, <2>2, <2>3, <2>4 DEF Inv, RegistryInv
<1>4. CASE Restart
  <2>1. clock' = clock /\ subs' = saved.subs /\ events' = saved.events /\ saved' = saved
    BY <1>4 DEF Restart
  <2>2. TypeOK'
    BY <1>1, <2>1 DEF TypeOK
  <2>3. SavedIsPast'
    BY <1>1, <2>1 DEF SavedIsPast
  <2> QED BY <2>1, <2>2, <2>3 DEF Inv, RegistryInv
<1> QED BY <1>2, <1>3, <1>4

\* The registry and its dump are in order in every reachable state.
THEOREM RegistryInvariant == Spec => []Inv
<1>1. Init => Inv
  <2>1. SUFFICES ASSUME Init PROVE Inv
    OBVIOUS
  <2>2. TypeOK
    BY <2>1, WatchAssumption DEF Init, TypeOK, Time
  <2>3. WatchOK(None, <<>>, clock)
    BY DEF WatchOK, StatusReplays, LastReplays, NextFollows, BaselineTaken
  <2>4. \A w \in Watches : /\ subs[w] = None /\ events[w] = <<>>
                           /\ saved.subs[w] = None /\ saved.events[w] = <<>>
    BY <2>1 DEF Init
  <2> QED BY <2>2, <2>3, <2>4 DEF Inv, RegistryInv, SavedIsPast
<1>2. Inv /\ [Next]_vars => Inv'
  <2>1. SUFFICES ASSUME Inv, [Next]_vars PROVE Inv'
    OBVIOUS
  <2>2. CASE Tick \/ Dump \/ Restart
    BY <2>1, <2>2, WorldStep
  <2>3. ASSUME NEW w \in Watches, NEW schedule \in Schedules, NEW baseline \in Reports,
               Register(w, schedule, baseline)
        PROVE  Inv'
    BY <2>1, <2>3, RegisterStep
  <2>4. ASSUME NEW w \in Watches, NEW type \in RemovalType, Remove(w, type)
        PROVE  Inv'
    BY <2>1, <2>4, RemoveStep
  <2>5. ASSUME NEW w \in Watches, NEW schedule \in Schedules, UpdateConfiguration(w, schedule)
        PROVE  Inv'
    BY <2>1, <2>5, UpdateStep
  <2>6. ASSUME NEW w \in Watches, NEW at \in Time, NEW scan \in Reports,
               RecordExecution(w, at, scan)
        PROVE  Inv'
    BY <2>1, <2>6, ExecutionStep
  <2>7. ASSUME NEW w \in Watches, Enable(w) \/ Disable(w) \/ Pause(w) \/ Resume(w)
        PROVE  Inv'
    BY <2>1, <2>7, TransitionStep
    DEF Enable, Disable, Pause, Resume, StatusType, StatusOf, WatchStatus
  <2>8. CASE UNCHANGED vars
    BY <2>1, <2>8 DEF vars, Inv, TypeOK, RegistryInv, SavedIsPast
  <2> QED BY <2>1, <2>2, <2>3, <2>4, <2>5, <2>6, <2>7, <2>8 DEF Next
<1> QED BY <1>1, <1>2, PTL DEF Spec

-----------------------------------------------------------------------------
(* The properties.                                                         *)

\* Type correctness.
THEOREM RegistryTypes == Spec => []TypeOK
BY RegistryInvariant, PTL DEF Inv

\* Every watch's existence, status and last execution replay from its audit
\* log, re-registered or restored from a dump as it may be.
THEOREM LogAccountsForWatches == Spec => []AuditReplays
<1>1. Inv => AuditReplays
  BY DEF Inv, RegistryInv, WatchOK, AuditReplays
<1> QED BY <1>1, RegistryInvariant, PTL

\* An enabled watch is scheduled one interval after what happened to it last,
\* and no other watch is.
THEOREM SchedulesFollowLogs == Spec => []ScheduleFollowsLog
<1>1. Inv => ScheduleFollowsLog
  BY DEF Inv, RegistryInv, WatchOK, ScheduleFollowsLog
<1> QED BY <1>1, RegistryInvariant, PTL

\* A watch is due exactly when it is enabled and nothing happened to it for
\* one interval.
THEOREM DueWhenIdle == Spec => []DueAfterInterval
<1>1. Inv => DueAfterInterval
  <2>1. SUFFICES ASSUME Inv, NEW w \in Watches
                 PROVE  IsDue(w) <=>
                          /\ Registered(w)
                          /\ subs[w].status = "enabled"
                          /\ subs[w].schedule \in DOMAIN Interval
                          /\ clock >= events[w][Len(events[w])].at + Interval[subs[w].schedule]
    BY DEF DueAfterInterval
  <2>2. CASE ~Registered(w)
    BY <2>2 DEF IsDue, Registered
  <2>3. CASE Registered(w)
    <3>1. subs[w] \in WatchSubscription /\ WatchOK(subs[w], events[w], clock)
      BY <2>1, <2>3, Found
    <3>2. events[w] # <<>> /\ events[w] \in Seq(WatchEvent)
      BY <2>1, <2>3, <3>1, Found DEF WatchOK, StatusReplays, Registered
    <3>3. events[w][Len(events[w])].at \in Nat
      BY <3>2, LogEnd
    <3> DEFINE at == events[w][Len(events[w])].at
    <3>4. subs[w].status = "enabled" => subs[w].next = NextExecution(subs[w].schedule, at)
      BY <2>3, <3>1 DEF WatchOK, NextFollows, Registered
    <3>5. CASE subs[w].schedule \in DOMAIN Interval
      <4>1. Interval[subs[w].schedule] \in Nat /\ subs[w].schedule # "manual"
        BY <3>5, WatchAssumption
      <4>2. at + Interval[subs[w].schedule] # None
        BY <3>3, <4>1, WatchAssumption
      <4>3. subs[w].status = "enabled" => subs[w].next = at + Interval[subs[w].schedule]
        BY <3>4, <3>5 DEF NextExecution
      <4> QED BY <2>3, <3>5, <4>1, <4>2, <4>3 DEF IsDue, Registered
    <3>6. CASE subs[w].schedule \notin DOMAIN Interval
      BY <3>4, <3>6 DEF IsDue, NextExecution
    <3> QED BY <3>5, <3>6
  <2> QED BY <2>2, <2>3
<1> QED BY <1>1, RegistryInvariant, PTL

\* A watch is scheduled for later than the execution reported last.
THEOREM NeverBehindLastExecution == Spec => []ScheduledAfterLast
<1>1. Inv => ScheduledAfterLast
  <2>1. SUFFICES ASSUME Inv, NEW w \in Watches, subs[w] # None,
                        subs[w].next # None, subs[w].last # None
                 PROVE  subs[w].last < subs[w].next
    BY DEF ScheduledAfterLast, LastBeforeNext
  <2>2. subs[w] \in WatchSubscription /\ WatchOK(subs[w], events[w], clock)
    BY <2>1, Found DEF Registered
  <2>3. events[w] # <<>> /\ events[w] \in Seq(WatchEvent)
    BY <2>1, <2>2, Found DEF WatchOK, StatusReplays
  <2> DEFINE at == events[w][Len(events[w])].at
  <2>4. at \in Nat
    BY <2>3, LogEnd
  <2>5. subs[w].last \in Nat /\ subs[w].last <= at
    BY <2>1, <2>2, Fields DEF WatchOK, TimeOrNone
  <2>6. subs[w].next = NextExecution(subs[w].schedule, at)
    BY <2>1, <2>2 DEF WatchOK, NextFollows
  <2>7. subs[w].next \in Nat /\ at < subs[w].next
    BY <2>1, <2>2, <2>4, <2>6, Fields, NextTyped DEF TimeOrNone
  <2> HIDE DEF at
  <2> QED BY <2>4, <2>5, <2>7
<1> QED BY <1>1, RegistryInvariant, PTL

\* A watch that was executed with a report has a baseline.
THEOREM BaselinesAreTaken == Spec => []BaselineCaptured
<1>1. Inv => BaselineCaptured
  BY DEF Inv, RegistryInv, WatchOK, BaselineCaptured
<1> QED BY <1>1, RegistryInvariant, PTL

\* What BaselineKept says of a step.
KeepsBaselines ==
    \A w \in Watches :
         (/\ subs[w] # None
          /\ Truthy(subs[w].baseline)
          /\ subs'[w] # None
          /\ Len(events'[w]) >= Len(events[w]))
            => subs'[w].baseline = subs[w].baseline

\* An operation touches one watch: it is enough that it keeps that baseline.
LEMMA SaveKeeps ==
    ASSUME Inv, NEW w \in Watches, NEW sub, NEW new, Save(w, sub, new),
           subs[w] # None /\ sub # None /\ Truthy(subs[w].baseline) => sub.baseline = subs[w].baseline
    PROVE  KeepsBaselines
<1>1. subs \in [Watches -> WatchSubscription \cup {None}] /\ subs' = [subs EXCEPT ![w] = sub]
  BY DEF Inv, TypeOK, Save
<1>2. subs'[w] = sub /\ \A v \in Watches \ {w} : subs'[v] = subs[v]
  BY <1>1
<1> QED BY <1>2 DEF KeepsBaselines

\* A baseline, once taken, stays until the watch is removed.
THEOREM BaselinesAreKept == Spec => BaselineKept
<1>1. Inv /\ [Next]_vars => KeepsBaselines
  <2>1. SUFFICES ASSUME Inv, [Next]_vars PROVE KeepsBaselines
    OBVIOUS
  <2>2. CASE Tick \/ Dump \/ UNCHANGED vars
    BY <2>2 DEF Tick, Dump, vars, KeepsBaselines
  <2>3. CASE Restart
    <3>1. SUFFICES ASSUME NEW w \in Watches, Len(events'[w]) >= Len(events[w])
                   PROVE  subs'[w] = subs[w]
      BY DEF KeepsBaselines
    <3>2. subs' = saved.subs /\ events' = saved.events
      BY <2>3 DEF Restart
    <3>3. saved.events[w] \in Seq(WatchEvent) /\ events[w] \in Seq(WatchEvent)
      BY <2>1 DEF Inv, TypeOK
    <3>4. Len(saved.events[w]) \in Nat /\ Len(events[w]) \in Nat
      BY <3>3
    <3>5. /\ Len(saved.events[w]) <= Len(events[w])
          /\ Len(saved.events[w]) = Len(events[w]) => saved.subs[w] = subs[w]
      BY <2>1 DEF Inv, RegistryInv, SavedIsPast
    <3> QED BY <3>1, <3>2, <3>4, <3>5
  <2>4. ASSUME NEW w \in Watches, NEW schedule \in Schedules, NEW baseline \in Reports,
               Register(w, schedule, baseline)
        PROVE  KeepsBaselines
    BY <2>1, <2>4, SaveKeeps DEF Register, Registered
  <2>5. ASSUME NEW w \in Watches, NEW type \in RemovalType, Remove(w, type)
        PROVE  KeepsBaselines
    BY <2>1, <2>5, SaveKeeps DEF Remove
  <2>6. ASSUME NEW w \in Watches, NEW schedule \in Schedules, UpdateConfiguration(w, schedule)
        PROVE  KeepsBaselines
    BY <2>1, <2>6, SaveKeeps, Found, ReconfiguredFields DEF UpdateConfiguration
  <2>7. ASSUME NEW w \in Watches, NEW at \in Time, NEW scan \in Reports,
               RecordExecution(w, at, scan)
        PROVE  KeepsBaselines
    <3>1. subs[w] \in WatchSubscription /\ at \in Nat
      BY <2>1, <2>7, Found DEF RecordExecution, Time
    <3>2. Truthy(subs[w].baseline) => Executed(subs[w], at, scan).baseline = subs[w].baseline
      BY <3>1, ExecutedFields
    <3> QED BY <2>1, <2>7, <3>2, SaveKeeps DEF RecordExecution
  <2>8. ASSUME NEW w \in Watches, NEW status \in WatchStatus, NEW type, Transition(w, status, type)
        PROVE  KeepsBaselines
    <3>1. subs[w] \in WatchSubscription /\ clock \in Nat
      BY <2>1, <2>8, Found DEF Transition
    <3>2. Moved(subs[w], status).baseline = subs[w].baseline
      BY <3>1, MovedFields
    <3> QED BY <2>1, <2>8, <3>2, SaveKeeps DEF Transition
  <2>9. ASSUME NEW w \in Watches, Enable(w) \/ Disable(w) \/ Pause(w) \/ Resume(w)
        PROVE  KeepsBaselines
    BY <2>8, <2>9 DEF Enable, Disable, Pause, Resume, WatchStatus
  <2> QED BY <2>1, <2>2, <2>3, <2>4, <2>5, <2>6, <2>7, <2>9 DEF Next
<1>2. [][KeepsBaselines]_vars <=> BaselineKept
  BY PTL DEF KeepsBaselines, BaselineKept
<1> QED BY <1>1, <1>2, RegistryInvariant, PTL DEF Spec
=============================================================================
