# ChainSentinel in TLA+

Specifications of ChainSentinel, checked with TLC on small instances and, where stated,
proved with TLAPS for every value of the constants. Paths are relative to the
repository root.

## 1. The system

ChainSentinel analyses contracts and wallets on EVM chains. A user submits a scan in
the dashboard (`frontend/`), the API (`backend/app/api`) inserts a job and queues a
background task, the worker (`backend/app/services`) analyses the target over RPC and
stores result and risk score, and the dashboard polls until the job has an outcome.
The analysis is a chain of analyzers that ends in the risk evidence, the protocols
detected, their relationships and the threat surface. Beside it stand libraries that no
entry point of the tree calls yet: protocol discovery, the dependency graph and a
scheduler that scans the nodes of the graph in dependency order; the report drawn from
those scans; the runtime intelligence about transactions; and continuous monitoring: a
registry of watches, change detection, selective re-analysis, risk deltas, alerts and
history.

| Component | State | Operations | Hard behaviour | What makes it correct |
|---|---|---|---|---|
| Scan lifecycle (`api/v1/scans.py`, `services/scan_service.py`, `scan_tasks.py`, `scan_worker.py`) | `scan_jobs` and `scan_results` rows, one open session per task, tasks queued in memory | create, run task, commit | errors outside the `try`, commit after an exception, crash between commit and task, connection pool exhausted, RPC URL that serves another chain | readers see whole outcomes only, outcomes are final, on the chain asked for |
| Dashboard and polling (`frontend/src/hooks/useScanPolling.ts`, `Dashboard.tsx`) | hook state, a ref, an interval, requests in flight | submit, tick, answer | late, lost and reordered answers, answers of an earlier scan | outcomes shown are true, polling ends, its end is told |
| Contract analysis (`services/contract_analyzer.py`, `blockchain/*_analyzer.py`, `blockchain/risk`, `services/risk_engine.py`) | what the analyzers found so far, one after the other | about a dozen awaited reads, then the assessment | the chain moves on between two reads; reads that fail leave defaults; the same fact worked out in several places | what is assessed was true, the places agree, nothing counts twice |
| Trade simulation (`blockchain/trade_simulator.py`, `anvil_*.py`, `honeypot_simulation.py`) | a forked node, usually one for all scans; the locals of each simulation | reset, fund, buy, transfer, approve, sell | other scans on the same node, receipts that never come, calls failing in the middle of a leg | the verdict is that of the target, the account is given back, it ends |
| Protocol intelligence, relationships, threat surface (`blockchain/protocol`, `security`) | none: functions of the findings | detect, propose and merge relationships, draw the surface | merging by different keys, two modules deciding the same | nothing certain is lost in a merge, the views agree |
| Protocol discovery and graph (`blockchain/protocol_scan`, `protocol_graph`) | entries and relations, queue, graph | one source of contracts after the other, build, validate, traverse | several entries about one address, sources that fail, cycles | the root stays the root, what is reported is in the graph |
| Protocol scan scheduler (`blockchain/protocol_scheduler`) | a verdict per node, the pool's tasks | rounds: mark skipped, select, run a batch with retries | partial failure, cycles, bounded concurrency, retries | dependencies first, exact failure isolation, agreement with the static plan, termination |
| Protocol report (`blockchain/protocol_report`) | the results of all scans | pool the evidence, correlate, score, recommend | scans failed or skipped, evidence of several contracts pooled, order of addresses | no finding is lost, a low level is earned, remedies help |
| Runtime intelligence (`blockchain/runtime`) | frames, slots and logs of a transaction | classify, trace, diff, simulate an attack | frames that fail and take back their writes, contradictory hints | what lasted is told, what did not is not, predictions agree with observations |
| Watch registry (`blockchain/continuous/watch_*.py`, `scheduler.py`, `persistence.py`) | subscriptions and an audit log | register, remove, configure, enable/disable/pause/resume, record execution, dump/load | late and reordered reports, restarts from an old dump, re-registration | the log accounts for the state, schedules follow it, the baseline stays |
| Monitoring (`continuous/change_detection`, `reanalysis`, `risk_delta`, `alerting`) | baseline, last evidence, alerts sent | diff, select modules, run, compare, alert | partial evidence after a selective run, cooldowns, acknowledgements, a restart | no silent change, critical evidence pages somebody, no repeats |
| Monitoring history (`continuous/history`) | records, baseline, dumps | ingest, set baseline, retention, timelines | retention against baselines, records filed twice, two stores dumped apart | the baseline stands, the timeline counts once, retention keeps the newest |
| Schemas, migrations, presentation | none | — | — | — |

Interaction: the dashboard talks to the API by HTTP only, so the seam is what
`GET /scans/{id}` shows; that seam is a module of its own (`ScanStore`), implemented by
the lifecycle and used by the polling. The scheduler takes a graph and a callback. The
watch registry and the monitoring pipeline are called by a loop that is not in the tree,
with whatever timing. A trade simulation is part of the contract analysis, which
`ScanLifecycle` treats as one value; concurrent scans meet on the Anvil node. The report
takes the scheduler's results (completed, failed, skipped) and the analyses behind them.

## 2. Modules

| Module | What it is |
|---|---|
| `ScanRows` | what a job row with its result tells a reader: status, chain, and the chain each part comes from |
| `ScanStore` | abstract: a job appears as pending and gets its outcome in one step, whole and for good; the least the worker keeps, and less than the API describes (`RunningIsShown`) |
| `ScanLifecycle` | request, background task, session, pool, crash; implements `ScanStore` |
| `ScanPolling` | form, hook, interval and requests in flight against `ScanStore` |
| `DependencyScan` | abstract: a verdict only when all dependencies completed, given up only when that cannot happen, final |
| `ProtocolScheduler` | rounds, batches, worker pool, retries; implements `DependencyScan` |
| `WatchRegistry` | subscriptions, audit log, clock, dump and restart |
| `TradeSimulation` | the round trips of concurrent scans, call by call, on a shared node or on nodes of their own |
| `ContractRisk` | from the findings about a contract to signals, weights, score, levels, correlations |
| `ContractAnalysis` | the analyzers' awaited reads of a chain that moves on; extends `ContractRisk` |
| `ProtocolDetection` | detectors, profiles, matching rules, family of a contract, kind of proxy |
| `ProtocolRelationships` | candidates for relationships, their merging, the architecture graph; extends the two above it needs |
| `ThreatSurface` | dependencies, boundaries, privileged entities, assets, attack paths; extends `ProtocolRelationships` |
| `ProtocolReport` | the scans of several contracts drawn together, recommendations and their being followed; extends `ThreatSurface` |
| `ProtocolGraph` | nodes, edges and validation of the dependency graph |
| `ProtocolDiscovery` | the sources of contracts, one after the other, and the graph built; extends `ProtocolGraph` |
| `GraphTraversal` | breadth-first reach, topological order and search for cycles on that graph, turn by turn; extends `ProtocolDiscovery` |
| `RuntimeIntelligence` | what the transaction, trace and state engines tell |
| `ExploitSimulation` | scenarios and attacks as templates for those engines |
| `RuntimeAnalysis` | an EVM executing one transaction, as the ground truth for the two above |
| `ChangeDetection` | the diff of two snapshots |
| `Reanalysis` | modules selected, evidence merged, delta and trend |
| `Alerting` | rules, suppression, routing; extends `Reanalysis` |
| `Monitoring` | the cycles of a watch: composes the three above with acknowledgements and a restart |
| `History` | baseline and record stores, ingestion, retention, dumps, timeline |
| `*_proofs` | the theorems about the module of that name; `ProtocolScan_proofs` about the scheduler and the discovery, `ReportAndHistory_proofs` about the report and the monitoring history, `TradeAndRuntime_proofs` about the trade simulation and the runtime analysis; the formulas of the second module of each pair are `DiscoverySpec`, `TraversalSpec`, `HistorySpec`, `RuntimeSpec` and so on to have names of their own there |
| `MC*` | constants for TLC; `MCScans` takes `ScanLifecycle` and `ScanPolling` in one run, a behaviour being about one or the other; `ScanStuckRunning.cfg` and `ScanNeverRunning.cfg` are two more questions, about `MCScanLifecycle` |

An operator named `F_xxx` is `F` with a plausible bug in it. It is not used by the
specification; `PROJECT.json` says which property notices when it replaces `F`.

### How state and actions correspond to the code

`ScanLifecycle`. `db[j]` is the committed row, `txn[j]` the row in the session of the
task, because `ScanWorker` only flushes and `run_scan_worker` commits once at the end,
after `process()` returned or raised. `worker[j]` is the point between two awaits at
which the task is. One action per stretch of code between awaits: `Load`,
`MarkRunning`, `CaptureContext`, `StoreResult`, `MarkCompleted`, `MarkFailed`, `Commit`,
with the error exits `CaptureFails` (raises outside the `try`), `AnalyzeFails` (inside),
`PoolTimeout`, `WriteFails` (a flush or commit fails: rollback) and `Crash`. The
analysis itself is one value, the chain it was made on.

`ScanPolling`. `target` is `scanIdRef.current` and `attempts` is `attemptsRef.current`;
`isPolling`, `shown` and `error` are React state; `active`, `submitError` and `post` are
the form's. A GET in `inflight` is sent (`Created`, `Tick`), reads the row (`Read`) or
fails (`GetFails`), and is answered (`Answer`) in any order; `OnTerminal`, `OnProgress` and
`OnError` are the three branches of `fetchOnce` after its await. `shown` is `scan`, with the job it came with;
`Banner` is what `Dashboard` hands to `ScanStatusBanner`: the status of `scan` under the number of
`activeScanId`. `overlapped` and `crossed` are history variables: a request was made while another was out,
a request of an earlier scan was out when the active one got its number.

`ProtocolScheduler`. `StartBatch` is a round of `run()` up to the pool, `MergeBatch` what
follows `gather`, `Finish` the last round; `Admit`, `AttemptSucceeds` and `AttemptFails` are
the pool's semaphore (FIFO) and `execute_with_retry`. The order of two statements within a
round that nobody can observe is not kept. `Planned` is `resolve_batches`, the static plan.

`WatchRegistry`. `subs[w]` is the subscription or `None`, `events[w]` its audit events,
`saved` the last `dump_store`. Each operation is one action, with its events. An
operation that raises changes nothing and is no step. `RecordExecution` takes any time up to
now, since executions are reported afterwards.

`TradeSimulation`. `pc[s]` is the next JSON-RPC call of `simulate()`; calls that only read facts
no simulation changes (the pair, the quotes) are taken together. The three `_execute_*`
methods are one cycle `Open`, `Send`, `Receipt` / `WaitTimeout` / `Raise`, `Close` over `leg[s]`;
the sale is two transactions under one impersonation, so `Receipt` of the approval goes back
to `Send`. `Close` is the `finally` together with what `simulate` does next. The node is external:
`held`, `approved`, `eth` are the buyer's, `tx[s]` is the transaction s sent last, executed by `Mine`
on the state the node then has. `NodeOf` is `_resolve_rpc_url`. What a target allows
is a record of facts (`TargetFacts`), fixed like the forked chain. `disturbed` and `timedOut` are
history variables: another simulation changed the node meanwhile, a wait gave up.

`ContractAnalysis`. `stage` is the next await of `ContractAnalyzer.analyze`; each stage is an action
that reads `chain` as it is then, or fails and leaves the default its handler gives (`Misses`), or
fails the scan (`Raise`). `Upgrade` and `ChangeHands` change the chain between two reads; `held` is a
history variable, what the chain was since the scan began. `seen` is what becomes
`ContractRiskInput`; `Assess` is the pure end of the chain, `ContractRisk!Assessment`.

`ProtocolReport`. `results[n]` is the `NodeScanResult` of a node, `Settle`d in any order with any
status; `Build` is `ProtocolExecutiveReportBuilder.build` over them. `AddTimelock` and
`LockLiquidity` are the team doing what a recommendation says, once, before a second round:
`before` keeps the first report. `Complete` has the detection re-read those slots that may
have been set since the scan read them.

`ProtocolDiscovery`. `stage` is the next source `discover()` awaits, `contracts` the list it appends
to, `root` the facts a probe of the root gives; `Assemble` is the builder that keeps one entry
per address, `BuildGraph` the graph with its validation.

`GraphTraversal`. `walk` is the traversal that runs: bfs, the topological sort, the search for cycles. They
read the graph and nothing of each other, so one order of them stands for all. `BfsStep` and `SortStep` are one
turn of the loop over `queue` each; `reached` is `seen` (`disconnected_from_root` is what is not in it),
`placed` the ordering; that a degree has come down to 0 is said as all parents being placed. The
recursion of `_visit` is a stack: `path` is the code's, and `todo` holds for each address on it the neighbours
its loop has not come to, with the loop over all nodes at the bottom. `Visit`, `Closes` and `Passes` are the
three things a turn may do with the next address, `Returns` the end of a loop.

`RuntimeAnalysis`. The EVM is external and the ground truth: `Begin` starts a transaction, `Call`, `Write`
and `Destroy` are what frames do, `Return` and `Revert` end the innermost, a failing one taking back what
was written since it began. `world` against `before` is the net effect. `Analyze` gives frames,
logs and diffs to the trace and the state engine, `Classify` an envelope to the transaction
engine, `Simulate` an attack of the library to all of them. `again`, `undone` are history variables.

`Monitoring`. A `Cycle` is the whole chain of calls for one watch, which never suspends; the caller
hands it the evidence of the last cycle and the alerts sent so far. `Acknowledge` and
`Restart` come between cycles. `History`: `Cycle` produces records, `File` and `FileAgain`
store them one by one, `Retain` applies a policy, `SaveBaseline` and `SaveHistory` dump
the two stores apart, `Restart` loads whatever was dumped.

## 3. Runs

| Run | Instance | Shows |
|---|---|---|
| `scheduler` | 5 addresses: all 64 graphs of 3 nodes, 5 larger shapes; 2 workers, 3 attempts | a failure takes exactly its descendants, rounds agree with the static plan, refinement of `DependencyScan`, termination |
| `scans` | worker: 3 jobs, 2 connections, 2 chains of which one URL serves the other chain; dashboard: 2 jobs on one chain, 3 attempts, 3 requests in flight | whole and final outcomes, asked chain, refinement of `ScanStore`, captured jobs settle; the banner is true of the scan it names, the end is told, polling stops |
| `scan_stuck_running` | 2 jobs, 1 connection | **violated**: a task that ran to its end may leave its job in running for ever |
| `scan_never_running` | 2 jobs, 1 connection | **violated**: a reader finds the outcome of a job that was pending a moment before |
| `watch_registry` | 1 watch, 2 schedules with an interval plus manual and cron, clock 0..3, 4 events, 2 reports plus `{}` and none | log, schedule and baseline agree over every order of operations, late reports, restarts |
| `trade_simulation` | 2 scans, 12 kinds of target, one node or two | a yes is never wrong; undisturbed verdicts and taxes are exact; the account is given back; every simulation ends |
| `contract_analysis` | 252 chains of 8 addresses: 10 sorts of proxy and admin, 4 markets, 3 deployers, verified or not, and a target without code | with one upgrade or change of hands anywhere in the scan and any reads failing: what is assessed was true, the places that decide who may upgrade agree, a trade counts once |
| `protocol_report` | all pairs of 23 contracts | relationships survive their merging, the views of a surface agree, LOW is earned, findings are not lost, remedies help |
| `protocol_discovery` | a root and three contracts, a pool, 7 deployments, every outcome of every source | root and implementation stand, relations are edges, what a graph is refused for, reach, topological order and search for cycles agree |
| `runtime_intelligence` | 4 entries, up to 3 further frames, 2 writes, 2 failures; all attacks with 3 contexts | what lasted is told, only that is, predictions hold |
| `monitoring` | 4 cycles, 3 snapshots, 3 sets of findings, one restart | no silent change, critical evidence pages somebody, no repeats within a cooldown or after an acknowledgement |
| `monitoring_history` | 3 cycles, 4 retention policies, dumps, one restart | the baseline stands, the timeline counts once, retention spares what it must |

Why the bounds are enough.

* `scheduler`: five nodes hold every case of its case analysis: a failed dependency beside a completed
  one, a cycle with a node before and after it, more ready nodes than workers, and (this takes all
  five) a descendant of a skipped node that is looked at again in a later round.
* `scans`: three jobs on two connections is the least at which a task waits for one that
  waits; one mismatched URL is one chain that is right and one that is wrong. Of the dashboard, two jobs are an
  old and a new scan, three requests are two of one and one of the other; its form sends no chain, so both are for one.
* `watch_registry`: operations touch one watch only and the dump takes all of them at once, so one watch
  with a dump shows what several would; four events are enough for register, execute, remove and
  register again.
* `trade_simulation`: two simulations are one and another that disturbs it, for all targets against one
  that only resets the node, for the longer paths against one that also sends a transaction, and both
  on the same token, where the tokens of one are sold by the other; the amounts lie on both sides of the
  smallest transfer, and a fee of 1 separates gas from tax.
* `contract_analysis`: every signal occurs on a chain where it is justified and is missing on one where it is
  not; one move of the chain sets every earlier read against every later one.
* `protocol_report`: two contracts are one whose evidence completes a rule of the other and one before or
  after it in the order of addresses, which is all the report's pooling can tell apart. `LowIsEarned` lives
  on a margin that does not depend on the instance: a contract of level HIGH has a score of 67 or more,
  which with the one asset every contract has makes 35·67 + 20·10 = 2545 hundredths, above the 2500 of LOW.
* `protocol_discovery`: four contracts are root, implementation, admin and owner at distinct addresses or not;
  root 2 lies between others in the order by which the code breaks ties.
* `runtime_intelligence`: five frames in a row are the path that counts as deep; two writes are a change and
  one that takes it back; two failures are an inner and an outer one.
* `monitoring`: a change, its return, and the same again within and after a cooldown take four cycles.
  `monitoring_history`: three cycles are one before and one after the cycle a policy cuts at.

Where a theorem exists (section 5) the bounds do not matter. Deadlock is checked except where the system
stops: `scheduler` (`run()` returns), `contract_analysis`, `protocol_discovery` and `runtime_intelligence`
(one analysis, which ends), `protocol_report` (the second report is the last), `monitoring` (the bound
on cycles).

### What the violated runs say

`ErrorsEndInFailed`: `process()` flushes RUNNING and captures the chain context before its
`try`; an RPC error there is committed as RUNNING by `run_scan_worker`, and the status
guard keeps every later run away. Its docstring says `pending/running -> failed (on
unexpected error)`.

`RunningIsShown`: RUNNING is only flushed, and the one commit of a task comes with its outcome
(`scan_tasks.py:24`, `:28`). The description of `GET /scans/{scan_id}` says `Status progresses pending →
running → completed (or failed) as the background worker runs` (`scans.py:108`); a reader never sees that
progress. `ScanStore` states what readers do see.

### Observations

Met while modelling; the models have them as the code does, and the properties that pass are stated
around them.

Scans and the dashboard:
* `fetchOnce` takes every answer, of whatever scan (`useScanPolling.ts:41`), and `Dashboard.tsx:99-104` shows its
  status under `Scan #activeScanId`, with its results below. When a request of the scan before is still out as the
  next scan gets its number, the old outcome stands under the new number, and polling of the new one stops.
  `BannerIsTrue` says that this is the only way: it excepts `crossed` and nothing else.
* After a timeout or an error the last answer stays in `scan` and the loading skeleton with it.
  Requests pile up when answers take longer than the interval (`useScanPolling.ts:96`); a POST whose answer
  is lost has created a job all the same (`Dashboard.tsx:36`).
* Scans at the same time use one Anvil node and one account, and nothing excludes them from each other,
  though `anvil_honeypot_simulation.py:20` has it reset per simulation: one's reset empties the other's account
  between its buy and its balance read, and a balance of 0 then reads as `can_sell=False`.
  `UndisturbedVerdict` says what holds without that.
* `can_sell=False` is also the answer when nothing was traded (no pair, a failed buy), and is all that
  `HONEYPOT_CONFIRMED` asks for (`honeypot_intelligence.py:420` against `honeypot_catalog.py:175`). A proxied token
  gets it, because the simulation is given the implementation's address.

Contract analysis:
* The reads are not of one block. An explorer that fails returns no history, and an account without history is
  fresh; a market that could not be read is none: `Invented` names these two ways to assess what was never true. A third
  is `Presumed`: an empty answer of `getMinDelay()` makes a timelock without delay (`timelock_analyzer.py:43-45`),
  though `is_timelock=True` is promised for a call that `yields a delay value` (`:24`). `EvidenceIsTrue` excepts
  these three.
* `owner()`, the roles and the trade are asked of the implementation's own address, whose storage is not the
  proxy's. Beacon proxies are not upgradeable here.
* A high buy tax that is confirmed lowers the score (12 for 22); a failed trace of the admin's owner lowers the
  centralization (contract 32 for eoa 45); a confirmed honeypot (35) with a deployer funded by an exchange
  (−5) has score 30: risk LOW with threat CRITICAL. Correlated findings add nothing to the score.
* The reputation is looked up for one address though its reason says "Deployer or owner".

Relationships, surface and report:
* The overall risk inverts the governance maturity twice, so a timelock, which the report recommends, can raise
  the overall score; `RemediesHelp` therefore speaks of upgradeability and of each contract's score. A multisig
  that gives way to a timelock is no treasury any more and costs 7 points.
* A contract of score 50 to 66 is recommended on as HIGH while the protocol is LOW. Skipped scans do not lift LOW,
  failed ones do. The identifier of a correlation recommendation carries its place in the list and shifts when
  another finding goes. One contract behind a timelock silences `governance.no_timelock` for all, and the
  centralization finding for the contracts after it. The pooled rules join evidence of different contracts.
* Relationships and graph nodes merge by different keys: a deployer that is the owner, a primary exchange that is
  also a pool, an upgrade authority that is the timelock end in self-loops at the contract; in the report the
  relationships of different contracts collapse, as their source is always "Target Contract".
* `centralized_administrative_control` needs no second fact: every capability has a controller, an unknown one
  if need be. Every V2 pair is also one of SushiSwap, PancakeSwap and Aerodrome; one bridge selector makes a
  contract a bridge, and Stargate's `swap` selector is that of `initialize(address)` (`selector_registry.py:54`), so
  every initialisable contract is one. A clone gets the path "Owner to ProxyAdmin". The branches for treasuries
  are dead, as no analyzer names one.

Discovery and graph:
* A vault and strategy at one address, or a proxy whose implementation is a proxy, is related to itself and
  leaves the discovery without a graph (`RefusedForSelfLoops`). An intelligence score above 95 displaces the root's
  entry, and the confidence becomes the least of all (`builder.py:106`). `ADMIN_TO_PROXY` never arises.

Runtime:
* `unexpected_external_call` cannot be reached; the event topics are not the hashes of their events, so no log of a
  chain is recognised; changes of owner and governor mask one of the proxy's admin; siblings count as recursive;
  a caught failure inside suppresses `state_transition_observed`.
  `AllowanceAnalyzer`, other than `StorageAnalyzer`, compares nothing (`allowance_analyzer.py:21-22`): an allowance that
  was unlimited already and that a provider lists because it was read is told as granted. `ToldIsTrue` excepts it.
  `UNLIMITED_MINT` declares `supply_mint` beside `large_supply_inflation` (`attack_library.py:182`), of which a
  supply only ever has one, and `ORACLE_MANIPULATION` declares `simulated_oracle_manipulation` (`:242`), which no
  engine says: `PredictionsHold` states that these two (`Unmet`), and no others, are missed in every complete context.
  A payload shorter than its selector's arguments raises.

Monitoring:
* A selective run reports the evidence of the modules it did not run as removed, so the trend says decreased.
  Filing a record again brings back what retention removed. Records are sorted by ISO strings, which goes wrong
  with mixed UTC offsets.
* A watch removed and registered again while a scan is under way takes the old report
  (`watch_registry.py:158`); enabling or configuring restarts the interval, and a cron schedule is never due
  (`DueWhenIdle`); a metadata update unschedules a watch (`protocol_subscription.py:73`).
* `gather` waits for the slowest analysis and nothing in the scheduler bounds it (`worker.py:37`).

## 4. Fairness

* Scheduler: weak fairness of every round and of every task. asyncio runs what can run; an
  analysis returns because the RPC provider bounds its calls. Nothing in the scheduler does.
* Lifecycle: weak fairness of each task's next step, for the same reason and because the
  wait for a connection is bounded (`PoolTimeout`). Crashes and failed writes are not fair
  and are remembered in `lost`, which the liveness property excepts.
* Polling: weak fairness of the interval and of reading and answering requests: `fetch` ends
  with an answer or an error. No fairness of the server's `Settle` and none of the user.
* Trade simulation: weak fairness of each simulation's steps other than failing ones: every call is
  answered. None of `Mine`: a wait ends by its deadline even if the node has lost the
  transaction.
* The others: none. A contract scan, a discovery and a report are straight chains of calls; the watch registry,
  monitoring and history are called from outside and promise nothing that must happen.

## 5. Proofs

Each `*_proofs` module proves an inductive invariant and derives the properties from it.

* `ProtocolScan_proofs`: for any finite set of addresses, any graphs, workers and attempts.
  `SchedulerInv` relates tasks, batches, attempts and verdicts: a task belongs to the running
  batch; whatever is in a batch had its dependencies completed in earlier batches; a node
  left out of the running batch misses a dependency, which is what makes every batch as early
  as possible. Derived: types, `DependenciesFirst`, `RetryAccounting`, `EarliestBatch`,
  `WorkersBounded`, `SkipReasons`, and the refinement of `DependencyScan`. `PlanAgreement` compares the batches with
  the layers of `Planned`, which the proof first shows to exist: the first node in an earlier or a later batch than its
  layer would have a dependency that is. `SkippedExactly` has an invariant of its own (`GivenUpInv`): who is given up has
  a failed ancestor or a dependency given up as well; following those, the least set of ancestors closes a cycle.
  For the discovery, for any chain, registries and sources: `EntriesInv` says that the root's entry comes first with a
  score of 95 and nobody else's is like it, that an oracle's entry is the root's, that only the second, weaker entry of
  an implementation has an administrator, and that a proxy's entries are there once its chain was followed. With
  it, and since every address that has an entry keeps the first of its best (`SomeKept`), follow `RootStands`,
  `ProxyIsTied` and `RefusedForSelfLoops`. The walks over the graph change nothing of the discovery (`DiscoveryOver`).
  `TraversalsAgree` has an invariant for each walk. bfs: what was reached but is not in the queue leads only to
  what was reached, and any set closed under the edges that holds the root holds all of it. Topological sort:
  the placed and the queued are the addresses all of whose parents are placed, each once, with every parent
  before its children; if some address is never placed, each such has a parent that is not placed either. Search: the
  stack is a path along edges; until a cycle is found, the addresses the search has left for good are closed
  and each nonempty part of them has a member that no edge of the part leads to. So without a cycle all are placed, and
  on a cycle the address placed first would have a parent placed before it.
  `RunComesToItsEnd`: a node has stages (not in a batch, waiting, scanned for the k-th time, settled), each step takes
  some node to a later one and none back, and the pool never waits for a slot that nobody holds. `WalksRunOut`: a turn
  of a walk reaches, places or visits one more address, or leaves less in the queue, in the loops or on the stack.
* `ScanLifecycle_proofs`: for any jobs, chains, endpoint maps and pool size. `LifecycleInv` says
  which row a task may carry at each point; a row that reaches the commit is an
  outcome the abstract store allows or the row that was there. Derived: types,
  `NoPartialRows`, `SettledRowsFrozen`, `CompletedOnAskedChain`, the refinement of `ScanStore`.
  `CapturedJobsAreCarried`: past the chain context each step of the task, a failure too, leads to the commit, the third
  at the latest; only a lost task does not get there.
* `WatchRegistry_proofs`: for any watches, schedules, reports and bounds. `RegistryInv` says of each
  watch, in memory and in the dump, that it replays from its log, and that the dump is an
  earlier state of the memory; without the part about the dump a restart would not keep the
  rest. Derived: all properties of the run, and three about schedules and baselines that only the
  proofs state (`DueAfterInterval`, `BaselineCaptured`, the last execution).
* `ScanPolling_proofs`: for any jobs, chains and bounds. `PollingInv` says that the outcome the hook keeps is that of the job
  it came with, that polling concerns the scan submitted last, that every outcome on its way is true and every job
  asked for exists. Derived: types, `PollingHasTarget`. `BannerIsTrue` follows with a second invariant, `AboutTheActive`: unless requests crossed, what is
  asked and kept is about the active scan. `EndIsTold` rests on a third invariant, `Calm`: while no request
  has overtaken another, the one in flight is that of the polling, and the screen is empty or
  about the scan polled for.
  `PollingRunsOut`: while a scan is polled a request is in flight or may be sent, an answer taken ends the polling or
  uses up an attempt, and everything else brings an answer nearer, within the requests in flight.
* `TradeAndRuntime_proofs`: for any scans, targets, amounts and fees. The invariant (`SimInv`) says what a
  simulation knows of its target at each call: past the buy it was buyable, a receipt says
  what the leg says, the router is approved only for tokens that approve. It speaks of the
  simulation's own transactions, so nothing another scan does to the node disturbs it. Derived: types,
  `YesMeansItHappened`; `ImpersonationClosed` is inductive given the types. `UndisturbedVerdict` has an invariant of
  its own (`AloneInv`), for simulations not disturbed so far: it follows the buyer's tokens and ETH through the
  calls, before and after each transaction is mined and its receipt read, so that what a verdict is computed
  from is what the target does; a step of another scan either leaves this part of the node alone or
  marks the simulation as disturbed (`OthersStayAlone`).
  `SimulationsRunOut` counts the calls that a simulation still has before it: 22 at most, one less with each
  of its steps, and no step of another scan or of the node adds to them.
  For the runtime analysis, for any calls, writes, failures and contexts: `RuntimeInv` says that every open frame
  was entered, that a repeated call and a write taken back have left their mark on the trace, and that the report
  is that of the finished transaction, for slots a provider may list. The first keeps the frame that runs within
  the trace, without which a failure could be marked nowhere. The rest is about the engines alone: the
  evidence of any diffs is that of the five analyzers (`StateSignals`), and for diffs that contain every
  change it does not depend on what else is listed (`SaidIs`), an allowance excepted. Derived: `ChangesAreTold`, `ToldIsTrue` (with
  `CategoryIs` and `TransactionTells` for the classifier against its evidence) and `PredictionsHold` (the events a template adds
  say no more than its diff, `EventsAddNothing`; which of the declared evidence an attack finds and misses is said
  scenario by scenario, by `UpgradeIsFound` to `OracleIsNotFound`). The proof needed two facts the small instance had hidden, now
  stated: no account runs at the zero address (`RuntimeAssumption`), and in a complete context the contract is
  given and is not its own new implementation (`Complete`).
* `ContractAnalysis_proofs`: for any addresses, exchanges and chains that move on. `AnalysisInv` says at each stage
  what is not known yet: no owner before an admin, an authority taken over only from findings that
  are final by then, wallet signals that name a treasury only for a multisig in charge, controls
  from a simulated trade; and an assessment is that of the findings. It follows the findings alone, so a change
  of the chain keeps it. Derived: types, `AuthorityAgrees`, `TradeCountsOnce`. Each signal is the business of one
  part of the evidence (`EvidenceApart`), so that what a signal says can be read off the part that makes it.
  `EvidenceIsTrue` rests on an invariant of its own (`TruthInv`): what each finding says is true of some moment the
  analysis saw (a timelock may be presumed of an admin that answered with nothing), and an owner asked of the logic contract belongs to a moment at which it was the logic
  contract, whatever the chain does between two calls.
* `ReportAndHistory_proofs`: for any number of contracts and any findings. A report is that of the findings and
  results as they stand (`ReportInv`), and from it `FindingsReachTheReport`. `SurfaceAgrees` needs besides that
  the findings stay findings when a contract is hardened and that a proxy is seen only where
  there is one, or could be by the time of the detection (`SeenInv`); the rest are lemmas, one to each pair of
  views: owners and delays (`BoundariesAndEntities`), minting (`MintPath`), proxies (`ProxyPath`), and, of
  the two steps that drop duplicate relationships, that they keep who may upgrade (`TimelockRelation`).
  `LowIsEarned`: what is counted and summed is finite, so the sums exist and do not depend on an order, and one contract of
  67 or more with its own asset lifts the weighted whole over the line whatever the others add. `EdgesStand`: a label
  tells its target, and among candidates for one relationship there is a foremost and a first, because certainties are
  at most 100 and ranks natural. `RemediesHelp`: the report before is that of the findings before (`BeforeInv`), each
  contract's findings after are better in a sense made precise (`Better`), and signals, recommendations and
  upgradeability are monotone in it; a timelock's contract has a higher score only where a treasury gave way.
  For the history, for any outcomes, delays, policies, cycles and restarts: `ListsInv` says that the store and its dump
  list only what cycles left (`ToldRecords`), snapshots and acknowledgements, each once, and all of it as long as nothing
  was lost; it is what the identifiers are for (`SameIdentity`). `BaselineInv` adds that no snapshot in the store or on
  its way there is older than the baseline before the first restart. Derived: types, `BaselineStands`,
  `TimelineTellsTheTruth` (the listed records of one kind correspond to the cycles, `ListedOfKind`, and a sum does not
  depend on what its terms are indexed by, `SumOfImage`) and `RetentionSpares` (`OldestOf`, for any order of the records
  of one time).
* `Monitoring_proofs`: for any snapshots, findings, policies and steps of the clock. `MonitoringInv` says that
  the report is about the baseline that stands, that what became critical in the last cycle was paged, and
  that an alert sent in this life is remembered with a time not before it was sent; without the last
  the cooldown could not be followed from cycle to cycle. `UnchangedIsEqual` is about the
  operators alone: no change is found exactly when all that is watched is equal, contract by contract
  and field by field. Derived: types, `NoSilentChange`, `CriticalIsPaged`, `RepeatsAreQuiet`.

Only model-checked: the liveness properties (`Terminates`, `CapturedJobsSettle`, `PollingStops`,
`EverySimulationEnds`), which need fairness and `ENABLED` and are beyond the prover. Their safety halves are proved
(`RunComesToItsEnd`, `CapturedJobsAreCarried`, `PollingRunsOut`, `SimulationsRunOut`): a bounded measure that every step
concerned decreases and no other step increases, so that nothing can go on for ever or be sent back. That the steps are
taken at all follows from fairness, and that is left to TLC.
Every other property of the runs is a theorem. Sums, least elements
and recursive functions on sets are reasoned about without induction: a least counterexample is taken
from the well-founded orders of the library (`LeastNumber`, `LeastSubset`).

## 6. Assumptions

* Database isolation is PostgreSQL's: a session's writes are its own until it commits. With a
  sqlite URL (the tests) all sessions share one connection.
* `app.models` is not in the tree; the columns are those `ScanWorker` and `ScanService` use.
* Each RPC URL serves one chain, the right one or not, for the whole run.
* `run_scan_worker` is called for a job once by the API and again only by tests, one at a time.
* Each analysis and each GET ends.
* The Anvil node is up when it is used, signs for its default account, forgets its transactions on
  `anvil_reset`, and every simulation forks the same chain state. Prices are one wei a token and
  a trade does not move them.
* The chain is external to the contract analysis: it moves on once during a scan, by an upgrade or by a change of
  the admin's owner. Explorer, reputation lists and role lookups answer truly or fail.
* The driver of monitoring is external: the pipeline is in the order of `README.md:17`, records are filed as the
  tests' `_ingest_cycle` does, the clock advances between cycles, a cycle is given the evidence of the last one,
  and retention, dumps and acknowledgements come between cycles.
* The EVM is external: what the trace and state providers hand over is what happened, in whole frames; the state
  provider may also list slots that were only read. No account runs at the zero address, and allowances and supplies
  are integers (`RuntimeAssumption`).
* What the report is given about a contract is what a scan can find (`ReportAssumption`): admin types, abilities,
  controls and wallet signals of the known kinds, and a delay only where there is an admin whose it is; finitely many
  roles and known deployments, deployed under names of the profiles; pools on exchanges the providers know.
* A root of the discovery is not its own implementation or admin, and the strategy and the oracle entries of an
  intelligence share one least confidence (`discovery.py:281`, `:291`).
* The registries of the discovery are finite tables whose roles are those of the classifier (`DiscoveryAssumption`).
* A reader of the report acts on one recommendation at a time, and scans the same contracts again.

## 7. Not modelled

* Request and response schemas, migrations, presentation and the contracts scaffold declare data. History
  queries and the history page only read, and no two of their reads are promised to agree.
* Of the modelled components: the severity, confidence and wording of findings where nothing downstream reads them;
  the contract type and family names; role hierarchies and source text (a code has traits); how reserves become a
  depth; the wallet's own relationship graph and score; balance changes and gas of transactions; the formats of
  payloads and traces; duplicate allowances of one owner and spender (`allowance_analyzer.py:72`); the export of reports; titles of timeline entries; the start and stop of Anvil
  processes (`anvil_honeypot_simulation.py:111`), of which with auto-start every scan spawns one; health checks.
* Scheduler, discovery and report are not composed into one module: discovery hands the scheduler a graph, and
  `scheduler` takes every graph of its size; the scheduler hands the report the statuses of the nodes, and `protocol_report`
  takes every combination of them. Monitoring and History likewise meet in the outcome of a cycle, of which
  `monitoring_history` takes any.
