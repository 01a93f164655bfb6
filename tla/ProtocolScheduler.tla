-------------------------- MODULE ProtocolScheduler --------------------------
(***************************************************************************)
(* The protocol-wide scan scheduler                                        *)
(* (backend/app/blockchain/protocol_scheduler): rounds of skip marking,    *)
(* ready-node selection and a batch of scans run by an asyncio worker pool *)
(* whose semaphore admits MaxWorkers scans at a time, each with at most    *)
(* MaxAttempts attempts.                                                   *)
(*                                                                         *)
(* Addresses are numbers because the code sorts them: the order decides    *)
(* which waiting scan the FIFO semaphore admits next.  The graph is chosen *)
(* in Init and never changes.  An operator named F_xxx is F with a bug, a  *)
(* mutant that a property of the component has to notice.                  *)
(***************************************************************************)
EXTENDS Naturals, FiniteSets

CONSTANTS
    Nodes,          \* node addresses of the protocol graph
    Graphs,         \* the edge sets to run on
    MaxWorkers,     \* LocalAsyncWorkerPool(max_workers)
    MaxAttempts     \* RetryPolicy.max_attempts

ASSUME SchedulerAssumption ==
    /\ Nodes \subseteq Nat
    /\ IsFiniteSet(Nodes)
    /\ Graphs \subseteq SUBSET (Nodes \X Nodes)
    /\ MaxWorkers \in Nat \ {0}
    /\ MaxAttempts \in Nat \ {0}

VARIABLES
    edges,      \* <<source, target>> pairs of graph.adjacency_map
    status,     \* node_results[n].status
    error,      \* node_results[n].error, by its kind
    phase,      \* where run() is: "select", "batch" or "done"
    task,       \* what the pool does with n's scan
    attempts,   \* calls of executor.analyze_node(n) that have returned
    batchOf,    \* 1 + batch_index of the batch n was put in, 0 if none
    batches     \* len(execution_batches)

vars == <<edges, status, error, phase, task, attempts, batchOf, batches>>

NodeScanStatus == {"pending", "completed", "failed", "skipped"}
TaskState == {"idle", "waiting", "running", "succeeded", "exhausted"}
ErrorKind == {"none", "retries_exhausted", "dependency_failed", "unresolved_dependencies"}

\* build_dependency_maps: n's incoming neighbours.
Deps(n) == {m \in Nodes : <<m, n>> \in edges}

Settled(n) == status[n] # "pending"
Running == {n \in Nodes : task[n] = "running"}

Init ==
    /\ edges \in Graphs
    /\ status = [n \in Nodes |-> "pending"]
    /\ error = [n \in Nodes |-> "none"]
    /\ phase = "select"
    /\ task = [n \in Nodes |-> "idle"]
    /\ attempts = [n \in Nodes |-> 0]
    /\ batchOf = [n \in Nodes |-> 0]
    /\ batches = 0

Blocked_byUnsettled == {n \in Nodes : ~Settled(n) /\ \E d \in Deps(n) : status[d] # "completed"}

\* _mark_skipped_nodes gives up these.
Blocked == {n \in Nodes : ~Settled(n) /\ \E d \in Deps(n) : status[d] = "failed"}

Ready_depsSettled == {n \in Nodes : ~Settled(n) /\ \A d \in Deps(n) : Settled(d)}
Ready_first == {n \in Nodes : /\ ~Settled(n)
                              /\ \A d \in Deps(n) : status[d] = "completed"
                              /\ \A m \in Nodes : m < n => Settled(m)}

\* _ready_nodes, evaluated after the marking: a blocked node has a failed
\* dependency, so the marking takes no ready node away.
Ready == {n \in Nodes : ~Settled(n) /\ \A d \in Deps(n) : status[d] = "completed"}

\* A round of run() that finds work: mark, select, hand the batch to the pool.
StartBatch ==
    /\ phase = "select"
    /\ Ready # {}
    /\ status' = [n \in Nodes |-> IF n \in Blocked THEN "skipped" ELSE status[n]]
    /\ error' = [n \in Nodes |-> IF n \in Blocked THEN "dependency_failed" ELSE error[n]]
    /\ task' = [n \in Nodes |-> IF n \in Ready THEN "waiting" ELSE "idle"]
    /\ batchOf' = [n \in Nodes |-> IF n \in Ready THEN batches + 1 ELSE batchOf[n]]
    /\ batches' = batches + 1
    /\ phase' = "batch"
    /\ UNCHANGED <<edges, attempts>>

\* run() stops when every node has a verdict: it never notices a cycle.
OutOfWork_allSettled == \A n \in Nodes : Settled(n)
OutOfWork == Ready = {}

\* The round that finds none: everything left is given up
\* (_mark_unresolved_nodes) and run() returns.
Finish ==
    /\ phase = "select"
    /\ OutOfWork
    /\ status' = [n \in Nodes |-> IF Settled(n) THEN status[n] ELSE "skipped"]
    /\ error' = [n \in Nodes |-> CASE n \in Blocked -> "dependency_failed"
                                   [] Settled(n) -> error[n]
                                   [] OTHER -> "unresolved_dependencies"]
    /\ phase' = "done"
    /\ UNCHANGED <<edges, task, attempts, batchOf, batches>>

SlotFree == Cardinality(Running) < MaxWorkers

\* The semaphore admits the longest waiting scan: gather starts them in the
\* sorted order of the batch.
Admit(n) ==
    /\ task[n] = "waiting"
    /\ SlotFree
    /\ \A m \in Nodes : task[m] = "waiting" => n <= m
    /\ task' = [task EXCEPT ![n] = "running"]
    /\ UNCHANGED <<edges, status, error, phase, attempts, batchOf, batches>>

\* execute_with_retry: an attempt returns an analysis.
AttemptSucceeds(n) ==
    /\ task[n] = "running"
    /\ attempts' = [attempts EXCEPT ![n] = @ + 1]
    /\ task' = [task EXCEPT ![n] = "succeeded"]
    /\ UNCHANGED <<edges, status, error, phase, batchOf, batches>>

RetriesLeft(n) == attempts[n] + 1 < MaxAttempts

\* An attempt raises: the scan keeps its slot for the next attempt, or the
\* attempts are exhausted and NodeScanWorker.scan returns FAILED.
AttemptFails(n) ==
    /\ task[n] = "running"
    /\ attempts' = [attempts EXCEPT ![n] = @ + 1]
    /\ task' = [task EXCEPT ![n] = IF RetriesLeft(n) THEN "running" ELSE "exhausted"]
    /\ UNCHANGED <<edges, status, error, phase, batchOf, batches>>

\* gather returns when the whole batch has: the results are merged in one go.
MergeBatch ==
    /\ phase = "batch"
    /\ \A n \in Nodes : task[n] \in {"idle", "succeeded", "exhausted"}
    /\ status' = [n \in Nodes |-> CASE task[n] = "succeeded" -> "completed"
                                    [] task[n] = "exhausted" -> "failed"
                                    [] OTHER -> status[n]]
    /\ error' = [n \in Nodes |-> IF task[n] = "exhausted" THEN "retries_exhausted" ELSE error[n]]
    /\ task' = [n \in Nodes |-> "idle"]
    /\ phase' = "select"
    /\ UNCHANGED <<edges, attempts, batchOf, batches>>

Next ==
    \/ StartBatch
    \/ Finish
    \/ MergeBatch
    \/ \E n \in Nodes : Admit(n) \/ AttemptSucceeds(n) \/ AttemptFails(n)

Spec == Init /\ [][Next]_vars

\* The event loop runs every runnable task, and every analysis returns (the
\* RPC client bounds its calls in time).
Fairness ==
    /\ WF_vars(StartBatch)
    /\ WF_vars(Finish)
    /\ WF_vars(MergeBatch)
    /\ \A n \in Nodes : /\ WF_vars(Admit(n))
                        /\ WF_vars(AttemptSucceeds(n) \/ AttemptFails(n))

FairSpec == Spec /\ Fairness

-----------------------------------------------------------------------------
(* Reference definitions the properties compare the run with.              *)

\* DependencyResolver.resolve_batches: Planned[k] holds the nodes of the first
\* k batches of the Kahn layering.  indegree[n] counts the dependencies of n
\* that are not in an earlier batch.
Planned[k \in Nat] ==
    IF k = 0 THEN {} ELSE Planned[k - 1] \cup {n \in Nodes : Deps(n) \subseteq Planned[k - 1]}

\* ProtocolGraphTraversal.ancestors: the least set that contains n's
\* dependencies and is closed under Deps.
Ancestors(n) ==
    {m \in Nodes : \A S \in SUBSET Nodes :
        (Deps(n) \subseteq S /\ \A k \in S : Deps(k) \subseteq S) => m \in S}

OnCycle(n) == n \in Ancestors(n)

-----------------------------------------------------------------------------
(* Properties.                                                             *)

\* The variables keep their types; in particular no node is attempted more
\* than RetryPolicy.max_attempts times.
TypeOK ==
    /\ edges \in Graphs
    /\ status \in [Nodes -> NodeScanStatus]
    /\ error \in [Nodes -> ErrorKind]
    /\ phase \in {"select", "batch", "done"}
    /\ task \in [Nodes -> TaskState]
    /\ attempts \in [Nodes -> 0 .. MaxAttempts]
    /\ batchOf \in [Nodes -> Nat]
    /\ batches \in Nat

\* No scan of a node starts, let alone reaches a verdict, before every
\* dependency of the node was scanned successfully.
DependenciesFirst ==
    \A n \in Nodes :
        (attempts[n] > 0 \/ task[n] # "idle" \/ status[n] \in {"completed", "failed"})
            => \A d \in Deps(n) : status[d] = "completed"

\* The semaphore: never more than max_workers analyses are in flight, over all
\* the rounds and whatever retries keep their slots.
WorkersBounded == Cardinality(Running) <= MaxWorkers

\* A failure is reported only after every attempt of the policy was used up, a
\* skipped node was never attempted, a completed one at least once.
RetryAccounting ==
    \A n \in Nodes :
        /\ status[n] = "failed" => attempts[n] = MaxAttempts
        /\ status[n] = "skipped" => attempts[n] = 0
        /\ status[n] = "completed" => attempts[n] \in 1 .. MaxAttempts

\* Failure isolation: when run() returns, the nodes given up are exactly those
\* that could not run, because an ancestor failed or because they are on or
\* behind a cycle.  Every other node was scanned.
SkippedExactly ==
    phase = "done" =>
        \A n \in Nodes :
            /\ status[n] # "pending"
            /\ status[n] = "skipped" <=>
                 \/ \E m \in Ancestors(n) : status[m] = "failed"
                 \/ \E m \in Ancestors(n) \cup {n} : OnCycle(m)

\* The reason reported for a given-up node tells the truth: dependency_failed
\* only next to a failed node, and always there.
SkipReasons ==
    \A n \in Nodes :
        status[n] = "skipped" =>
            error[n] = IF \E d \in Deps(n) : status[d] = "failed"
                       THEN "dependency_failed" ELSE "unresolved_dependencies"

\* The run keeps to resolve_execution_plan: a node that is scanned at all is
\* scanned in the batch the static plan puts it in, failures elsewhere or not.
PlanAgreement ==
    \A n \in Nodes :
        batchOf[n] > 0 => n \in Planned[batchOf[n]] \ Planned[batchOf[n] - 1]

\* No batch is longer in coming than the dependencies make it: a node runs in
\* the first round, or in the round right after one of its dependencies, and
\* after all of them.
EarliestBatch ==
    \A n \in Nodes :
        batchOf[n] > 0 =>
            /\ \A d \in Deps(n) : batchOf[d] \in 1 .. batchOf[n] - 1
            /\ batchOf[n] = 1 \/ \E d \in Deps(n) : batchOf[d] = batchOf[n] - 1

(* The inductive invariant behind the properties.                          *)

\* A task belongs to the batch being run, a node without a task is in no
\* batch or has its verdict.
TasksOfBatch ==
    /\ \A n \in Nodes : task[n] # "idle" =>
          phase = "batch" /\ status[n] = "pending" /\ batchOf[n] = batches
    /\ \A n \in Nodes : batchOf[n] \in 0 .. batches
    /\ \A n \in Nodes : batchOf[n] = 0 <=>
          \/ status[n] = "skipped"
          \/ status[n] = "pending" /\ task[n] = "idle"

\* What is in a batch had its dependencies scanned in earlier batches.
BatchAfterDeps ==
    \A n \in Nodes : batchOf[n] > 0 =>
        \A d \in Deps(n) : status[d] = "completed" /\ batchOf[d] < batchOf[n]

\* A node left out of the running batch misses a dependency ...
LeftOutMissesDep ==
    phase = "batch" =>
        \A n \in Nodes : batchOf[n] = 0 /\ status[n] = "pending" =>
            \E d \in Deps(n) : status[d] # "completed"

\* ... so whoever is ready when the batch is over was waiting for it.
ReadyAfterBatch ==
    phase = "select" =>
        \A n \in Ready : batches = 0 \/ \E d \in Deps(n) : batchOf[d] = batches

\* Attempts are made by running scans only.
AttemptsOfTasks ==
    \A n \in Nodes :
        /\ batchOf[n] = 0 \/ task[n] = "waiting" => attempts[n] = 0
        /\ task[n] = "running" => attempts[n] < MaxAttempts
        /\ task[n] = "succeeded" => attempts[n] > 0
        /\ task[n] = "exhausted" => attempts[n] = MaxAttempts

\* The conjunction, with the properties that are inductive as they stand.
SchedulerInv ==
    /\ TasksOfBatch
    /\ BatchAfterDeps
    /\ LeftOutMissesDep
    /\ ReadyAfterBatch
    /\ AttemptsOfTasks
    /\ RetryAccounting
    /\ EarliestBatch

DS == INSTANCE DependencyScan

\* The scheduler implements the abstract dependency scan.
ImplementsDependencyScan == DS!Spec

\* run() returns on every graph, cyclic ones included, whatever fails.
Terminates == <>(phase = "done")
=============================================================================
