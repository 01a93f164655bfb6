---------------------------- MODULE ScanLifecycle ----------------------------
(***************************************************************************)
(* A scan job from POST /scans to its outcome: the request that inserts    *)
(* the row and queues the background task, the task's own session          *)
(* (run_scan_worker), the worker that moves the job through its states     *)
(* (ScanWorker.process), the database that shows other sessions only what  *)
(* was committed, and the process that may die at any moment.              *)
(*                                                                         *)
(* ScanWorker only flushes; the session of its task commits once, at the   *)
(* end.  So a worker has a private row, txn[j], and readers see db[j].     *)
(*                                                                         *)
(* An operator named F_xxx is F with a bug, a mutant that a property has   *)
(* to notice.                                                              *)
(***************************************************************************)
EXTENDS ScanRows, Naturals, FiniteSets

CONSTANTS
    Endpoints,      \* what the configured RPC URLs may serve: maps from a chain
                    \* to the chain that answers at its URL
    PoolSize        \* connections of the engine: db_pool_size + db_max_overflow

ASSUME LifecycleAssumption ==
    /\ Endpoints \subseteq [Chains -> Chains]
    /\ PoolSize \in Nat \ {0}

VARIABLES
    db,         \* the committed rows
    worker,     \* where the background task of the job is
    txn,        \* the row as the task's open transaction has it
    endpoint,   \* endpoint[c]: the chain that answers at c's RPC URL
    lost        \* history: jobs whose task was lost to a crash, a failed
                \* write or an exhausted connection pool

vars == <<db, worker, txn, endpoint, lost>>

\* Where process() is: before the load, after it, after the flush of RUNNING,
\* with the chain context, with the result, in the except branch, and on its
\* way back to run_scan_worker's commit.
WorkerState == {"idle", "queued", "loaded", "started", "analyzing", "stored",
                "failing", "committing"}

\* The session takes a connection with its first statement and gives it back
\* at the end of its transaction, RPC calls included.
HoldsConnection == {"loaded", "started", "analyzing", "stored", "failing", "committing"}

ConnectionFree == Cardinality({j \in Jobs : worker[j] \in HoldsConnection}) < PoolSize

\* The local chain_id of process(): what the row said when it was loaded, and
\* nobody writes the row before this worker's commit.
Expected(j) == db[j].chain_id

Init ==
    /\ db = [j \in Jobs |-> NoRow]
    /\ worker = [j \in Jobs |-> "idle"]
    /\ txn = [j \in Jobs |-> NoRow]
    /\ endpoint \in Endpoints
    /\ lost = {}

-----------------------------------------------------------------------------
(* The request.                                                            *)

\* create_scan commits the row before it queues the task.
Create(j, c) ==
    /\ db[j] = NoRow
    /\ ConnectionFree
    /\ db' = [db EXCEPT ![j] = NewRow(c)]
    /\ worker' = [worker EXCEPT ![j] = "queued"]
    /\ UNCHANGED <<txn, endpoint, lost>>

\* run_scan_worker is called again for a job, as a test does.
Reinvoke(j) ==
    /\ db[j] # NoRow
    /\ worker[j] = "idle"
    /\ worker' = [worker EXCEPT ![j] = "queued"]
    /\ UNCHANGED <<db, txn, endpoint, lost>>

-----------------------------------------------------------------------------
(* The background task.                                                    *)

Claimable_always(j) == TRUE
Claimable(j) == db[j].status = "pending"

\* _load_scan, then the status check: a job that is not pending is skipped,
\* and the empty transaction is committed.
Load(j) ==
    /\ worker[j] = "queued"
    /\ ConnectionFree
    /\ txn' = [txn EXCEPT ![j] = db[j]]
    /\ worker' = [worker EXCEPT ![j] = IF Claimable(j) THEN "loaded" ELSE "committing"]
    /\ UNCHANGED <<db, endpoint, lost>>

\* No connection within the pool's timeout: the task ends with nothing to
\* commit.
PoolTimeout(j) ==
    /\ worker[j] = "queued"
    /\ ~ConnectionFree
    /\ worker' = [worker EXCEPT ![j] = "idle"]
    /\ lost' = lost \cup {j}
    /\ UNCHANGED <<db, txn, endpoint>>

\* Job j's task goes from state a to state b and leaves row in its transaction.
Step(j, a, b, row) ==
    /\ worker[j] = a
    /\ worker' = [worker EXCEPT ![j] = b]
    /\ txn' = [txn EXCEPT ![j] = row]
    /\ UNCHANGED <<db, endpoint, lost>>

MarkRunning(j) == Step(j, "loaded", "started", [txn[j] EXCEPT !.status = "running"])

\* _capture_chain_context: the row takes the chain id the endpoint reports.
CaptureContext(j) ==
    Step(j, "started", "analyzing",
         [txn[j] EXCEPT !.chain_id = endpoint[Expected(j)],
                        !.context = endpoint[Expected(j)]])

\* It raises, or the provider factory does, outside the try: straight to
\* run_scan_worker, which commits what was flushed.
CaptureFails(j) == Step(j, "started", "committing", txn[j])

ChainMatches_unchecked(j) == TRUE
ChainMatches(j) == endpoint[Expected(j)] = Expected(j)

\* _run_wallet_analyzer or _run_contract_analyzer adds the result; the risk
\* score is set without an await in between.
StoreResult(j) ==
    /\ Step(j, "analyzing", "stored",
            [txn[j] EXCEPT !.result = endpoint[Expected(j)],
                           !.risk = endpoint[Expected(j)]])
    /\ ChainMatches(j)

AnalyzeFails_late(j) ==
    Step(j, "analyzing", "failing", txn[j]) \/ Step(j, "stored", "failing", txn[j])

\* The analyzer raises: bad answer, no answer, or the wrong chain.
AnalyzeFails(j) == Step(j, "analyzing", "failing", txn[j])

MarkCompleted(j) == Step(j, "stored", "committing", [txn[j] EXCEPT !.status = "completed"])

MarkFailed_swallowed(j) == Step(j, "failing", "failing", txn[j])
MarkFailed(j) == Step(j, "failing", "committing", [txn[j] EXCEPT !.status = "failed"])

\* The commit at the end of run_scan_worker, the same whether process()
\* returned or raised.
Commit(j) ==
    /\ worker[j] = "committing"
    /\ db' = [db EXCEPT ![j] = txn[j]]
    /\ worker' = [worker EXCEPT ![j] = "idle"]
    /\ txn' = [txn EXCEPT ![j] = NoRow]
    /\ UNCHANGED <<endpoint, lost>>

-----------------------------------------------------------------------------
(* What goes wrong below the task.                                         *)

Rollback_commits(j) == txn[j]
Rollback(j) == db[j]

\* A flush or the commit fails (connection lost, value refused).  The session
\* is rolled back by it, so the flush of FAILED and the commit of the except
\* branches fail as well or have nothing to write.
WriteFails(j) ==
    /\ worker[j] \in HoldsConnection
    /\ db' = [db EXCEPT ![j] = Rollback(j)]
    /\ worker' = [worker EXCEPT ![j] = "idle"]
    /\ txn' = [txn EXCEPT ![j] = NoRow]
    /\ lost' = lost \cup {j}
    /\ UNCHANGED endpoint

\* The process dies and comes back.  Background tasks live in its memory and
\* lifespan() looks for no unfinished job.
Crash ==
    /\ worker' = [j \in Jobs |-> "idle"]
    /\ txn' = [j \in Jobs |-> NoRow]
    /\ lost' = lost \cup {j \in Jobs : worker[j] # "idle"}
    /\ UNCHANGED <<db, endpoint>>

WorkerStep(j) ==
    \/ Load(j) \/ PoolTimeout(j)
    \/ MarkRunning(j)
    \/ CaptureContext(j) \/ CaptureFails(j)
    \/ StoreResult(j) \/ AnalyzeFails(j)
    \/ MarkCompleted(j) \/ MarkFailed(j)
    \/ Commit(j)

Next ==
    \/ \E j \in Jobs, c \in Chains : Create(j, c)
    \/ \E j \in Jobs : Reinvoke(j) \/ WorkerStep(j) \/ WriteFails(j)
    \/ Crash

Spec == Init /\ [][Next]_vars

\* The event loop runs every task that can run, RPC calls end (the HTTP
\* provider has a timeout), and so does the wait for a connection.
FairSpec == Spec /\ \A j \in Jobs : WF_vars(WorkerStep(j))

-----------------------------------------------------------------------------
(* Properties.                                                             *)

\* The variables keep their types.
TypeOK ==
    /\ db \in [Jobs -> Row]
    /\ worker \in [Jobs -> WorkerState]
    /\ txn \in [Jobs -> Row]
    /\ endpoint \in Endpoints
    /\ lost \subseteq Jobs

\* No reader sees a half-written job: until the worker commits, a job is as
\* it was submitted; a completed one has context, result and score, all of
\* the same chain; a failed one has its context and nothing of a result,
\* although one may have been flushed.
NoPartialRows ==
    \A j \in Jobs :
        /\ db[j].status \in {"pending", "running"} =>
              db[j] = Bare(db[j].status, db[j].chain_id)
        /\ db[j].status = "completed" => db[j] = Whole("completed", db[j].chain_id)
        /\ db[j].status = "failed" => db[j] = WithContext("failed", db[j].chain_id)

\* Once a worker committed an outcome, no later run, crash or failed write
\* changes the job again.
SettledRowsFrozen ==
    [][\A j \in Jobs : db[j].status \in {"running"} \cup Terminal => db'[j] = db[j]]_vars

\* A job completes only with an analysis of the chain the user asked for,
\* although _capture_chain_context overwrites that chain id on the way.
CompletedOnAskedChain ==
    [][\A j \in Jobs :
        db'[j].status = "completed" => db'[j].chain_id = db[j].chain_id]_vars

Store == INSTANCE ScanStore WITH rows <- db

\* Readers see the abstract store: one step from pending to the outcome, with
\* no "running" before it, which is not what RunningIsShown quotes.
ImplementsScanStore == Store!Spec

\* A job whose chain context was captured reaches completed or failed, unless
\* its task is lost.
CapturedJobsSettle ==
    \A j \in Jobs :
        worker[j] = "analyzing" ~> (db[j].status \in Terminal \/ j \in lost)

\* "pending/running -> failed (on unexpected error)", the docstring of
\* process() says: a task that ran to its end left the job completed or failed.
ErrorsEndInFailed ==
    \A j \in Jobs :
        db[j] # NoRow /\ worker[j] = "idle" /\ j \notin lost => db[j].status \in Terminal

\* "Status progresses `pending` -> `running` -> `completed` (or `failed`) as the
\* background worker runs", the API says of GET /scans/{id}: no reader finds the
\* outcome of a job that was pending a moment before.
RunningIsShown ==
    [][\A j \in Jobs :
        db[j].status = "pending" => db'[j].status \in {"pending", "running"}]_vars

-----------------------------------------------------------------------------
(* The inductive invariant behind the safety properties.                   *)

Pending(j) == db[j].status = "pending"

\* A task in state w may carry row: it works on a pending job, the row is as
\* far as the state says, and what it brings to the commit is an outcome of
\* the job or, when it skipped the job, the job as it is.
Fits(j, w, row) ==
    /\ w = "loaded" => Pending(j) /\ row = db[j]
    /\ w = "started" => Pending(j) /\ row = Bare("running", Expected(j))
    /\ w \in {"analyzing", "failing"} =>
          Pending(j) /\ row = WithContext("running", endpoint[Expected(j)])
    /\ w = "stored" => Pending(j) /\ ChainMatches(j) /\ row = Whole("running", Expected(j))
    /\ w = "committing" =>
          \/ Pending(j) /\ row \in Store!Outcomes(db[j])
          \/ ~Pending(j) /\ row = db[j]

\* Every task carries a row that fits, and works on a job that exists.
LifecycleInv ==
    \A j \in Jobs :
        /\ Fits(j, worker[j], txn[j])
        /\ worker[j] # "idle" => db[j] # NoRow
=============================================================================
