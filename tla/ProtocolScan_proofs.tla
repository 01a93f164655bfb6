------------------------ MODULE ProtocolScan_proofs ------------------------
(***************************************************************************)
(* Proofs about the two halves of a protocol-wide scan: its scheduler, for *)
(* every finite graph, every number of workers and every retry policy, and *)
(* the discovery of the contracts, for every chain, registry and source,   *)
(* with the traversals of the graph it yields.                             *)
(***************************************************************************)
EXTENDS ProtocolScheduler, GraphTraversal, FiniteSetTheorems, SequenceTheorems, WellFoundedInduction, TLAPS

\* Every variable of the scheduler keeps its type; attempts stay within the
\* retry policy because a running scan has an attempt left.
LEMMA TypeStep == TypeOK /\ SchedulerInv /\ [Next]_vars => TypeOK'
<1> SUFFICES ASSUME TypeOK, SchedulerInv, [Next]_vars
             PROVE  TypeOK'
    OBVIOUS
<1> USE SchedulerAssumption DEF TypeOK, NodeScanStatus, TaskState, ErrorKind
<1>1. CASE StartBatch
    BY <1>1 DEF StartBatch
<1>2. CASE Finish
    BY <1>2 DEF Finish, Settled
<1>3. CASE MergeBatch
    BY <1>3 DEF MergeBatch
<1>4. ASSUME NEW n \in Nodes, Admit(n) PROVE TypeOK'
    BY <1>4 DEF Admit
<1>5. ASSUME NEW n \in Nodes, AttemptSucceeds(n) PROVE TypeOK'
    <2>1. attempts[n] < MaxAttempts
        BY <1>5 DEF AttemptSucceeds, SchedulerInv, AttemptsOfTasks
    <2> QED
        BY <1>5, <2>1 DEF AttemptSucceeds
<1>6. ASSUME NEW n \in Nodes, AttemptFails(n) PROVE TypeOK'
    <2>1. attempts[n] < MaxAttempts
        BY <1>6 DEF AttemptFails, SchedulerInv, AttemptsOfTasks
    <2> QED
        BY <1>6, <2>1 DEF AttemptFails
<1>7. CASE UNCHANGED vars
    BY <1>7 DEF vars
<1> QED
    BY <1>1, <1>2, <1>3, <1>4, <1>5, <1>6, <1>7 DEF Next

\* Starting a batch: exactly the ready nodes enter it.
LEMMA StartBatchInv ==
    ASSUME TypeOK, SchedulerInv, StartBatch
    PROVE  SchedulerInv'
<1> USE DEF Settled, Deps
<1>1. \A n \in Nodes : task[n] = "idle"
    BY DEF StartBatch, SchedulerInv, TasksOfBatch, TypeOK
<1>2. edges' = edges /\ phase' = "batch" /\ batches' = batches + 1 /\ batches \in Nat
      /\ attempts' = attempts
    BY DEF StartBatch, TypeOK
<1>3. \A n \in Ready : /\ n \in Nodes
                       /\ status[n] = "pending" /\ status'[n] = "pending"
                       /\ task'[n] = "waiting" /\ batchOf'[n] = batches + 1
    BY DEF StartBatch, Ready, Blocked, TypeOK
<1>4. \A n \in Nodes : n \notin Ready => task'[n] = "idle" /\ batchOf'[n] = batchOf[n]
    BY DEF StartBatch, TypeOK
<1>5. \A n \in Nodes : \/ status'[n] = status[n]
                       \/ status[n] = "pending" /\ status'[n] = "skipped" /\ n \notin Ready
    BY <1>3 DEF StartBatch, Blocked, TypeOK
<1>6. \A n \in Nodes : status[n] = "pending" => batchOf[n] = 0
    BY <1>1 DEF SchedulerInv, TasksOfBatch
<1>7. \A n \in Nodes : batchOf[n] \in 0 .. batches
    BY DEF SchedulerInv, TasksOfBatch
<1>8. \A d \in Nodes : status[d] = "completed" =>
          status'[d] = "completed" /\ d \notin Ready /\ batchOf[d] \in 1 .. batches
    BY <1>2, <1>3, <1>5, <1>7 DEF SchedulerInv, TasksOfBatch
<1>9. TasksOfBatch'
    BY <1>1, <1>2, <1>3, <1>4, <1>5, <1>6, <1>7 DEF SchedulerInv, TasksOfBatch
<1>10. BatchAfterDeps'
    <2> SUFFICES ASSUME NEW n \in Nodes, batchOf'[n] > 0, NEW d \in Nodes, <<d, n>> \in edges
                 PROVE  status'[d] = "completed" /\ batchOf'[d] < batchOf'[n]
        BY <1>2 DEF BatchAfterDeps
    <2>1. CASE n \in Ready
        BY <2>1, <1>2, <1>3, <1>4, <1>8 DEF Ready
    <2>2. CASE n \notin Ready
        BY <2>2, <1>4, <1>8 DEF SchedulerInv, BatchAfterDeps
    <2> QED
        BY <2>1, <2>2
<1>11. LeftOutMissesDep'
    <2> SUFFICES ASSUME NEW n \in Nodes, batchOf'[n] = 0, status'[n] = "pending"
                 PROVE  \E d \in Nodes : <<d, n>> \in edges /\ status'[d] # "completed"
        BY <1>2 DEF LeftOutMissesDep
    <2>1. n \notin Ready /\ status[n] = "pending"
        BY <1>2, <1>3, <1>5
    <2>2. PICK d \in Nodes : <<d, n>> \in edges /\ status[d] # "completed"
        BY <2>1 DEF Ready
    <2> QED
        BY <2>2, <1>5
<1>12. ReadyAfterBatch'
    BY <1>2 DEF ReadyAfterBatch
<1>13. AttemptsOfTasks'
    BY <1>1, <1>2, <1>3, <1>4, <1>6 DEF SchedulerInv, AttemptsOfTasks
<1>14. RetryAccounting'
    BY <1>1, <1>2, <1>5, <1>6 DEF SchedulerInv, RetryAccounting, AttemptsOfTasks
<1>15. EarliestBatch'
    <2> SUFFICES ASSUME NEW n \in Nodes, batchOf'[n] > 0
                 PROVE  /\ \A d \in Nodes : <<d, n>> \in edges => batchOf'[d] \in 1 .. batchOf'[n] - 1
                        /\ \/ batchOf'[n] = 1
                           \/ \E d \in Nodes : <<d, n>> \in edges /\ batchOf'[d] = batchOf'[n] - 1
        BY <1>2 DEF EarliestBatch
    <2>1. CASE n \in Ready
        <3>1. \A d \in Nodes : <<d, n>> \in edges => status[d] = "completed"
            BY <2>1 DEF Ready
        <3>2. batches = 0 \/ \E d \in Nodes : <<d, n>> \in edges /\ batchOf[d] = batches
            BY <2>1 DEF SchedulerInv, ReadyAfterBatch, StartBatch
        <3>3. batchOf'[n] = batches + 1
            BY <2>1, <1>3
        <3>4. \A d \in Nodes : <<d, n>> \in edges =>
                  batchOf'[d] = batchOf[d] /\ batchOf[d] \in 1 .. batches
            BY <3>1, <1>4, <1>8
        <3>5. \A d \in Nodes : <<d, n>> \in edges => batchOf'[d] \in 1 .. batchOf'[n] - 1
            BY <3>3, <3>4, <1>2
        <3>6. CASE batches = 0
            BY <3>3, <3>5, <3>6
        <3>7. CASE \E d \in Nodes : <<d, n>> \in edges /\ batchOf[d] = batches
            <4>1. PICK d \in Nodes : <<d, n>> \in edges /\ batchOf[d] = batches
                BY <3>7
            <4>2. batchOf'[d] = batchOf'[n] - 1
                BY <4>1, <3>3, <3>4, <1>2
            <4> QED
                BY <4>1, <4>2, <3>5
        <3> QED
            BY <3>2, <3>6, <3>7
    <2>2. CASE n \notin Ready
        <3>1. \A d \in Nodes : <<d, n>> \in edges => status[d] = "completed"
            BY <2>2, <1>4 DEF SchedulerInv, BatchAfterDeps
        <3> QED
            BY <2>2, <3>1, <1>4, <1>8 DEF SchedulerInv, EarliestBatch
    <2> QED
        BY <2>1, <2>2
<1> QED
    BY <1>9, <1>10, <1>11, <1>12, <1>13, <1>14, <1>15 DEF SchedulerInv

\* The last round gives up what is left; no node enters or leaves a batch.
LEMMA FinishInv ==
    ASSUME TypeOK, SchedulerInv, Finish
    PROVE  SchedulerInv'
<1> USE DEF Settled, Deps
<1>1. /\ edges' = edges /\ task' = task /\ attempts' = attempts
      /\ batchOf' = batchOf /\ batches' = batches /\ phase' = "done"
    BY DEF Finish
<1>2. \A n \in Nodes : \/ status'[n] = status[n] /\ status[n] # "pending"
                       \/ status[n] = "pending" /\ status'[n] = "skipped"
    BY DEF Finish, TypeOK
<1>3. \A n \in Nodes : task[n] = "idle"
    BY DEF Finish, SchedulerInv, TasksOfBatch, TypeOK
<1>4. TasksOfBatch'
    BY <1>1, <1>2, <1>3 DEF SchedulerInv, TasksOfBatch
<1>5. BatchAfterDeps'
    BY <1>1, <1>2 DEF SchedulerInv, BatchAfterDeps
<1>6. AttemptsOfTasks' /\ RetryAccounting'
    BY <1>1, <1>2, <1>3 DEF SchedulerInv, AttemptsOfTasks, RetryAccounting, TasksOfBatch
<1>7. EarliestBatch'
    BY <1>1 DEF SchedulerInv, EarliestBatch
<1> QED
    BY <1>1, <1>4, <1>5, <1>6, <1>7 DEF SchedulerInv, LeftOutMissesDep, ReadyAfterBatch

\* A step of one scan of the batch changes its task and its attempts only.
LEMMA TaskStepInv ==
    ASSUME TypeOK, SchedulerInv, NEW n \in Nodes,
           Admit(n) \/ AttemptSucceeds(n) \/ AttemptFails(n)
    PROVE  SchedulerInv'
<1> USE SchedulerAssumption DEF Deps
<1>1. /\ edges' = edges /\ status' = status /\ phase' = phase
      /\ batchOf' = batchOf /\ batches' = batches
    BY DEF Admit, AttemptSucceeds, AttemptFails
<1>2. task[n] \in {"waiting", "running"} /\ task'[n] # "idle"
    BY DEF Admit, AttemptSucceeds, AttemptFails, TypeOK
<1>3. \A m \in Nodes : m # n => task'[m] = task[m] /\ attempts'[m] = attempts[m]
    BY DEF Admit, AttemptSucceeds, AttemptFails, TypeOK
<1>4. /\ phase = "batch" /\ status[n] = "pending" /\ batchOf[n] = batches /\ batches > 0
      /\ task[n] = "running" => attempts[n] < MaxAttempts
      /\ task[n] = "waiting" => attempts[n] = 0
    BY <1>2 DEF SchedulerInv, TasksOfBatch, AttemptsOfTasks
<1>5. TasksOfBatch'
    BY <1>1, <1>2, <1>3, <1>4 DEF SchedulerInv, TasksOfBatch
<1>6. BatchAfterDeps' /\ LeftOutMissesDep' /\ EarliestBatch'
    BY <1>1 DEF SchedulerInv, BatchAfterDeps, LeftOutMissesDep, EarliestBatch
<1>7. ReadyAfterBatch'
    BY <1>1, <1>4 DEF ReadyAfterBatch
<1>8. \/ task'[n] = "running" /\ attempts'[n] < MaxAttempts
      \/ task'[n] = "succeeded" /\ attempts'[n] > 0
      \/ task'[n] = "exhausted" /\ attempts'[n] = MaxAttempts
    <2>1. CASE Admit(n)
        BY <2>1, <1>4 DEF Admit, TypeOK
    <2>2. CASE AttemptSucceeds(n)
        BY <2>2, <1>4 DEF AttemptSucceeds, TypeOK
    <2>3. CASE AttemptFails(n)
        BY <2>3, <1>4 DEF AttemptFails, RetriesLeft, TypeOK
    <2> QED
        BY <2>1, <2>2, <2>3
<1>9. AttemptsOfTasks'
    BY <1>1, <1>3, <1>4, <1>8 DEF SchedulerInv, AttemptsOfTasks
<1>10. RetryAccounting'
    BY <1>1, <1>3, <1>4 DEF SchedulerInv, RetryAccounting
<1> QED
    BY <1>5, <1>6, <1>7, <1>9, <1>10 DEF SchedulerInv

\* Merging turns the tasks of the batch into verdicts.
LEMMA MergeBatchInv ==
    ASSUME TypeOK, SchedulerInv, MergeBatch
    PROVE  SchedulerInv'
<1> USE SchedulerAssumption DEF Deps, Settled
<1>1. /\ edges' = edges /\ attempts' = attempts /\ phase = "batch" /\ phase' = "select"
      /\ batchOf' = batchOf /\ batches' = batches
    BY DEF MergeBatch
<1>2. \A n \in Nodes : task'[n] = "idle"
    BY DEF MergeBatch
<1>3. \A n \in Nodes : \/ task[n] = "idle" /\ status'[n] = status[n]
                       \/ task[n] = "succeeded" /\ status'[n] = "completed"
                       \/ task[n] = "exhausted" /\ status'[n] = "failed"
    BY DEF MergeBatch, TypeOK
<1>4. \A n \in Nodes : task[n] # "idle" =>
          status[n] = "pending" /\ batchOf[n] = batches /\ batchOf[n] # 0
    BY DEF SchedulerInv, TasksOfBatch
<1>5. TasksOfBatch'
    BY <1>1, <1>2, <1>3, <1>4 DEF SchedulerInv, TasksOfBatch
<1>6. BatchAfterDeps'
    BY <1>1, <1>3, <1>4 DEF SchedulerInv, BatchAfterDeps
<1>7. ReadyAfterBatch'
    <2> SUFFICES ASSUME NEW n \in Nodes, status'[n] = "pending",
                        \A d \in Nodes : <<d, n>> \in edges => status'[d] = "completed"
                 PROVE  \E d \in Nodes : <<d, n>> \in edges /\ batchOf[d] = batches
        BY <1>1 DEF ReadyAfterBatch, Ready
    <2>1. task[n] = "idle" /\ status[n] = "pending"
        BY <1>3
    <2>2. PICK d \in Nodes : <<d, n>> \in edges /\ status[d] # "completed"
        BY <2>1, <1>1 DEF SchedulerInv, TasksOfBatch, LeftOutMissesDep
    <2>3. task[d] # "idle"
        BY <2>2, <1>3
    <2> QED
        BY <2>2, <2>3, <1>4
<1>8. AttemptsOfTasks'
    BY <1>1, <1>2 DEF SchedulerInv, AttemptsOfTasks
<1>9. RetryAccounting'
    <2> SUFFICES ASSUME NEW n \in Nodes
                 PROVE  /\ status'[n] = "failed" => attempts[n] = MaxAttempts
                        /\ status'[n] = "skipped" => attempts[n] = 0
                        /\ status'[n] = "completed" => attempts[n] \in 1 .. MaxAttempts
        BY <1>1 DEF RetryAccounting
    <2>1. attempts[n] \in 0 .. MaxAttempts
        BY DEF TypeOK
    <2> QED
        BY <2>1, <1>3 DEF SchedulerInv, RetryAccounting, AttemptsOfTasks
<1>10. EarliestBatch'
    BY <1>1 DEF SchedulerInv, EarliestBatch
<1> QED
    BY <1>1, <1>5, <1>6, <1>7, <1>8, <1>9, <1>10 DEF SchedulerInv, LeftOutMissesDep

LEMMA InitInv == Init => TypeOK /\ SchedulerInv
BY SchedulerAssumption
   DEF Init, TypeOK, SchedulerInv, NodeScanStatus, TaskState, ErrorKind, Ready, Deps,
       TasksOfBatch, BatchAfterDeps, LeftOutMissesDep, ReadyAfterBatch, AttemptsOfTasks,
       RetryAccounting, EarliestBatch, Settled

LEMMA InvStep == TypeOK /\ SchedulerInv /\ [Next]_vars => SchedulerInv'
<1> SUFFICES ASSUME TypeOK, SchedulerInv, [Next]_vars
             PROVE  SchedulerInv'
    OBVIOUS
<1>1. CASE UNCHANGED vars
    BY <1>1 DEF vars, SchedulerInv, TasksOfBatch, BatchAfterDeps, LeftOutMissesDep,
                ReadyAfterBatch, AttemptsOfTasks, RetryAccounting, EarliestBatch,
                Deps, Ready, Settled
<1> QED
    BY <1>1, StartBatchInv, FinishInv, MergeBatchInv, TaskStepInv DEF Next

THEOREM SchedulerInvariant == Spec => [](TypeOK /\ SchedulerInv)
<1>1. TypeOK /\ SchedulerInv /\ [Next]_vars => (TypeOK /\ SchedulerInv)'
    BY TypeStep, InvStep
<1> QED
    BY InitInv, <1>1, PTL DEF Spec

-----------------------------------------------------------------------------
(* The properties of the scheduler.                                        *)

\* Types, with the bound of the retry policy on the attempts of every node.
THEOREM TypeCorrect == Spec => []TypeOK
BY SchedulerInvariant, PTL

\* A scan is started only after everything the node depends on was scanned
\* successfully: whatever was attempted is in a batch, and BatchAfterDeps.
THEOREM DependencyOrder == Spec => []DependenciesFirst
<1>1. TypeOK /\ SchedulerInv => DependenciesFirst
    <2> SUFFICES ASSUME TypeOK, SchedulerInv, NEW n \in Nodes,
                        attempts[n] > 0 \/ task[n] # "idle" \/ status[n] \in {"completed", "failed"}
                 PROVE  \A d \in Deps(n) : status[d] = "completed"
        BY DEF DependenciesFirst
    <2>1. batchOf[n] # 0
        BY DEF TypeOK, SchedulerInv, TasksOfBatch, AttemptsOfTasks
    <2>2. batchOf[n] > 0
        BY <2>1 DEF TypeOK
    <2> QED
        BY <2>2 DEF SchedulerInv, BatchAfterDeps
<1> QED
    BY <1>1, SchedulerInvariant, PTL

\* A failed node used up the attempts of the policy, a skipped one none.
THEOREM RetriesAccounted == Spec => []RetryAccounting
<1>1. TypeOK /\ SchedulerInv => RetryAccounting
    BY DEF SchedulerInv
<1> QED
    BY <1>1, SchedulerInvariant, PTL

\* Every node is scanned in the earliest round its dependencies allow.
THEOREM NoIdleRounds == Spec => []EarliestBatch
<1>1. TypeOK /\ SchedulerInv => EarliestBatch
    BY DEF SchedulerInv
<1> QED
    BY <1>1, SchedulerInvariant, PTL

\* The semaphore bounds the analyses in flight: admitting takes a free slot,
\* and every other step only shrinks the set of running scans.
THEOREM ConcurrencyBound == Spec => []WorkersBounded
<1> USE SchedulerAssumption
<1>1. Init => WorkersBounded
    <2>1. Init => Running = {}
        BY DEF Init, Running
    <2>2. Cardinality({}) = 0
        BY FS_EmptySet
    <2> QED
        BY <2>1, <2>2 DEF WorkersBounded
<1>2. TypeOK /\ WorkersBounded /\ [Next]_vars => WorkersBounded'
    <2> SUFFICES ASSUME TypeOK, WorkersBounded, [Next]_vars
                 PROVE  WorkersBounded'
        OBVIOUS
    <2>1. IsFiniteSet(Running) /\ Cardinality(Running) \in Nat
        BY FS_Subset, FS_CardinalityType DEF Running
    <2>2. ASSUME Running' \subseteq Running PROVE WorkersBounded'
        BY <2>1, <2>2, FS_Subset, FS_CardinalityType DEF WorkersBounded
    <2>3. ASSUME NEW n \in Nodes, Admit(n) PROVE WorkersBounded'
        <3>1. Running' = Running \cup {n} /\ n \notin Running
            BY <2>3 DEF Admit, Running, TypeOK
        <3>2. Cardinality(Running') = Cardinality(Running) + 1
            BY <3>1, <2>1, FS_AddElement
        <3> QED
            BY <3>2, <2>1, <2>3 DEF Admit, SlotFree, WorkersBounded
    <2>4. CASE StartBatch
        BY <2>4, <2>2 DEF StartBatch, Running
    <2>5. CASE Finish
        BY <2>5, <2>2 DEF Finish, Running
    <2>6. CASE MergeBatch
        BY <2>6, <2>2 DEF MergeBatch, Running
    <2>7. ASSUME NEW n \in Nodes, AttemptSucceeds(n) \/ AttemptFails(n) PROVE WorkersBounded'
        BY <2>7, <2>2 DEF AttemptSucceeds, AttemptFails, Running, TypeOK
    <2>8. CASE UNCHANGED vars
        BY <2>8, <2>2 DEF vars, Running
    <2> QED
        BY <2>3, <2>4, <2>5, <2>6, <2>7, <2>8 DEF Next
<1> QED
    BY <1>1, <1>2, TypeCorrect, PTL DEF Spec

\* The reason given for a skipped node is true and stays true: a dependency
\* that failed stays failed, and after the last round nothing fails any more.
THEOREM SkipReasonsTrue == Spec => []SkipReasons
<1> DEFINE Explained(n) ==
        status[n] = "skipped" =>
            \/ error[n] = "dependency_failed" /\ \E d \in Deps(n) : status[d] = "failed"
            \/ /\ error[n] = "unresolved_dependencies" /\ phase = "done"
               /\ \A d \in Deps(n) : status[d] # "failed"
           Inv == \A n \in Nodes : Explained(n)
<1>1. Init => Inv
    BY DEF Init
<1>2. TypeOK /\ SchedulerInv /\ Inv /\ [Next]_vars => Inv'
    <2> SUFFICES ASSUME TypeOK, SchedulerInv, Inv, [Next]_vars
                 PROVE  Inv'
        OBVIOUS
    <2> SUFFICES ASSUME NEW n \in Nodes PROVE Explained(n)'
        OBVIOUS
    <2> USE DEF Deps, Settled
    <2>0. Explained(n)
        OBVIOUS
    <2>1. CASE StartBatch
        BY <2>0, <2>1 DEF StartBatch, Blocked, TypeOK, NodeScanStatus
    <2>2. CASE Finish
        BY <2>0, <2>2 DEF Finish, Blocked, TypeOK, NodeScanStatus
    <2>3. CASE MergeBatch
        <3>1. \A m \in Nodes : task[m] # "idle" => status[m] = "pending"
            BY DEF SchedulerInv, TasksOfBatch
        <3>2. \A m \in Nodes : \/ task[m] = "idle" /\ status'[m] = status[m] /\ error'[m] = error[m]
                               \/ task[m] # "idle" /\ status'[m] \in {"completed", "failed"}
            BY <2>3 DEF MergeBatch, TypeOK
        <3> QED
            BY <2>0, <2>3, <3>1, <3>2 DEF MergeBatch
    <2>4. ASSUME NEW m \in Nodes, Admit(m) \/ AttemptSucceeds(m) \/ AttemptFails(m)
          PROVE  Explained(n)'
        BY <2>0, <2>4 DEF Admit, AttemptSucceeds, AttemptFails
    <2>5. CASE UNCHANGED vars
        BY <2>0, <2>5 DEF vars
    <2> QED
        BY <2>1, <2>2, <2>3, <2>4, <2>5 DEF Next
<1>3. Inv => SkipReasons
    BY DEF SkipReasons
<1> QED
    BY <1>1, <1>2, <1>3, SchedulerInvariant, PTL DEF Spec

\* The scheduler, its pool and its retries implement the abstract scan: a
\* round that starts a batch gives up the blocked nodes, the merge of a batch
\* gives their verdicts to nodes that could run, the last round gives up the
\* rest, and everything in between is invisible.
THEOREM Refinement == Spec => ImplementsDependencyScan
<1> USE SchedulerAssumption DEF DS!Deps, Deps
<1>1. Init => DS!Init
    BY DEF Init, DS!Init
<1>2. TypeOK /\ SchedulerInv /\ [Next]_vars => [DS!Next]_<<edges, status>>
    <2> SUFFICES ASSUME TypeOK, SchedulerInv, [Next]_vars
                 PROVE  [DS!Next]_<<edges, status>>
        OBVIOUS
    <2>1. CASE StartBatch
        <3>1. DS!GiveUpBlocked
            BY <2>1 DEF StartBatch, DS!GiveUpBlocked, DS!Blocked, Blocked, Settled
        <3> QED
            BY <3>1 DEF DS!Next
    <2>2. CASE Finish
        <3>1. DS!GiveUpRest
            BY <2>2 DEF Finish, OutOfWork, Ready, Settled, DS!GiveUpRest, DS!Enabled
        <3> QED
            BY <3>1 DEF DS!Next
    <2>3. CASE MergeBatch
        <3> DEFINE S == {n \in Nodes : task[n] # "idle"}
                   verdict == [n \in S |-> IF task[n] = "succeeded" THEN "completed" ELSE "failed"]
        <3>1. \A n \in S : status[n] = "pending" /\ \A d \in Deps(n) : status[d] = "completed"
            <4> SUFFICES ASSUME NEW n \in S
                         PROVE  status[n] = "pending" /\ \A d \in Deps(n) : status[d] = "completed"
                OBVIOUS
            <4>1. batchOf[n] # 0 /\ status[n] = "pending"
                BY DEF SchedulerInv, TasksOfBatch
            <4>2. batchOf[n] > 0
                BY <4>1 DEF TypeOK
            <4> QED
                BY <4>1, <4>2 DEF SchedulerInv, BatchAfterDeps
        <3>2. S \in SUBSET {n \in Nodes : DS!Enabled(n)}
            BY <3>1 DEF DS!Enabled
        <3>3. verdict \in [S -> {"completed", "failed"}]
            OBVIOUS
        <3>4. status' = [n \in Nodes |-> IF n \in S THEN verdict[n] ELSE status[n]]
            BY <2>3 DEF MergeBatch
        <3>5. DS!Scan
            BY <3>2, <3>3, <3>4, <2>3 DEF MergeBatch, DS!Scan
        <3> QED
            BY <3>5 DEF DS!Next
    <2>4. ASSUME NEW n \in Nodes, Admit(n) \/ AttemptSucceeds(n) \/ AttemptFails(n)
          PROVE  UNCHANGED <<edges, status>>
        BY <2>4 DEF Admit, AttemptSucceeds, AttemptFails
    <2>5. CASE UNCHANGED vars
        BY <2>5 DEF vars
    <2> QED
        BY <2>1, <2>2, <2>3, <2>4, <2>5 DEF Next
<1> QED
    BY <1>1, <1>2, SchedulerInvariant, PTL DEF Spec, ImplementsDependencyScan, DS!Spec

-----------------------------------------------------------------------------
(* Induction over the numbers and over the subsets of a finite set, in the *)
(* form of a least element.                                                *)

LEMMA LeastNumber ==
    ASSUME NEW T \in SUBSET Nat, T # {}
    PROVE  \E x \in T : \A y \in T : x <= y
<1> DEFINE Less == {ss \in Nat \X Nat : ss[1] < ss[2]}
<1>1. IsWellFoundedOn(Less, Nat)
    BY NatLessThanWellFounded DEF OpToRel
<1> HIDE DEF Less
<1>2. PICK x \in T : \A y \in T : ~ (<<y, x>> \in Less)
    BY <1>1, WFMin
<1>3. \A y \in T : ~ (y < x)
    BY <1>2 DEF Less
<1> QED
    BY <1>3

LEMMA LeastSubset ==
    ASSUME NEW S, IsFiniteSet(S), NEW T \in SUBSET SUBSET S, T # {}
    PROVE  \E x \in T : \A y \in T : y \subseteq x => y = x
<1>1. T \subseteq FiniteSubsetsOf(S)
    BY FS_Subset DEF FiniteSubsetsOf
<1>2. PICK x \in T : \A y \in T : ~ (<<y, x>> \in StrictSubsetOrdering(S))
    BY <1>1, FS_StrictSubsetOrderingWellFounded, WFMin
<1> QED
    BY <1>2 DEF StrictSubsetOrdering

\* The layers of the static plan exist: what Planned's recursion says holds.
\* Up to any layer there is one sequence that obeys it, and the sequences up to two
\* layers agree where both are defined.
LEMMA PlannedLayers ==
    /\ Planned[0] = {}
    /\ \A k \in Nat : Planned[k + 1] = Planned[k] \cup {n \in Nodes : Deps(n) \subseteq Planned[k]}
<1> DEFINE Onward(X) == X \cup {n \in Nodes : Deps(n) \subseteq X}
           Obeys(g, N) == g[0] = {} /\ \A k \in 1 .. N : g[k] = Onward(g[k - 1])
<1> HIDE DEF Onward
<1>1. \A N \in Nat : \E g : Obeys(g, N)
    <2> DEFINE Bad == {N \in Nat : ~ \E g : Obeys(g, N)}
    <2> SUFFICES ASSUME Bad # {} PROVE FALSE
        OBVIOUS
    <2>1. PICK N \in Bad : \A M \in Bad : N <= M
        BY LeastNumber
    <2>2. CASE N = 0
        <3>1. Obeys([k \in {0} |-> {}], 0)
            OBVIOUS
        <3> QED
            BY <2>1, <2>2, <3>1
    <2>3. CASE N # 0
        <3>0. N \in Nat /\ N # 0 /\ ~ (N <= N - 1)
            BY <2>3
        <3>1. N - 1 \in Nat /\ N - 1 \notin Bad
            BY <2>1, <3>0
        <3>2. PICK g : Obeys(g, N - 1)
            BY <3>1
        <3> DEFINE h == [k \in 0 .. N |-> IF k = N THEN Onward(g[N - 1]) ELSE g[k]]
        <3>3. h[0] = {}
            BY <3>2, <2>3, <3>1
        <3>4. ASSUME NEW k \in 1 .. N PROVE h[k] = Onward(h[k - 1])
            <4>1. CASE k = N
                BY <4>1, <3>1
            <4>2. CASE k # N
                <5>1. k \in 1 .. N - 1 /\ k \in 0 .. N /\ k - 1 \in 0 .. N /\ k - 1 # N
                    BY <4>2, <3>1
                <5>2. h[k] = g[k] /\ h[k - 1] = g[k - 1]
                    BY <5>1, <4>2
                <5> QED
                    BY <5>1, <5>2, <3>2
            <4> QED
                BY <4>1, <4>2
        <3>5. Obeys(h, N)
            BY <3>3, <3>4
        <3> QED
            BY <3>5, <2>1
    <2> QED
        BY <2>2, <2>3
<1>2. ASSUME NEW g, NEW h, NEW M \in Nat, NEW N \in Nat, Obeys(g, M), Obeys(h, N)
      PROVE  \A k \in Nat : k <= M /\ k <= N => g[k] = h[k]
    <2> DEFINE Bad == {k \in Nat : k <= M /\ k <= N /\ g[k] # h[k]}
    <2> SUFFICES ASSUME Bad # {} PROVE FALSE
        OBVIOUS
    <2>1. PICK k \in Bad : \A j \in Bad : k <= j
        BY LeastNumber
    <2>2. k # 0
        BY <1>2
    <2>3. k - 1 \in Nat /\ k - 1 \notin Bad /\ k \in 1 .. M /\ k \in 1 .. N
        BY <2>1, <2>2
    <2>4. g[k - 1] = h[k - 1]
        BY <2>3
    <2>5. g[k] = Onward(g[k - 1]) /\ h[k] = Onward(h[k - 1])
        BY <1>2, <2>3
    <2> QED
        BY <2>4, <2>5
<1> DEFINE G(N) == CHOOSE g : Obeys(g, N)
           F == [k \in Nat |-> G(k)[k]]
<1>3. \A N \in Nat : Obeys(G(N), N)
    BY <1>1
<1> HIDE DEF G
<1>4. F[0] = {}
    BY <1>3
<1>5. ASSUME NEW k \in Nat PROVE F[k + 1] = Onward(F[k])
    <2>1. G(k + 1)[k + 1] = Onward(G(k + 1)[k])
        <3>1. k + 1 \in Nat /\ k + 1 \in 1 .. k + 1 /\ (k + 1) - 1 = k
            OBVIOUS
        <3> HIDE DEF F
        <3> QED
            BY <3>1, <1>3
    <2>2. G(k + 1)[k] = G(k)[k]
        <3>1. k + 1 \in Nat /\ k <= k /\ k <= k + 1
            OBVIOUS
        <3>2. Obeys(G(k + 1), k + 1) /\ Obeys(G(k), k)
            BY <3>1, <1>3
        <3> HIDE DEF F, Obeys
        <3> QED
            BY <3>1, <3>2, <1>2
    <2> QED
        BY <2>1, <2>2
<1>6. F = [k \in Nat |-> IF k = 0 THEN {} ELSE F[k - 1] \cup {n \in Nodes : Deps(n) \subseteq F[k - 1]}]
    <2>1. \A k \in Nat : F[k] = IF k = 0 THEN {} ELSE F[k - 1] \cup {n \in Nodes : Deps(n) \subseteq F[k - 1]}
        <3> SUFFICES ASSUME NEW k \in Nat, k # 0
                     PROVE  F[k] = Onward(F[k - 1])
            BY <1>4 DEF Onward
        <3>1. k - 1 \in Nat /\ (k - 1) + 1 = k
            OBVIOUS
        <3> HIDE DEF F
        <3> QED
            BY <3>1, <1>5
    <2>2. F = [k \in Nat |-> F[k]]
        OBVIOUS
    <2> HIDE DEF F
    <2> QED
        BY <2>1, <2>2
<1> HIDE DEF F
<1>7. Planned = [k \in Nat |-> IF k = 0 THEN {}
                               ELSE Planned[k - 1] \cup {n \in Nodes : Deps(n) \subseteq Planned[k - 1]}]
    BY <1>6 DEF Planned
<1>8. Planned[0] = {}
    BY <1>7
<1>9. ASSUME NEW k \in Nat
      PROVE Planned[k + 1] = Planned[k] \cup {n \in Nodes : Deps(n) \subseteq Planned[k]}
    <2>1. k + 1 \in Nat /\ k + 1 # 0 /\ (k + 1) - 1 = k
        OBVIOUS
    <2>2. Planned[k + 1] = Planned[(k + 1) - 1] \cup {n \in Nodes : Deps(n) \subseteq Planned[(k + 1) - 1]}
        BY <2>1, <1>7
    <2> QED
        BY <2>1, <2>2
<1> QED
    BY <1>8, <1>9

\* A node that is scanned in the earliest round its dependencies allow is in
\* no earlier layer of the plan: the first layer that holds such a node too
\* early holds all its dependencies earlier still, one of them too early.
LEMMA NotEarlierThanPlanned ==
    ASSUME TypeOK, EarliestBatch
    PROVE  \A k \in Nat : \A n \in Nodes : batchOf[n] > 0 /\ n \in Planned[k] => batchOf[n] <= k
<1> DEFINE Bad == {k \in Nat : \E n \in Nodes : batchOf[n] > k /\ n \in Planned[k]}
<1>1. \A n \in Nodes : batchOf[n] \in Nat
    BY DEF TypeOK
<1>2. ASSUME Bad # {} PROVE FALSE
    <2>1. PICK k \in Bad : \A j \in Bad : k <= j
        BY <1>2, LeastNumber
    <2>2. PICK n \in Nodes : batchOf[n] > k /\ n \in Planned[k]
        BY <2>1
    <2>3. k \in Nat /\ k # 0
        BY <2>2, PlannedLayers
    <2>4. k - 1 \in Nat /\ (k - 1) + 1 = k /\ ~ (k <= k - 1)
        BY <2>3
    <2>5. k - 1 \notin Bad
        BY <2>1, <2>4
    <2>6. n \notin Planned[k - 1]
        BY <2>2, <2>3, <2>4, <2>5, <1>1
    <2>7. Planned[k] = Planned[k - 1] \cup {m \in Nodes : Deps(m) \subseteq Planned[k - 1]}
        BY <2>4, PlannedLayers
    <2>8. Deps(n) \subseteq Planned[k - 1]
        BY <2>2, <2>6, <2>7
    <2>9. batchOf[n] > 1
        BY <2>2, <2>3, <1>1
    <2>10. PICK d \in Deps(n) : batchOf[d] = batchOf[n] - 1
        BY <2>9, <1>1 DEF EarliestBatch
    <2>11. d \in Nodes /\ batchOf[d] > k - 1
        BY <2>2, <2>3, <2>10, <1>1 DEF Deps
    <2> QED
        BY <2>4, <2>5, <2>8, <2>10, <2>11
<1> QED
    BY <1>1, <1>2

\* Nor is it in a later one.
LEMMA NotLaterThanPlanned ==
    ASSUME TypeOK, EarliestBatch
    PROVE  \A n \in Nodes : batchOf[n] > 0 => n \in Planned[batchOf[n]]
<1> DEFINE Bad == {k \in Nat : \E n \in Nodes : k > 0 /\ batchOf[n] <= k /\ batchOf[n] > 0 /\ n \notin Planned[k]}
<1>1. \A n \in Nodes : batchOf[n] \in Nat
    BY DEF TypeOK
<1>2. ASSUME Bad # {} PROVE FALSE
    <2>1. PICK k \in Bad : \A j \in Bad : k <= j
        BY <1>2, LeastNumber
    <2>2. PICK n \in Nodes : k > 0 /\ batchOf[n] <= k /\ batchOf[n] > 0 /\ n \notin Planned[k]
        BY <2>1
    <2>3. k - 1 \in Nat /\ (k - 1) + 1 = k /\ ~ (k <= k - 1)
        BY <2>2
    <2>4. k - 1 \notin Bad
        BY <2>1, <2>3
    <2>5. Planned[k] = Planned[k - 1] \cup {m \in Nodes : Deps(m) \subseteq Planned[k - 1]}
        BY <2>3, PlannedLayers
    <2>6. PICK d \in Deps(n) : d \notin Planned[k - 1]
        BY <2>2, <2>5
    <2>7. d \in Nodes /\ batchOf[d] \in 1 .. batchOf[n] - 1
        BY <2>2, <2>6 DEF EarliestBatch, Deps
    <2>8. k - 1 > 0 /\ batchOf[d] <= k - 1 /\ batchOf[d] > 0
        BY <2>2, <2>3, <2>7, <1>1
    <2> QED
        BY <2>3, <2>4, <2>6, <2>7, <2>8
<1> QED
    BY <1>1, <1>2

\* Whatever fails on the way, a node that is scanned at all is scanned in the
\* batch the static plan puts it in.
THEOREM PlanFollowed == Spec => []PlanAgreement
<1>1. ASSUME TypeOK, SchedulerInv PROVE PlanAgreement
    <2> SUFFICES ASSUME NEW n \in Nodes, batchOf[n] > 0
                 PROVE  n \in Planned[batchOf[n]] \ Planned[batchOf[n] - 1]
        BY DEF PlanAgreement
    <2>1. EarliestBatch
        BY <1>1 DEF SchedulerInv
    <2>2. batchOf[n] \in Nat
        BY <1>1 DEF TypeOK
    <2>3. batchOf[n] - 1 \in Nat /\ ~ (batchOf[n] <= batchOf[n] - 1)
        BY <2>2
    <2> QED
        BY <1>1, <2>1, <2>3, NotLaterThanPlanned, NotEarlierThanPlanned
<1> QED
    BY <1>1, SchedulerInvariant, PTL

-----------------------------------------------------------------------------
(* Failure isolation.                                                      *)

\* Ancestors(n) is closed: it holds n's dependencies and those of its members.
LEMMA AncestorsClosed ==
    ASSUME NEW n \in Nodes
    PROVE  /\ Ancestors(n) \subseteq Nodes
           /\ Deps(n) \subseteq Ancestors(n)
           /\ \A k \in Ancestors(n) : Deps(k) \subseteq Ancestors(n)
<1>1. \A k \in Nodes : Deps(k) \subseteq Nodes
    BY DEF Deps
<1> QED
    BY <1>1 DEF Ancestors

\* ... and is the least such set.
LEMMA AncestorsLeast ==
    ASSUME NEW n \in Nodes, NEW S \in SUBSET Nodes,
           Deps(n) \subseteq S, \A k \in S : Deps(k) \subseteq S
    PROVE  Ancestors(n) \subseteq S
BY DEF Ancestors

LEMMA AncestorsOfDep ==
    ASSUME NEW n \in Nodes, NEW m \in Ancestors(n)
    PROVE  m \in Nodes /\ Ancestors(m) \subseteq Ancestors(n)
<1>1. m \in Nodes /\ Ancestors(n) \in SUBSET Nodes
    BY AncestorsClosed
<1> QED
    BY <1>1, AncestorsClosed, AncestorsLeast

\* A set of nodes each of which has a dependency in the set reaches a cycle: the
\* dependency of the one with fewest ancestors is an ancestor of its own.
LEMMA CycleBehind ==
    ASSUME NEW T \in SUBSET Nodes, T # {}, \A x \in T : Deps(x) \cap T # {}
    PROVE  \E m \in T : OnCycle(m)
<1> DEFINE A == {Ancestors(x) : x \in T}
<1>1. A # {} /\ A \in SUBSET SUBSET Nodes
    BY AncestorsClosed
<1> HIDE DEF A
<1>2. PICK a \in A : \A b \in A : b \subseteq a => b = a
    <2>1. IsFiniteSet(Nodes)
        BY SchedulerAssumption
    <2>2. \E x \in A : \A y \in A : y \subseteq x => y = x
        BY <1>1, <2>1, LeastSubset
    <2> QED
        BY <2>2
<1>3. PICK x \in T : a = Ancestors(x)
    BY <1>2 DEF A
<1>4. PICK y \in Deps(x) : y \in T
    OBVIOUS
<1>5. y \in Ancestors(x)
    BY <1>4, AncestorsClosed
<1>6. Ancestors(y) \subseteq Ancestors(x)
    BY <1>5, AncestorsOfDep
<1>7. Ancestors(y) = Ancestors(x)
    BY <1>2, <1>3, <1>4, <1>6 DEF A
<1> QED
    BY <1>4, <1>5, <1>7 DEF OnCycle

\* A node is given up because of a dependency without a successful scan: one
\* that failed, until the last round gives up the rest.
GivenUpInv ==
    /\ \A n \in Nodes : status[n] = "skipped" =>
          \E d \in Deps(n) : status[d] = "failed" \/ (phase = "done" /\ status[d] = "skipped")
    /\ phase = "done" => \A n \in Nodes : status[n] # "pending"

LEMMA GivenUpInvariant == Spec => []GivenUpInv
<1>1. Init => GivenUpInv
    BY DEF Init, GivenUpInv
<1>2. TypeOK /\ SchedulerInv /\ GivenUpInv /\ [Next]_vars => GivenUpInv'
    <2> SUFFICES ASSUME TypeOK, SchedulerInv, GivenUpInv, [Next]_vars
                 PROVE  GivenUpInv'
        OBVIOUS
    <2> USE DEF GivenUpInv
    <2>1. CASE StartBatch
        BY <2>1 DEF StartBatch, Blocked, Deps, Settled, TypeOK
    <2>2. CASE Finish
        <3>1. \A n \in Nodes : /\ status[n] # "pending" => status'[n] = status[n]
                               /\ status[n] = "pending" => status'[n] = "skipped"
            BY <2>2 DEF Finish, Settled
        <3>2. \A n \in Nodes : status[n] = "pending" => \E d \in Deps(n) : status[d] # "completed"
            BY <2>2 DEF Finish, OutOfWork, Ready, Settled
        <3>3. \A n \in Nodes : status[n] \in NodeScanStatus
            BY DEF TypeOK
        <3>4. edges' = edges /\ phase' = "done"
            BY <2>2 DEF Finish
        <3> QED
            BY <3>1, <3>2, <3>3, <3>4 DEF Deps, NodeScanStatus
    <2>3. CASE MergeBatch
        <3>1. \A n \in Nodes : task[n] # "idle" => status[n] = "pending"
            BY DEF SchedulerInv, TasksOfBatch
        <3>2. \A n \in Nodes : \/ status'[n] = status[n]
                               \/ status[n] = "pending" /\ status'[n] \in {"completed", "failed"}
            BY <2>3, <3>1 DEF MergeBatch, TypeOK
        <3>3. edges' = edges /\ phase = "batch" /\ phase' = "select"
            BY <2>3 DEF MergeBatch
        <3> QED
            BY <3>2, <3>3 DEF Deps
    <2>4. ASSUME NEW m \in Nodes, Admit(m) \/ AttemptSucceeds(m) \/ AttemptFails(m)
          PROVE  GivenUpInv'
        BY <2>4 DEF Admit, AttemptSucceeds, AttemptFails, Deps
    <2>5. CASE UNCHANGED vars
        BY <2>5 DEF vars, Deps
    <2> QED
        BY <2>1, <2>2, <2>3, <2>4, <2>5 DEF Next
<1> QED
    BY <1>1, <1>2, SchedulerInvariant, PTL DEF Spec

\* When run() returns, the nodes given up are exactly those with a failed
\* ancestor and those on or behind a cycle, in whatever graph.
THEOREM FailureIsolated == Spec => []SkippedExactly
<1>1. ASSUME TypeOK, SchedulerInv, GivenUpInv, phase = "done", NEW n \in Nodes
      PROVE  /\ status[n] # "pending"
             /\ status[n] = "skipped" <=>
                  \/ \E m \in Ancestors(n) : status[m] = "failed"
                  \/ \E m \in Ancestors(n) \cup {n} : OnCycle(m)
    <2> DEFINE Completed == {k \in Nodes : status[k] = "completed"}
    <2>1. \A k \in Nodes : status[k] \in {"completed", "failed", "skipped"}
        BY <1>1 DEF TypeOK, NodeScanStatus, GivenUpInv
    <2>2. \A k \in Nodes : status[k] # "skipped" =>
              batchOf[k] > 0 /\ \A d \in Deps(k) : status[d] = "completed" /\ batchOf[d] < batchOf[k]
        <3> SUFFICES ASSUME NEW k \in Nodes, status[k] # "skipped"
                     PROVE batchOf[k] > 0 /\ \A d \in Deps(k) : status[d] = "completed" /\ batchOf[d] < batchOf[k]
            OBVIOUS
        <3>1. batchOf[k] # 0 /\ batchOf[k] \in Nat
            BY <1>1, <2>1 DEF SchedulerInv, TasksOfBatch, TypeOK
        <3> QED
            BY <1>1, <3>1 DEF SchedulerInv, BatchAfterDeps
    <2>3. ASSUME status[n] = "skipped", \A m \in Ancestors(n) : status[m] # "failed"
          PROVE  \E m \in Ancestors(n) \cup {n} : OnCycle(m)
        <3> DEFINE T == {k \in Ancestors(n) \cup {n} : status[k] = "skipped"}
        <3>1. T \in SUBSET Nodes /\ T # {}
            BY <2>3, AncestorsClosed
        <3>2. ASSUME NEW x \in T PROVE Deps(x) \cap T # {}
            <4>1. x \in Nodes /\ Deps(x) \subseteq Ancestors(n)
                BY <3>1, AncestorsClosed
            <4>2. PICK d \in Deps(x) : status[d] \in {"failed", "skipped"}
                BY <1>1, <4>1 DEF GivenUpInv
            <4> QED
                BY <2>3, <4>1, <4>2
        <3> HIDE DEF T
        <3>3. \E m \in T : OnCycle(m)
            BY <3>1, <3>2, CycleBehind
        <3> QED
            BY <3>3 DEF T
    <2>4. ASSUME status[n] # "skipped" PROVE Ancestors(n) \subseteq Completed
        <3>1. Completed \in SUBSET Nodes /\ Deps(n) \subseteq Completed
            BY <2>2, <2>4 DEF Deps
        <3>2. \A k \in Completed : Deps(k) \subseteq Completed
            BY <2>2 DEF Deps
        <3> QED
            BY <3>1, <3>2, AncestorsLeast
    <2>5. ASSUME NEW m \in Nodes, status[m] # "skipped", OnCycle(m) PROVE FALSE
        <3> DEFINE S == {k \in Nodes : status[k] # "skipped" /\ batchOf[k] < batchOf[m]}
        <3>1. \A k \in Nodes : batchOf[k] \in Nat
            BY <1>1 DEF TypeOK
        <3>2. S \in SUBSET Nodes /\ Deps(m) \subseteq S
            BY <2>2, <2>5 DEF Deps
        <3>3. \A k \in S : Deps(k) \subseteq S
            BY <2>2, <3>1 DEF Deps
        <3>4. Ancestors(m) \subseteq S
            BY <3>2, <3>3, AncestorsLeast
        <3> QED
            BY <2>5, <3>1, <3>4 DEF OnCycle
    <2>6. ASSUME status[n] # "skipped" PROVE \A m \in Ancestors(n) \cup {n} : ~ OnCycle(m)
        BY <2>4, <2>5, <2>6
    <2> HIDE DEF Completed
    <2>7. ASSUME status[n] # "skipped" PROVE \A m \in Ancestors(n) : status[m] # "failed"
        BY <2>4, <2>7 DEF Completed
    <2> QED
        BY <2>1, <2>3, <2>6, <2>7
<1>2. TypeOK /\ SchedulerInv /\ GivenUpInv => SkippedExactly
    BY <1>1 DEF SkippedExactly
<1> QED
    BY <1>2, SchedulerInvariant, GivenUpInvariant, PTL

------------------------------------------------------------------------------
(* Discovery                                                                   *)

\* sorted() lists each member of a finite set: every place has a member with as
\* many below it.
LEMMA AscendingRanks ==
    ASSUME NEW S \in SUBSET Nat, IsFiniteSet(S)
    PROVE  /\ Cardinality(S) \in Nat
           /\ \A i \in 1 .. Cardinality(S) : \E a \in S : Cardinality({b \in S : b < a}) = i - 1
<1> DEFINE Below(a) == {b \in S : b < a}
           Ranks == {Cardinality(Below(a)) : a \in S}
           Free == {k \in Nat : k < Cardinality(S) /\ k \notin Ranks}
<1>1. Cardinality(S) \in Nat /\ \A a \in S : IsFiniteSet(Below(a)) /\ Cardinality(Below(a)) \in Nat
    BY FS_Subset, FS_CardinalityType
<1>2. ASSUME Free # {} PROVE FALSE
    <2>1. Free \in SUBSET Nat
        OBVIOUS
    <2> HIDE DEF Free
    <2>2. PICK k \in Free : \A j \in Free : k <= j
        BY <1>2, <2>1, LeastNumber
    <2>3. k \in Nat /\ k < Cardinality(S) /\ k \notin Ranks
        BY <2>2 DEF Free
    <2>4. \E B \in SUBSET S : /\ IsFiniteSet(B) /\ Cardinality(B) = k
                              /\ \A a \in B, b \in S : b < a => b \in B
        <3>1. CASE k = 0
            BY <3>1, FS_EmptySet
        <3>2. CASE k # 0
            <4>1. k - 1 \in Nat /\ k - 1 \notin Free
                BY <2>2, <2>3, <3>2
            <4>2. k - 1 < Cardinality(S)
                BY <1>1, <2>3, <4>1
            <4>3. k - 1 \in Ranks
                BY <4>1, <4>2 DEF Free
            <4>4. PICK a \in S : k - 1 = Cardinality(Below(a))
                BY <4>3
            <4> DEFINE B == Below(a) \cup {a}
            <4>5. a \notin Below(a)
                OBVIOUS
            <4>6. IsFiniteSet(B) /\ Cardinality(B) = k
                <5>1. IsFiniteSet(Below(a)) /\ Cardinality(Below(a)) = k - 1
                    BY <1>1, <4>4
                <5> HIDE DEF Below
                <5>2. IsFiniteSet(B) /\ Cardinality(B) = (k - 1) + 1
                    BY <4>5, <5>1, FS_AddElement
                <5> QED
                    BY <2>3, <5>2
            <4>7. B \in SUBSET S /\ \A x \in B, b \in S : b < x => b \in B
                OBVIOUS
            <4> QED
                BY <4>6, <4>7
        <3> QED
            BY <3>1, <3>2
    <2>5. PICK B \in SUBSET S : /\ IsFiniteSet(B) /\ Cardinality(B) = k
                                /\ \A a \in B, b \in S : b < a => b \in B
        BY <2>4
    <2>6. S \ B # {} /\ S \ B \in SUBSET Nat
        <3>1. B # S
            BY <2>3, <2>5
        <3> QED
            BY <3>1
    <2>7. PICK c \in S \ B : \A b \in S \ B : c <= b
        BY <2>6, LeastNumber
    <2>8. Below(c) = B
        <3>1. ASSUME NEW b \in S, b < c PROVE b \in B
            BY <2>7, <3>1
        <3>2. ASSUME NEW b \in B PROVE b < c
            <4>1. ~ (c < b) /\ c # b
                BY <2>5, <2>7, <3>2
            <4> QED
                BY <4>1
        <3> QED
            BY <3>1, <3>2
    <2>9. k \in Ranks
        BY <2>5, <2>7, <2>8
    <2> QED
        BY <2>3, <2>9
<1>3. ASSUME NEW i \in 1 .. Cardinality(S) PROVE \E a \in S : Cardinality({b \in S : b < a}) = i - 1
    <2>1. i - 1 \in Nat /\ i - 1 < Cardinality(S) /\ i - 1 \notin Free
        BY <1>1, <1>2
    <2> QED
        BY <2>1
<1> QED
    BY <1>1, <1>3

LEMMA AscendingLists ==
    ASSUME NEW S \in SUBSET Nat, IsFiniteSet(S)
    PROVE  Cardinality(S) \in Nat /\ Ascending(S) \in [1 .. Cardinality(S) -> S]
<1> DEFINE At(i) == CHOOSE a \in S : Cardinality({b \in S : b < a}) = i - 1
<1>1. Cardinality(S) \in Nat
    BY AscendingRanks
<1>2. ASSUME NEW i \in 1 .. Cardinality(S) PROVE At(i) \in S
    BY AscendingRanks
<1>3. Ascending(S) = [i \in 1 .. Cardinality(S) |-> At(i)]
    BY DEF Ascending
<1> HIDE DEF At
<1> QED
    BY <1>1, <1>2, <1>3

\* The entries a discovery reports
Roles == {"root", "proxy", "implementation", "unknown", "token", "vault", "strategy", "oracle",
          "factory", "router", "pool", "bridge", "messenger", "governor", "timelock"}
Protocols == {None} \cup UNION {{d[a][2] : a \in DOMAIN d} : d \in Deployments}
Entry == [at : Nat, role : Roles, score : 1 .. 100, impl : Addresses \cup {None},
          admin : Addresses \cup {None}, protocol : Protocols, isRoot : BOOLEAN]

\* The root's own entry, which comes first
IsRootEntry(e) ==
    /\ e.at = Root /\ e.score = 95 /\ e.admin = None
    /\ e.role = "root" \/ e.isRoot
    /\ e.role # "oracle"

\* The other entries are never the root's, only the root is an oracle, and only the
\* second entry of a proxy's implementation has an admin: it yields to the first.
IsLaterEntry(e, impl) ==
    /\ e.role # "root" /\ ~e.isRoot
    /\ e.role = "oracle" => e.at = Root
    /\ e.role = "proxy" => e.at \in Addresses
    /\ e.role = "proxy" /\ e.admin # None => e.at = impl /\ e.score <= 85

Tied(entries, impl) ==
    \E i, j \in DOMAIN entries :
        /\ entries[i].at = Root /\ entries[i].role = "proxy" /\ entries[i].impl = impl
        /\ entries[j].at = impl /\ entries[j].role = "implementation" /\ entries[j].score = 90

EntriesInv ==
    /\ registry \in Deployments
    /\ root.impl \in Others \cup {None} /\ root.admin \in Others \cup {None}
    /\ contracts \in Seq(Entry)
    /\ stage = "root" => contracts = <<>>
    /\ stage \notin {"root", "failed"} => contracts # <<>> /\ IsRootEntry(contracts[1])
    /\ \A i \in DOMAIN contracts : i # 1 => IsLaterEntry(contracts[i], root.impl)
    /\ stage \notin {"root", "proxy", "failed"} /\ root.impl # None => Tied(contracts, root.impl)

LEMMA EntriesAppended ==
    ASSUME NEW s \in Seq(Entry), NEW t \in Seq(Entry)
    PROVE  /\ s \o t \in Seq(Entry)
           /\ \A i \in DOMAIN s : i \in DOMAIN (s \o t) /\ (s \o t)[i] = s[i]
           /\ \A i \in DOMAIN t : Len(s) + i \in DOMAIN (s \o t) /\ (s \o t)[Len(s) + i] = t[i]
           /\ \A k \in DOMAIN (s \o t) : k \in DOMAIN s \/ \E i \in DOMAIN t : k = Len(s) + i
<1>1. Len(s) \in Nat /\ DOMAIN s = 1 .. Len(s) /\ Len(t) \in Nat /\ DOMAIN t = 1 .. Len(t)
    BY LenProperties
<1>2. /\ s \o t \in Seq(Entry) /\ Len(s \o t) = Len(s) + Len(t)
      /\ \A i \in 1 .. Len(s) + Len(t) : (s \o t)[i] = IF i <= Len(s) THEN s[i] ELSE t[i - Len(s)]
    BY ConcatProperties, Zenon
<1>3. DOMAIN (s \o t) = 1 .. Len(s) + Len(t)
    BY <1>2, LenProperties
<1>4. ASSUME NEW i \in DOMAIN t
      PROVE  Len(s) + i \in DOMAIN (s \o t) /\ (s \o t)[Len(s) + i] = t[i]
    <2>1. Len(s) + i \in 1 .. Len(s) + Len(t) /\ ~ (Len(s) + i <= Len(s)) /\ (Len(s) + i) - Len(s) = i
        BY <1>1
    <2> QED
        BY <1>2, <1>3, <2>1, Zenon
<1>5. ASSUME NEW i \in DOMAIN s
      PROVE  i \in DOMAIN (s \o t) /\ (s \o t)[i] = s[i]
    <2>1. i \in 1 .. Len(s) + Len(t) /\ i <= Len(s)
        BY <1>1
    <2> QED
        BY <1>2, <1>3, <2>1, Zenon
<1>6. ASSUME NEW k \in DOMAIN (s \o t), k \notin DOMAIN s
      PROVE  \E i \in DOMAIN t : k = Len(s) + i
    <2>1. k - Len(s) \in DOMAIN t /\ k = Len(s) + (k - Len(s))
        BY <1>1, <1>3, <1>6
    <2> QED
        BY <2>1
<1> QED
    BY <1>2, <1>4, <1>5, <1>6

\* A source adds its entries behind those that are there.
LEMMA EntriesAdded ==
    ASSUME EntriesInv, NEW entries \in Seq(Entry), Adds(entries),
           UNCHANGED <<registry, root>>, stage \notin {"root", "failed"}, stage' \notin {"root", "proxy"},
           \A i \in DOMAIN entries : IsLaterEntry(entries[i], root.impl),
           stage = "proxy" /\ root.impl # None => Tied(entries, root.impl)
    PROVE  EntriesInv'
<1> DEFINE s == contracts
<1>1. s \in Seq(Entry) /\ contracts' = s \o entries
    BY DEF EntriesInv, Adds
<1>2. s # <<>> /\ IsRootEntry(s[1]) /\ \A i \in DOMAIN s : i # 1 => IsLaterEntry(s[i], root.impl)
    BY DEF EntriesInv
<1>3. 1 \in DOMAIN s /\ Len(s) \in Nat /\ Len(s) >= 1 /\ DOMAIN entries = 1 .. Len(entries)
    BY <1>1, <1>2, EmptySeq, LenProperties
<1>4. stage # "proxy" /\ root.impl # None => Tied(s, root.impl)
    BY DEF EntriesInv
<1> HIDE DEF s
<1>5. /\ s \o entries \in Seq(Entry)
      /\ \A i \in DOMAIN s : i \in DOMAIN (s \o entries) /\ (s \o entries)[i] = s[i]
      /\ \A i \in DOMAIN entries : Len(s) + i \in DOMAIN (s \o entries) /\ (s \o entries)[Len(s) + i] = entries[i]
      /\ \A k \in DOMAIN (s \o entries) : k \in DOMAIN s \/ \E i \in DOMAIN entries : k = Len(s) + i
    BY <1>1, EntriesAppended
<1> DEFINE all == s \o entries
<1> HIDE DEF all
<1>6. all # <<>> /\ IsRootEntry(all[1])
    BY <1>2, <1>3, <1>5 DEF all
<1>7. ASSUME NEW k \in DOMAIN all, k # 1 PROVE IsLaterEntry(all[k], root.impl)
    <2>1. CASE k \in DOMAIN s
        BY <1>2, <1>5, <1>7, <2>1 DEF all
    <2>2. CASE \E i \in DOMAIN entries : k = Len(s) + i
        BY <1>5, <2>2 DEF all
    <2> QED
        BY <1>5, <2>1, <2>2 DEF all
<1>8. ASSUME root.impl # None PROVE Tied(all, root.impl)
    <2>1. CASE stage = "proxy"
        <3>1. PICK i, j \in DOMAIN entries :
                /\ entries[i].at = Root /\ entries[i].role = "proxy" /\ entries[i].impl = root.impl
                /\ entries[j].at = root.impl /\ entries[j].role = "implementation" /\ entries[j].score = 90
            BY <1>8, <2>1 DEF Tied
        <3>2. Len(s) + i \in DOMAIN all /\ all[Len(s) + i] = entries[i]
              /\ Len(s) + j \in DOMAIN all /\ all[Len(s) + j] = entries[j]
            BY <1>5 DEF all
        <3> QED
            BY <3>1, <3>2 DEF Tied
    <2>2. CASE stage # "proxy"
        <3>1. PICK i, j \in DOMAIN s :
                /\ s[i].at = Root /\ s[i].role = "proxy" /\ s[i].impl = root.impl
                /\ s[j].at = root.impl /\ s[j].role = "implementation" /\ s[j].score = 90
            BY <1>4, <1>8, <2>2 DEF Tied
        <3>2. i \in DOMAIN all /\ all[i] = s[i] /\ j \in DOMAIN all /\ all[j] = s[j]
            BY <1>5 DEF all
        <3> QED
            BY <3>1, <3>2 DEF Tied
    <2> QED
        BY <2>1, <2>2
<1>9. contracts' = all /\ all \in Seq(Entry)
    BY <1>1, <1>5 DEF all
<1>10. /\ registry' = registry /\ root' = root /\ registry \in Deployments
       /\ root.impl \in Others \cup {None} /\ root.admin \in Others \cup {None}
    BY DEF EntriesInv
<1> QED
    BY <1>6, <1>7, <1>8, <1>9, <1>10 DEF EntriesInv

\* What the registry says of an address is an entry that is neither the root's nor
\* that of a proxy or an oracle.
LEMMA RegistryEntries ==
    ASSUME registry \in Deployments, NEW a, Registered(a)
    PROVE  /\ FromRegistry(a) \in Entry
           /\ FromRegistry(a).at = a /\ FromRegistry(a).admin = None /\ FromRegistry(a).isRoot = FALSE
           /\ FromRegistry(a).role \notin {"root", "proxy", "oracle"}
<1> DEFINE r == RegistryRole[registry[a][1]]
<1>1. a \in DOMAIN registry /\ a \in Nat /\ registry[a][1] \in DOMAIN RegistryRole
    BY DiscoveryAssumption DEF Registered
<1>2. r \in {"factory", "router", "pool", "governor", "vault", "bridge", "messenger", "timelock"}
    BY <1>1 DEF RegistryRole
<1>3. registry[a][2] \in Protocols
    BY <1>1 DEF Protocols
<1> HIDE DEF r
<1> DEFINE f == Found(a, r, 92)
           p == registry[a][2]
           e == [f EXCEPT !.protocol = p]
<1>4. f \in Entry /\ f.at = a /\ f.admin = None /\ f.isRoot = FALSE /\ f.role = r
    BY <1>1, <1>2 DEF Found, Entry, Roles, Protocols
<1>5. FromRegistry(a) = e
    BY DEF FromRegistry, r
<1> HIDE DEF f, p
<1>6. /\ e \in Entry /\ e.at = a /\ e.admin = None /\ e.isRoot = FALSE
      /\ e.role \notin {"root", "proxy", "oracle"}
    BY <1>2, <1>3, <1>4 DEF Entry, p
<1> HIDE DEF e
<1> QED
    BY <1>5, <1>6, Zenon

LEMMA RootMarked ==
    ASSUME NEW f \in Entry, NEW b \in BOOLEAN
    PROVE  /\ [f EXCEPT !.score = 95, !.isRoot = b] \in Entry
           /\ [f EXCEPT !.score = 95, !.isRoot = b].at = f.at
           /\ [f EXCEPT !.score = 95, !.isRoot = b].score = 95
           /\ [f EXCEPT !.score = 95, !.isRoot = b].admin = f.admin
           /\ [f EXCEPT !.score = 95, !.isRoot = b].role = f.role
           /\ [f EXCEPT !.score = 95, !.isRoot = b].isRoot = b
<1> DEFINE g == [f EXCEPT !.score = 95]
<1>1. g \in Entry /\ g.at = f.at /\ g.score = 95 /\ g.admin = f.admin /\ g.role = f.role
    BY DEF Entry
<1>2. [f EXCEPT !.score = 95, !.isRoot = b] = [g EXCEPT !.isRoot = b]
    OBVIOUS
<1> HIDE DEF g
<1> DEFINE h == [g EXCEPT !.isRoot = b]
<1>3. h \in Entry
    BY <1>1 DEF Entry
<1>4. h.at = g.at /\ h.score = g.score /\ h.admin = g.admin /\ h.role = g.role
    BY <1>1 DEF Entry
<1>5. h.isRoot = b
    BY <1>1 DEF Entry
<1> HIDE DEF h
<1> QED
    BY <1>1, <1>2, <1>3, <1>4, <1>5, Zenon DEF h

LEMMA ProbeRootEntries == EntriesInv /\ ProbeRoot => EntriesInv'
<1> SUFFICES ASSUME EntriesInv, ProbeRoot
             PROVE  EntriesInv'
    OBVIOUS
<1> DEFINE e == IF Registered(Root) THEN [FromRegistry(Root) EXCEPT !.score = 95, !.isRoot = TRUE]
                                    ELSE Found(Root, "root", 95)
<1>1. contracts = <<>> /\ contracts' = contracts \o <<e>> /\ stage' = "proxy"
      /\ registry' = registry /\ registry \in Deployments
    BY DEF EntriesInv, ProbeRoot, Asked, Adds
<1>2. e \in Entry /\ IsRootEntry(e)
    <2>1. CASE Registered(Root)
        <3> DEFINE f == FromRegistry(Root)
        <3>1. f \in Entry /\ f.at = Root /\ f.admin = None /\ f.role # "oracle"
            BY <1>1, <2>1, RegistryEntries
        <3>2. e = [f EXCEPT !.score = 95, !.isRoot = TRUE]
            BY <2>1
        <3> HIDE DEF f, e
        <3>3. f.role \in Roles /\ f.impl \in Addresses \cup {None} /\ f.protocol \in Protocols
            BY <3>1 DEF Entry
        <3>4. /\ e \in Entry /\ e.at = f.at /\ e.score = 95 /\ e.admin = f.admin
              /\ e.role = f.role /\ e.isRoot = TRUE
            BY <3>1, <3>2, RootMarked, Zenon
        <3> QED
            BY <3>1, <3>4 DEF IsRootEntry
    <2>2. CASE ~Registered(Root)
        <3>1. e = Found(Root, "root", 95) /\ Root \in Nat
            BY <2>2, DiscoveryAssumption
        <3> HIDE DEF e
        <3>2. e \in Entry /\ e.at = Root /\ e.role = "root" /\ e.score = 95 /\ e.admin = None
            BY <3>1 DEF Found, Entry, Protocols, Roles
        <3> QED
            BY <3>2 DEF IsRootEntry
    <2> QED
        BY <2>1, <2>2
<1> HIDE DEF e
<1>3. contracts' = <<e>> /\ <<e>> \in Seq(Entry) /\ DOMAIN <<e>> = {1}
    BY <1>1, <1>2
<1>4. root'.impl \in Others \cup {None} /\ root'.admin \in Others \cup {None}
    BY DEF ProbeRoot
<1> QED
    BY <1>1, <1>2, <1>3, <1>4 DEF EntriesInv

LEMMA ProxyChainEntries == EntriesInv /\ ProxyChain => EntriesInv'
<1> SUFFICES ASSUME EntriesInv, ProxyChain
             PROVE  EntriesInv'
    OBVIOUS
<1>1. /\ stage = "proxy" /\ stage' = "governance" /\ UNCHANGED <<registry, root>>
      /\ registry \in Deployments /\ root.impl \in Others \cup {None} /\ root.admin \in Others \cup {None}
    BY DEF EntriesInv, ProxyChain, Asked
<1>2. CASE root.impl = None
    BY <1>1, <1>2 DEF ProxyChain, EntriesInv
<1>3. CASE root.impl # None
    <2>1. PICK impl \in (Addresses \ {root.impl}) \cup {None}, admin \in {root.admin, None}, timelock \in BOOLEAN :
              Adds(<<[Found(Root, "proxy", 90) EXCEPT !.impl = root.impl],
                     Found(root.impl, "implementation", 90),
                     [ResolvedRole(root.impl, impl, timelock) EXCEPT
                         !.impl = impl, !.admin = admin, !.protocol = None]>>)
        BY <1>3 DEF ProxyChain
    <2>2. root.impl \in Nat /\ root.impl \in Addresses /\ Root \in Nat /\ Root \in Addresses
        BY <1>1, <1>3, DiscoveryAssumption DEF Others
    <2> DEFINE p == [Found(Root, "proxy", 90) EXCEPT !.impl = root.impl]
               i == Found(root.impl, "implementation", 90)
               r == ResolvedRole(root.impl, impl, timelock)
               n == [r EXCEPT !.impl = impl, !.admin = admin, !.protocol = None]
    <2>3. /\ p \in Entry /\ p.at = Root /\ p.role = "proxy" /\ p.impl = root.impl
          /\ p.admin = None /\ p.isRoot = FALSE
        <3> DEFINE q == Found(Root, "proxy", 90)
        <3>1. /\ q \in Entry /\ q.at = Root /\ q.role = "proxy" /\ q.admin = None /\ q.isRoot = FALSE
            BY <2>2 DEF Found, Entry, Protocols, Roles
        <3>2. p = [q EXCEPT !.impl = root.impl]
            OBVIOUS
        <3> HIDE DEF p, q
        <3> QED
            BY <2>2, <3>1, <3>2 DEF Entry
    <2>4. i \in Entry /\ i.at = root.impl /\ i.role = "implementation" /\ i.score = 90 /\ i.isRoot = FALSE
        BY <2>2 DEF Found, Entry, Protocols, Roles
    <2>5. /\ r \in Entry /\ r.at = root.impl /\ r.role \notin {"root", "oracle"} /\ r.isRoot = FALSE
          /\ r.role = "proxy" => r.score = 85
        <3>1. CASE Registered(root.impl)
            <4>1. r = FromRegistry(root.impl)
                BY <3>1 DEF ResolvedRole
            <4> HIDE DEF r
            <4> QED
                BY <1>1, <3>1, <4>1, RegistryEntries, Zenon
        <3>2. CASE ~Registered(root.impl)
            <4>1. PICK role \in {"proxy", "timelock", "implementation"} : r = Found(root.impl, role, 85)
                BY <3>2 DEF ResolvedRole
            <4> HIDE DEF r
            <4> QED
                BY <2>2, <4>1 DEF Found, Entry, Protocols, Roles
        <3> QED
            BY <3>1, <3>2
    <2> HIDE DEF r
    <2>6. /\ n \in Entry /\ n.at = root.impl /\ n.role \notin {"root", "oracle"} /\ n.isRoot = FALSE
          /\ n.role = "proxy" => n.score = 85
        BY <1>1, <2>5 DEF Entry, Protocols, Others
    <2>7. Adds(<<p, i, n>>)
        BY <2>1 DEF r
    <2> HIDE DEF p, i, n
    <2>8. <<p, i, n>> \in Seq(Entry) /\ DOMAIN <<p, i, n>> = 1 .. 3
        BY <2>3, <2>4, <2>6
    <2>9. \A k \in DOMAIN <<p, i, n>> : IsLaterEntry(<<p, i, n>>[k], root.impl)
        <3>1. IsLaterEntry(p, root.impl) /\ IsLaterEntry(i, root.impl) /\ IsLaterEntry(n, root.impl)
            BY <2>2, <2>3, <2>4, <2>6 DEF IsLaterEntry
        <3> QED
            BY <2>8, <3>1
    <2>10. Tied(<<p, i, n>>, root.impl)
        BY <2>3, <2>4, <2>8 DEF Tied
    <2> QED
        BY <1>1, <2>7, <2>8, <2>9, <2>10, EntriesAdded
<1> QED
    BY <1>2, <1>3

Laters(impl) == {e \in Entry : IsLaterEntry(e, impl)}

LEMMA LatersAdded ==
    ASSUME EntriesInv, NEW entries \in Seq(Laters(root.impl)), Adds(entries),
           UNCHANGED <<registry, root>>, stage \notin {"root", "proxy", "failed"}, stage' \notin {"root", "proxy"}
    PROVE  EntriesInv'
<1>1. /\ Len(entries) \in Nat /\ DOMAIN entries = 1 .. Len(entries)
      /\ \A i \in DOMAIN entries : entries[i] \in Laters(root.impl)
      /\ entries = [i \in 1 .. Len(entries) |-> entries[i]]
    BY LenProperties
<1>2. \A i \in DOMAIN entries : entries[i] \in Entry /\ IsLaterEntry(entries[i], root.impl)
    BY <1>1, Zenon DEF Laters
<1>3. entries \in Seq(Entry)
    BY <1>1, <1>2
<1> QED
    BY <1>2, <1>3, EntriesAdded

\* What the registry says of some of its addresses
LEMMA RegistryLists ==
    ASSUME EntriesInv, NEW S \in SUBSET DOMAIN registry
    PROVE  [i \in 1 .. Cardinality(S) |-> FromRegistry(Ascending(S)[i])] \in Seq(Laters(root.impl))
<1>1. registry \in Deployments /\ S \in SUBSET Nat /\ IsFiniteSet(S)
    BY DiscoveryAssumption, FS_Subset DEF EntriesInv
<1>2. Cardinality(S) \in Nat /\ Ascending(S) \in [1 .. Cardinality(S) -> S]
    BY <1>1, AscendingLists
<1>3. ASSUME NEW i \in 1 .. Cardinality(S) PROVE FromRegistry(Ascending(S)[i]) \in Laters(root.impl)
    <2>1. Registered(Ascending(S)[i])
        BY <1>2, <1>3 DEF Registered
    <2> DEFINE a == Ascending(S)[i]
               f == FromRegistry(a)
    <2>2. f \in Entry /\ f.isRoot = FALSE /\ f.role \notin {"root", "proxy", "oracle"}
        BY <1>1, <2>1, RegistryEntries
    <2> HIDE DEF f
    <2>3. IsLaterEntry(f, root.impl)
        BY <2>2 DEF IsLaterEntry
    <2>4. f \in Laters(root.impl)
        BY <2>2, <2>3 DEF Laters
    <2> QED
        BY <2>4 DEF f
<1> DEFINE E(i) == FromRegistry(Ascending(S)[i])
<1>4. \A i \in 1 .. Cardinality(S) : E(i) \in Laters(root.impl)
    BY <1>3
<1> HIDE DEF E
<1>5. [i \in 1 .. Cardinality(S) |-> E(i)] \in Seq(Laters(root.impl))
    BY <1>2, <1>4
<1> QED
    BY <1>5 DEF E

\* A plain entry
LEMMA PlainEntries ==
    ASSUME NEW a \in Nat, NEW role \in Roles \ {"root", "proxy", "oracle"}, NEW score \in 1 .. 100, NEW impl
    PROVE  Found(a, role, score) \in Laters(impl)
<1> DEFINE f == Found(a, role, score)
<1>1. f \in Entry /\ f.role = role /\ f.isRoot = FALSE
    BY DEF Found, Entry, Protocols
<1> HIDE DEF f
<1>2. IsLaterEntry(f, impl)
    BY <1>1 DEF IsLaterEntry
<1>3. f \in Laters(impl)
    BY <1>1, <1>2 DEF Laters
<1> QED
    BY <1>3 DEF f

\* An entry about the root, of any role but that of the root
LEMMA RootEntries ==
    ASSUME NEW role \in Roles \ {"root"}, NEW score \in 1 .. 100, NEW impl
    PROVE  Found(Root, role, score) \in Laters(impl)
<1> DEFINE f == Found(Root, role, score)
<1>1. /\ f \in Entry /\ f.role = role /\ f.isRoot = FALSE /\ f.at = Root /\ f.admin = None
      /\ Root \in Addresses
    BY DiscoveryAssumption DEF Found, Entry, Protocols
<1> HIDE DEF f
<1>2. IsLaterEntry(f, impl)
    BY <1>1 DEF IsLaterEntry
<1>3. f \in Laters(impl)
    BY <1>1, <1>2 DEF Laters
<1> QED
    BY <1>3 DEF f

LEMMA GovernanceEntries == EntriesInv /\ GovernanceChain => EntriesInv'
<1> SUFFICES ASSUME EntriesInv, GovernanceChain
             PROVE  EntriesInv'
    OBVIOUS
<1>1. stage = "governance" /\ stage' = "peers" /\ UNCHANGED <<registry, root>> /\ root.admin \in Others \cup {None}
    BY DEF GovernanceChain, Asked, EntriesInv
<1>2. CASE root.admin = None
    BY <1>1, <1>2 DEF GovernanceChain, EntriesInv
<1>3. CASE root.admin # None
    <2>1. PICK timelock \in BOOLEAN, score \in Levels :
              Adds(<<Found(root.admin, IF timelock THEN "timelock" ELSE "governor", score)>>)
        BY <1>3 DEF GovernanceChain
    <2> DEFINE role == IF timelock THEN "timelock" ELSE "governor"
               e == Found(root.admin, role, score)
    <2>2. role \in Roles \ {"root", "proxy", "oracle"} /\ root.admin \in Nat /\ score \in 1 .. 100
        BY <1>1, <1>3, DiscoveryAssumption DEF Roles, Others
    <2> HIDE DEF role
    <2>3. e \in Laters(root.impl)
        BY <2>2, PlainEntries
    <2>4. Adds(<<e>>)
        BY <2>1 DEF role
    <2> HIDE DEF e
    <2>5. <<e>> \in Seq(Laters(root.impl))
        BY <2>3
    <2> QED
        BY <1>1, <2>4, <2>5, LatersAdded
<1> QED
    BY <1>2, <1>3

LEMMA PeerEntries == EntriesInv /\ RegistryPeers => EntriesInv'
<1> SUFFICES ASSUME EntriesInv, RegistryPeers
             PROVE  EntriesInv'
    OBVIOUS
<1> DEFINE peers == IF Registered(Root) THEN PeerOf(registry[Root]) \ {Root} ELSE {}
<1>1. stage = "peers" /\ stage' = "intelligence" /\ UNCHANGED <<registry, root>>
      /\ Adds([i \in 1 .. Cardinality(peers) |-> FromRegistry(Ascending(peers)[i])])
    BY DEF RegistryPeers, Asked
<1>2. peers \in SUBSET DOMAIN registry
    <2>1. PeerOf(registry[Root]) \in SUBSET DOMAIN registry
        BY DEF PeerOf, Peers
    <2> QED
        BY <2>1
<1> HIDE DEF peers
<1>3. [i \in 1 .. Cardinality(peers) |-> FromRegistry(Ascending(peers)[i])] \in Seq(Laters(root.impl))
    BY <1>2, RegistryLists
<1> QED
    BY <1>1, <1>3, LatersAdded

LEMMA IntelligenceEntries == EntriesInv /\ FromIntelligence => EntriesInv'
<1> SUFFICES ASSUME EntriesInv, FromIntelligence
             PROVE  EntriesInv'
    OBVIOUS
<1>1. stage = "intelligence" /\ stage' = "pools" /\ UNCHANGED <<registry, root>>
    BY DEF FromIntelligence, Asked
<1>2. PICK signs \in SUBSET Signs, score, least \in Scores :
          Adds((IF signs = {} THEN <<>> ELSE <<Found(Root, Identity(signs), score)>>)
               \o (IF "vault" \in signs THEN <<Found(Root, "strategy", least)>> ELSE <<>>)
               \o (IF "oracle" \in signs THEN <<Found(Root, "oracle", least)>> ELSE <<>>))
    BY DEF FromIntelligence
<1> DEFINE L == Laters(root.impl)
           a == IF signs = {} THEN <<>> ELSE <<Found(Root, Identity(signs), score)>>
           b == IF "vault" \in signs THEN <<Found(Root, "strategy", least)>> ELSE <<>>
           c == IF "oracle" \in signs THEN <<Found(Root, "oracle", least)>> ELSE <<>>
<1>3. score \in 1 .. 100 /\ least \in 1 .. 100
    BY DiscoveryAssumption
<1>4. Identity(signs) \in Roles \ {"root"}
    BY DEF Identity, Roles
<1>5. Found(Root, Identity(signs), score) \in L
    BY <1>3, <1>4, RootEntries
<1>6. "strategy" \in Roles \ {"root"} /\ "oracle" \in Roles \ {"root"}
    BY DEF Roles
<1>7. Found(Root, "strategy", least) \in L /\ Found(Root, "oracle", least) \in L
    BY <1>3, <1>6, RootEntries
<1> HIDE DEF L
<1>8. a \in Seq(L) /\ b \in Seq(L) /\ c \in Seq(L)
    BY <1>5, <1>7
<1>9. Adds(a \o b \o c)
    BY <1>2
<1> HIDE DEF a, b, c
<1>10. a \o b \o c \in Seq(L)
    BY <1>8, ConcatProperties
<1> QED
    BY <1>1, <1>9, <1>10, LatersAdded DEF L

LEMMA PoolEntries == EntriesInv /\ LiquidityPools => EntriesInv'
<1> SUFFICES ASSUME EntriesInv, LiquidityPools
             PROVE  EntriesInv'
    OBVIOUS
<1>1. stage = "pools" /\ stage' = "linked" /\ UNCHANGED <<registry, root>>
    BY DEF LiquidityPools, Asked
<1>2. PICK pools \in SUBSET Pools : Adds([i \in 1 .. Cardinality(pools) |-> Found(Ascending(pools)[i], "pool", 70)])
    BY DEF LiquidityPools
<1>3. pools \in SUBSET Nat /\ IsFiniteSet(pools)
    BY DiscoveryAssumption, FS_Subset
<1>4. Cardinality(pools) \in Nat /\ Ascending(pools) \in [1 .. Cardinality(pools) -> pools]
    BY <1>3, AscendingLists
<1> DEFINE E(i) == Found(Ascending(pools)[i], "pool", 70)
<1>5. ASSUME NEW i \in 1 .. Cardinality(pools) PROVE E(i) \in Laters(root.impl)
    <2>1. Ascending(pools)[i] \in Nat
        BY <1>3, <1>4
    <2>2. "pool" \in Roles \ {"root", "proxy", "oracle"} /\ 70 \in 1 .. 100
        BY DEF Roles
    <2> QED
        BY <2>1, <2>2, PlainEntries
<1>6. Adds([i \in 1 .. Cardinality(pools) |-> E(i)])
    BY <1>2
<1> HIDE DEF E
<1>7. [i \in 1 .. Cardinality(pools) |-> E(i)] \in Seq(Laters(root.impl))
    BY <1>4, <1>5
<1> QED
    BY <1>1, <1>6, <1>7, LatersAdded

LEMMA LinkedEntries == EntriesInv /\ SourceLinked => EntriesInv'
<1> SUFFICES ASSUME EntriesInv, SourceLinked
             PROVE  EntriesInv'
    OBVIOUS
<1>1. stage = "linked" /\ stage' = "assemble" /\ UNCHANGED <<registry, root>>
    BY DEF SourceLinked, Asked
<1>2. PICK fresh \in SUBSET DOMAIN registry :
          Adds([i \in 1 .. Cardinality(fresh) |-> FromRegistry(Ascending(fresh)[i])])
    <2>1. PICK linked \in Links :
              LET first == {a \in linked : Cardinality({b \in linked : b < a}) < 5}
                  fresh == {a \in first \ probes : Registered(a)}
              IN  Adds([i \in 1 .. Cardinality(fresh) |-> FromRegistry(Ascending(fresh)[i])])
        BY DEF SourceLinked
    <2> DEFINE fresh == {a \in {x \in linked : Cardinality({b \in linked : b < x}) < 5} \ probes : Registered(a)}
    <2>2. fresh \in SUBSET DOMAIN registry
        BY DEF Registered
    <2>3. Adds([i \in 1 .. Cardinality(fresh) |-> FromRegistry(Ascending(fresh)[i])])
        BY <2>1
    <2> HIDE DEF fresh
    <2> QED
        BY <2>2, <2>3
<1>3. [i \in 1 .. Cardinality(fresh) |-> FromRegistry(Ascending(fresh)[i])] \in Seq(Laters(root.impl))
    BY RegistryLists
<1> QED
    BY <1>1, <1>2, <1>3, LatersAdded

LEMMA EntriesInvariant == DiscoverySpec => []EntriesInv
<1>1. DiscoveryInit => EntriesInv
    BY DEF DiscoveryInit, EntriesInv
<1>2. EntriesInv /\ [DiscoveryNext]_discoveryVars => EntriesInv'
    <2> SUFFICES ASSUME EntriesInv, [DiscoveryNext]_discoveryVars
                 PROVE  EntriesInv'
        OBVIOUS
    <2>1. CASE ProbeFails
        BY <2>1 DEF ProbeFails, EntriesInv
    <2>2. CASE Assemble
        BY <2>2 DEF Assemble, EntriesInv
    <2>3. CASE BuildGraph
        BY <2>3 DEF BuildGraph, EntriesInv
    <2>4. CASE UNCHANGED discoveryVars
        BY <2>4 DEF discoveryVars, EntriesInv
    <2> QED
        BY <2>1, <2>2, <2>3, <2>4, ProbeRootEntries, ProxyChainEntries, GovernanceEntries, PeerEntries,
           IntelligenceEntries, PoolEntries, LinkedEntries DEF DiscoveryNext
<1> QED
    BY <1>1, <1>2, PTL DEF DiscoverySpec

\* What the builder made of the entries, and the graph of it
IsReport(report, entries) ==
    /\ report.contracts = Best(entries)
    /\ report.confidence = Confidence(Best(entries))
    /\ \A r \in report.relations : {r[1], r[2]} \subseteq Known(Best(entries))
    /\ Inner(ProxyRelations(entries), Best(entries)) \subseteq report.relations
ResultInv == stage \in {"graph", "built", "refused"} => IsReport(result, contracts)
GraphInv ==
    stage \in {"built", "refused"} =>
        /\ graph = Graph(result.contracts, result.relations, Root)
        /\ stage = "built" <=> Issues(graph) = {}

LEMMA ResultInvariant == DiscoverySpec => [](ResultInv /\ GraphInv)
<1>1. DiscoveryInit => ResultInv /\ GraphInv
    BY DEF DiscoveryInit, ResultInv, GraphInv
<1>2. ResultInv /\ GraphInv /\ [DiscoveryNext]_discoveryVars => ResultInv' /\ GraphInv'
    <2> SUFFICES ASSUME ResultInv, GraphInv, [DiscoveryNext]_discoveryVars
                 PROVE  ResultInv' /\ GraphInv'
        OBVIOUS
    <2>1. CASE \/ ProbeRoot \/ ProxyChain \/ GovernanceChain \/ RegistryPeers \/ FromIntelligence
               \/ LiquidityPools \/ SourceLinked \/ ProbeFails
        <3>1. stage' \in {"proxy", "governance", "peers", "intelligence", "pools", "linked", "assemble", "failed"}
            BY <2>1 DEF ProbeRoot, ProxyChain, GovernanceChain, RegistryPeers, FromIntelligence,
                        LiquidityPools, SourceLinked, ProbeFails, Asked
        <3> QED
            BY <3>1 DEF ResultInv, GraphInv
    <2>2. CASE Assemble
        <3> DEFINE kept == Best(contracts)
                   relations == Inner(Relations(contracts), kept)
        <3>1. /\ contracts' = contracts /\ stage' = "graph"
              /\ result' = [contracts |-> kept, relations |-> relations, confidence |-> Confidence(kept)]
            BY <2>2 DEF Assemble
        <3>2. /\ \A r \in relations : {r[1], r[2]} \subseteq Known(kept)
              /\ Inner(ProxyRelations(contracts), kept) \subseteq relations
            BY DEF Inner, Relations
        <3> HIDE DEF kept, relations
        <3>3. result'.contracts = kept /\ result'.relations = relations /\ result'.confidence = Confidence(kept)
            BY <3>1
        <3>4. IsReport(result', contracts)
            BY <3>2, <3>3, Zenon DEF IsReport, kept
        <3> QED
            BY <3>1, <3>4 DEF ResultInv, GraphInv
    <2>3. CASE BuildGraph
        <3>1. UNCHANGED <<contracts, result>> /\ stage = "graph"
            BY <2>3 DEF BuildGraph
        <3>2. /\ graph' = Graph(result'.contracts, result'.relations, Root)
              /\ stage' = IF Issues(graph') = {} THEN "built" ELSE "refused"
            BY <2>3, <3>1, Zenon DEF BuildGraph
        <3>3. ResultInv'
            BY <3>1 DEF ResultInv
        <3>4. GraphInv'
            <4>1. stage' = "built" <=> Issues(graph') = {}
                BY <3>2
            <4> QED
                BY <3>2, <4>1, Zenon DEF GraphInv
        <3> QED
            BY <3>3, <3>4
    <2>4. CASE UNCHANGED discoveryVars
        <3>1. UNCHANGED <<contracts, result, stage, graph>>
            BY <2>4 DEF discoveryVars
        <3>2. ResultInv'
            BY <3>1 DEF ResultInv
        <3>3. GraphInv'
            BY <3>1, Zenon DEF GraphInv
        <3> QED
            BY <3>2, <3>3
    <2> QED
        BY <2>1, <2>2, <2>3, <2>4 DEF DiscoveryNext
<1> QED
    BY <1>1, <1>2, PTL DEF DiscoverySpec

\* Which entry of an address is kept: none behind it is better, and it is better
\* than those before it.
Kept(entries, j) ==
    \A k \in DOMAIN entries : entries[k].at = entries[j].at =>
        IF k < j THEN Beats(entries[j], entries[k]) ELSE k = j \/ ~Beats(entries[k], entries[j])

LEMMA BestIsKept ==
    ASSUME NEW entries, NEW c
    PROVE  c \in Best(entries) <=> \E j \in DOMAIN entries : Kept(entries, j) /\ c = entries[j]
BY DEF Best, Kept

\* Every address keeps an entry.
LEMMA SomeKept ==
    ASSUME NEW entries \in Seq(Entry), NEW i \in DOMAIN entries
    PROVE  \E c \in Best(entries) : c.at = entries[i].at
<1> DEFINE Score(k) == entries[k].score
           Same == {k \in DOMAIN entries : entries[k].at = entries[i].at}
           Gaps == {100 - Score(k) : k \in Same}
<1>1. /\ DOMAIN entries \in SUBSET Nat
      /\ \A k \in DOMAIN entries : entries[k] \in Entry
    BY LenProperties
<1>2. \A k \in DOMAIN entries : Score(k) \in 1 .. 100
    BY <1>1 DEF Entry
<1> HIDE DEF Score
<1>3. Gaps \in SUBSET Nat /\ Gaps # {}
    <2>1. i \in Same
        OBVIOUS
    <2>2. \A k \in Same : Score(k) \in 1 .. 100
        BY <1>2
    <2> HIDE DEF Same
    <2>3. ASSUME NEW g \in Gaps PROVE g \in Nat
        <3>1. PICK k \in Same : g = 100 - Score(k)
            OBVIOUS
        <3> DEFINE n == Score(k)
        <3>2. n \in 1 .. 100 /\ g = 100 - n
            BY <2>2, <3>1
        <3> HIDE DEF n
        <3> QED
            BY <3>2
    <2>4. 100 - Score(i) \in Gaps
        BY <2>1
    <2> QED
        BY <2>3, <2>4
<1> HIDE DEF Gaps
<1>4. PICK gap \in Gaps : \A g \in Gaps : gap <= g
    BY <1>3, LeastNumber
<1> DEFINE Top == {k \in Same : 100 - Score(k) = gap}
<1>5. Top \in SUBSET Nat /\ Top # {}
    BY <1>1, <1>4 DEF Gaps
<1> HIDE DEF Top
<1>6. PICK j \in Top : \A k \in Top : j <= k
    BY <1>5, LeastNumber
<1>7. j \in DOMAIN entries /\ entries[j].at = entries[i].at /\ 100 - Score(j) = gap
    BY <1>6 DEF Top
<1>8. Kept(entries, j)
    <2> SUFFICES ASSUME NEW k \in DOMAIN entries, entries[k].at = entries[j].at
                 PROVE  IF k < j THEN Beats(entries[j], entries[k]) ELSE k = j \/ ~Beats(entries[k], entries[j])
        BY DEF Kept
    <2>1. 100 - Score(k) \in Gaps
        BY <1>7 DEF Gaps
    <2> DEFINE a == Score(j)
               b == Score(k)
    <2>5. a \in 1 .. 100 /\ b \in 1 .. 100
        BY <1>2, <1>7
    <2>6. 100 - a <= 100 - b /\ 100 - a = gap
        BY <1>4, <1>7, <2>1
    <2> HIDE DEF a, b
    <2>2. ~ (b > a)
        BY <2>5, <2>6
    <2>3. CASE k < j
        <3>1. k \notin Top
            BY <1>1, <1>5, <1>6, <2>3
        <3>2. 100 - b # gap
            BY <1>7, <3>1 DEF Top, b
        <3>3. a > b
            BY <2>5, <2>6, <2>2, <3>2
        <3> QED
            BY <2>3, <3>3 DEF Beats, Score, a, b
    <2>4. CASE ~ (k < j)
        BY <2>2, <2>4 DEF Beats, Score, a, b
    <2> QED
        BY <2>3, <2>4
<1> QED
    BY <1>7, <1>8, BestIsKept

\* RootStands: the entry the root takes first outlasts the others of its address,
\* and it is the only one that makes its contract the root.
THEOREM RootKept == DiscoverySpec => []RootStands
<1>1. EntriesInv /\ ResultInv => RootStands
    <2> SUFFICES ASSUME EntriesInv, ResultInv, Assembled, \A c \in ToSet(contracts) : c.score <= 95
                 PROVE  /\ \E c \in Rootish(result.contracts) : c.at = Root
                        /\ result.confidence = 95
        BY DEF RootStands
    <2> DEFINE kept == Best(contracts)
               e == contracts[1]
    <2>1. result.contracts = kept /\ result.confidence = Confidence(kept)
        BY DEF ResultInv, IsReport, Assembled
    <2>2. contracts \in Seq(Entry) /\ contracts # <<>> /\ IsRootEntry(e)
        BY DEF EntriesInv, Assembled
    <2>3. 1 \in DOMAIN contracts /\ DOMAIN contracts \in SUBSET Nat /\ \A k \in DOMAIN contracts : k >= 1
        BY <2>2, EmptySeq, LenProperties
    <2> DEFINE Score(k) == contracts[k].score
    <2>4. (\A k \in DOMAIN contracts : Score(k) \in 1 .. 100 /\ Score(k) <= 95) /\ Score(1) = 95
        <3>1. \A k \in DOMAIN contracts : contracts[k] \in ToSet(contracts)
            BY DEF ToSet
        <3>2. \A k \in DOMAIN contracts : contracts[k] \in Entry
            BY <2>2, LenProperties
        <3>3. \A k \in DOMAIN contracts : Score(k) \in 1 .. 100
            BY <3>2 DEF Entry
        <3>4. \A k \in DOMAIN contracts : Score(k) <= 95
            BY <3>1
        <3> QED
            BY <2>2, <3>3, <3>4 DEF IsRootEntry
    <2> HIDE DEF Score
    <2>5. Kept(contracts, 1)
        <3>1. \A k \in DOMAIN contracts : ~ (k < 1) /\ ~ (Score(k) > Score(1))
            BY <2>3, <2>4
        <3> QED
            BY <3>1, Zenon DEF Kept, Beats, Score
    <2>6. e \in kept
        BY <2>3, <2>5, BestIsKept
    <2>7. Rootish(kept) = {e}
        <3>1. e \in Rootish(kept)
            BY <2>2, <2>6 DEF Rootish, IsRootEntry
        <3>2. ASSUME NEW c \in Rootish(kept) PROVE c = e
            <4>1. PICK j \in DOMAIN contracts : c = contracts[j]
                BY BestIsKept DEF Rootish
            <4>2. c.role = "root" \/ c.isRoot
                BY DEF Rootish
            <4>3. j # 1 => IsLaterEntry(contracts[j], root.impl)
                BY <4>1 DEF EntriesInv
            <4> QED
                BY <4>1, <4>2, <4>3 DEF IsLaterEntry
        <3> QED
            BY <3>1, <3>2
    <2> HIDE DEF kept
    <2>8. Confidence(kept) = Least({e.score})
        BY <2>7 DEF Confidence
    <2>9. Least({e.score}) = 95
        BY <2>2 DEF Least, IsRootEntry
    <2> QED
        BY <2>1, <2>2, <2>7, <2>8, <2>9 DEF IsRootEntry
<1> QED
    BY <1>1, EntriesInvariant, ResultInvariant, PTL

\* ProxyIsTied: the entry the root takes as a proxy is lost, the relation it was
\* good for is drawn before that.
THEOREM ProxyTied == DiscoverySpec => []ProxyIsTied
<1>1. EntriesInv /\ ResultInv => ProxyIsTied
    <2> SUFFICES ASSUME EntriesInv, ResultInv, Assembled, root.impl # None
                 PROVE  /\ root.impl \in Known(result.contracts)
                        /\ <<Root, root.impl, "PROXY_TO_IMPLEMENTATION">> \in result.relations
        BY DEF ProxyIsTied
    <2> DEFINE kept == Best(contracts)
               impl == root.impl
               tie == <<Root, impl, "PROXY_TO_IMPLEMENTATION">>
    <2>1. result.contracts = kept /\ Inner(ProxyRelations(contracts), kept) \subseteq result.relations
        BY DEF ResultInv, IsReport, Assembled
    <2>2. contracts \in Seq(Entry) /\ contracts # <<>> /\ contracts[1].at = Root
        BY DEF EntriesInv, Assembled, IsRootEntry
    <2>3. PICK i, j \in DOMAIN contracts :
            /\ contracts[i].at = Root /\ contracts[i].role = "proxy" /\ contracts[i].impl = impl
            /\ contracts[j].at = impl /\ contracts[j].role = "implementation" /\ contracts[j].score = 90
        BY DEF EntriesInv, Assembled, Tied
    <2> HIDE DEF kept, impl
    <2>4. impl \in Known(kept) /\ Root \in Known(kept)
        <3>1. PICK c \in kept : c.at = impl
            BY <2>2, <2>3, SomeKept DEF kept
        <3>2. PICK d \in kept : d.at = Root
            BY <2>2, <2>3, SomeKept DEF kept
        <3> QED
            BY <3>1, <3>2, Zenon DEF Known
    <2>5. tie \in ProxyRelations(contracts)
        <3> DEFINE p == contracts[i]
                   m == contracts[j]
                   impls == With(contracts, "implementation")
                   told == {e \in impls : p.impl \in {None, e.at}}
        <3>1. p \in With(contracts, "proxy") /\ m \in impls
            BY <2>3 DEF With, ToSet
        <3>2. m \in told
            BY <2>3, <3>1
        <3>3. tie \in Between({p}, told, "PROXY_TO_IMPLEMENTATION")
            BY <2>3, <3>2 DEF Between
        <3> DEFINE drawn(q) ==
                LET t == {e \in impls : q.impl \in {None, e.at}}
                IN  Between({q}, IF t = {} THEN impls ELSE t, "PROXY_TO_IMPLEMENTATION")
        <3>4. tie \in drawn(p)
            BY <3>2, <3>3
        <3>5. ProxyRelations(contracts) = UNION {drawn(q) : q \in With(contracts, "proxy")}
            BY DEF ProxyRelations
        <3> HIDE DEF drawn, p, tie
        <3> QED
            BY <3>1, <3>4, <3>5
    <2>6. tie[1] = Root /\ tie[2] = impl
        OBVIOUS
    <2> HIDE DEF tie
    <2>7. tie \in Inner(ProxyRelations(contracts), kept)
        BY <2>4, <2>5, <2>6 DEF Inner
    <2> QED
        BY <2>1, <2>4, <2>7 DEF impl, tie
<1> QED
    BY <1>1, EntriesInvariant, ResultInvariant, PTL

\* The second entry of an implementation, the one that may have an admin, is never
\* kept, so no kept contract is its own admin.
LEMMA NoSelfAdmin ==
    ASSUME EntriesInv, stage \in {"graph", "built", "refused"},
           NEW c \in Best(contracts), c.role \in {"proxy", "root"}
    PROVE  c.admin # c.at
<1>1. contracts \in Seq(Entry) /\ IsRootEntry(contracts[1]) /\ root.impl \in Others \cup {None}
    BY DEF EntriesInv
<1>2. PICK k \in DOMAIN contracts : Kept(contracts, k) /\ c = contracts[k]
    BY BestIsKept
<1>3. Root \in Addresses /\ None \notin Addresses
    BY DiscoveryAssumption
<1>4. CASE k = 1
    BY <1>1, <1>2, <1>3, <1>4 DEF IsRootEntry
<1>5. CASE k # 1
    <2>1. IsLaterEntry(contracts[k], root.impl)
        BY <1>5 DEF EntriesInv
    <2>2. c.role = "proxy" /\ c.at \in Addresses
        BY <1>2, <2>1 DEF IsLaterEntry
    <2> SUFFICES ASSUME c.admin # None PROVE FALSE
        BY <1>3, <2>2
    <2>3. c.at = root.impl /\ c.score <= 85 /\ root.impl # None
        BY <1>2, <1>3, <2>1, <2>2 DEF IsLaterEntry
    <2>4. PICK j \in DOMAIN contracts :
            contracts[j].at = root.impl /\ contracts[j].role = "implementation" /\ contracts[j].score = 90
        BY <2>3 DEF EntriesInv, Tied
    <2>5. c \in Entry
        BY <1>1, <1>2, LenProperties
    <2> DEFINE n == c.score
    <2>6. n \in 1 .. 100 /\ n <= 85
        BY <2>3, <2>5 DEF Entry
    <2>7. ~ Beats(contracts[k], contracts[j]) /\ Beats(contracts[j], contracts[k])
        <3>1. contracts[k].score = n /\ contracts[j].score = 90
            BY <1>2, <2>4
        <3> HIDE DEF n
        <3>2. ~ (n > 90) /\ 90 > n
            BY <2>6
        <3> QED
            BY <3>1, <3>2, Zenon DEF Beats
    <2>8. j # k
        BY <1>2, <2>2, <2>4
    <2>9. contracts[j].at = contracts[k].at
        BY <1>2, <2>3, <2>4
    <2> QED
        BY <1>2, <2>7, <2>8, <2>9, Zenon DEF Kept
<1> QED
    BY <1>4, <1>5

\* RefusedForSelfLoops: the ends of every edge are nodes and the root is one, so a
\* graph can only be refused for a self loop; no contract is its own admin.
THEOREM RefusalsExplained == DiscoverySpec => []RefusedForSelfLoops
<1>1. EntriesInv /\ ResultInv /\ GraphInv => RefusedForSelfLoops
    <2> SUFFICES ASSUME EntriesInv, ResultInv, GraphInv, stage \in {"built", "refused"}
                 PROVE  /\ result.relations \subseteq graph.edges
                        /\ stage = "refused" <=> (\E r \in result.relations : r[1] = r[2])
                                                 \/ (\E c \in result.contracts : c.at = Root /\ c.role = "oracle")
        BY DEF RefusedForSelfLoops
    <2> DEFINE kept == Best(contracts)
               relations == result.relations
               drawn == Edges(kept, relations, Root)
               looped == \E e \in drawn : e[1] = e[2]
    <2>1. result.contracts = kept /\ \A r \in relations : {r[1], r[2]} \subseteq Known(kept)
        BY DEF ResultInv, IsReport
    <2>2. graph = Graph(kept, relations, Root) /\ (stage = "built" <=> Issues(graph) = {})
        BY <2>1 DEF GraphInv
    <2>3. graph.nodes = Known(kept) /\ graph.edges = drawn /\ graph.root = Root
        BY <2>2 DEF Graph
    <2>4. Root \in Known(kept)
        <3>1. contracts \in Seq(Entry) /\ contracts # <<>> /\ contracts[1].at = Root
            BY DEF EntriesInv, IsRootEntry
        <3>2. 1 \in DOMAIN contracts
            BY <3>1, EmptySeq, LenProperties
        <3>3. PICK c \in kept : c.at = Root
            BY <3>1, <3>2, SomeKept
        <3> QED
            BY <3>3, Zenon DEF Known
    <2> HIDE DEF kept, relations
    <2>5. relations \subseteq drawn
        BY <2>1 DEF Edges
    <2>6. ASSUME NEW e \in drawn PROVE {e[1], e[2]} \subseteq Known(kept)
        <3>1. CASE e \in relations
            BY <2>1, <3>1
        <3>2. CASE e \in AdminEdges(kept)
            BY <3>2 DEF AdminEdges, Known
        <3>3. CASE e \in OracleEdges(kept, Root)
            BY <2>4, <3>3 DEF OracleEdges, Known
        <3> QED
            BY <3>1, <3>2, <3>3 DEF Edges
    <2>7. Issues(graph) = {} <=> ~looped
        <3>1. "missing_root" \notin Issues(graph)
            BY <2>3, <2>4 DEF Issues
        <3>2. "invalid_edge" \notin Issues(graph)
            BY <2>3, <2>6 DEF Issues
        <3>3. "self_loop" \in Issues(graph) <=> looped
            BY <2>3 DEF Issues
        <3>4. Issues(graph) \subseteq {"missing_root", "invalid_edge", "self_loop"}
            BY DEF Issues
        <3> QED
            BY <3>1, <3>2, <3>3, <3>4
    <2>8. looped <=> \/ \E r \in relations : r[1] = r[2]
                     \/ \E c \in kept : c.at = Root /\ c.role = "oracle"
        <3>1. ASSUME NEW c \in kept, c.at = Root, c.role = "oracle" PROVE looped
            <4>1. <<c.at, Root, "ORACLE_TO_PROTOCOL">> \in drawn
                BY <3>1 DEF Edges, OracleEdges
            <4> HIDE DEF drawn
            <4> QED
                BY <3>1, <4>1
        <3>2. ASSUME NEW e \in AdminEdges(kept), e[1] = e[2] PROVE FALSE
            <4>1. PICK c \in kept : c.role \in {"proxy", "root"} /\ e = <<c.admin, c.at, "ADMIN_TO_PROXY">>
                BY <3>2 DEF AdminEdges
            <4>2. c.admin # c.at
                BY <4>1, NoSelfAdmin DEF kept
            <4> QED
                BY <3>2, <4>1, <4>2
        <3>3. ASSUME NEW e \in OracleEdges(kept, Root), e[1] = e[2]
              PROVE  \E c \in kept : c.at = Root /\ c.role = "oracle"
            BY <3>3 DEF OracleEdges
        <3>4. \A e \in drawn : e \in relations \/ e \in AdminEdges(kept) \/ e \in OracleEdges(kept, Root)
            BY DEF Edges
        <3> HIDE DEF drawn
        <3> QED
            BY <2>5, <3>1, <3>2, <3>3, <3>4
    <2>9. stage = "refused" <=> looped
        BY <2>2, <2>7
    <2> QED
        BY <2>1, <2>3, <2>5, <2>8, <2>9 DEF relations
<1> QED
    BY <1>1, EntriesInvariant, ResultInvariant, PTL

-----------------------------------------------------------------------------
(* Traversals                                                                *)

\* sorted() lists each member of a finite set, each once.
LEMMA AscendingExact ==
    ASSUME NEW S \in SUBSET Nat, IsFiniteSet(S)
    PROVE  Ascending(S) \in Seq(S) /\ IsInjective(Ascending(S)) /\ ToSet(Ascending(S)) = S
<1> DEFINE n == Cardinality(S)
           s == Ascending(S)
           Rank(a) == Cardinality({b \in S : b < a})
<1>1. n \in Nat /\ s \in [1 .. n -> S]
    BY AscendingLists
<1>2. DOMAIN s = 1 .. n
    BY <1>1
<1>3. \A i \in 1 .. n : \E a \in S : Rank(a) = i - 1
    BY AscendingRanks
<1>4. \A i \in 1 .. n : s[i] = CHOOSE a \in S : Rank(a) = i - 1
    BY DEF Ascending
<1> HIDE DEF s, n, Rank
<1>5. \A i \in 1 .. n : Rank(s[i]) = i - 1
    BY <1>3, <1>4
<1>6. ASSUME NEW i \in 1 .. n, NEW j \in 1 .. n, s[i] = s[j] PROVE i = j
    <2>1. i - 1 = j - 1
        BY <1>5, <1>6
    <2> QED
        BY <1>1, <2>1
<1>7. s \in Injection(1 .. n, S)
    BY <1>1, <1>2, <1>6 DEF Injection, IsInjective
<1>8. IsFiniteSet(1 .. n) /\ Cardinality(1 .. n) = n
    BY <1>1, FS_Interval
<1>9. s \in Surjection(1 .. n, S)
    BY <1>7, <1>8, FS_Injection DEF n
<1>10. \A a \in S : \E i \in 1 .. n : s[i] = a
    BY <1>9 DEF Surjection
<1>11. s \in Seq(S)
    BY <1>1
<1>12. ToSet(s) = S
    BY <1>1, <1>2, <1>10 DEF ToSet
<1> QED
    BY <1>2, <1>6, <1>11, <1>12 DEF s, IsInjective

\* What Append, Concat, Tail and Front do to the members of a sequence
LEMMA Appended ==
    ASSUME NEW S, NEW s \in Seq(S), NEW x \in S
    PROVE  /\ Append(s, x) \in Seq(S) /\ Len(Append(s, x)) = Len(s) + 1
           /\ \A i \in DOMAIN s : Append(s, x)[i] = s[i]
           /\ Append(s, x)[Len(s) + 1] = x
           /\ DOMAIN Append(s, x) = DOMAIN s \cup {Len(s) + 1}
           /\ ToSet(Append(s, x)) = ToSet(s) \cup {x}
           /\ IsInjective(s) /\ x \notin ToSet(s) => IsInjective(Append(s, x))
<1> DEFINE n == Len(s)
           t == Append(s, x)
<1>1. n \in Nat /\ DOMAIN s = 1 .. n
    BY LenProperties
<1>2. t \in Seq(S) /\ Len(t) = n + 1 /\ (\A i \in 1 .. n : t[i] = s[i]) /\ t[n + 1] = x
    BY AppendProperties
<1>3. DOMAIN t = 1 .. n + 1
    BY <1>2, LenProperties
<1> HIDE DEF n, t
<1>4. DOMAIN t = DOMAIN s \cup {n + 1}
    BY <1>1, <1>3
<1>5. \A i \in DOMAIN s : t[i] = s[i]
    BY <1>1, <1>2
<1>6. ToSet(t) = ToSet(s) \cup {x}
    BY <1>2, <1>4, <1>5 DEF ToSet
<1>7. ASSUME IsInjective(s), x \notin ToSet(s), NEW i \in DOMAIN t, NEW j \in DOMAIN t, t[i] = t[j]
      PROVE  i = j
    BY <1>2, <1>4, <1>5, <1>7 DEF IsInjective, ToSet
<1> QED
    BY <1>2, <1>4, <1>5, <1>6, <1>7 DEF n, t, IsInjective

LEMMA Concatenated ==
    ASSUME NEW S, NEW s \in Seq(S), NEW t \in Seq(S)
    PROVE  /\ s \o t \in Seq(S)
           /\ ToSet(s \o t) = ToSet(s) \cup ToSet(t)
           /\ IsInjective(s) /\ IsInjective(t) /\ ToSet(s) \cap ToSet(t) = {} => IsInjective(s \o t)
<1> DEFINE n == Len(s)
           m == Len(t)
           u == s \o t
<1>1. n \in Nat /\ DOMAIN s = 1 .. n /\ m \in Nat /\ DOMAIN t = 1 .. m
    BY LenProperties
<1>2. u \in Seq(S) /\ Len(u) = n + m /\ \A i \in 1 .. n + m : u[i] = IF i <= n THEN s[i] ELSE t[i - n]
    BY ConcatProperties
<1>3. DOMAIN u = 1 .. n + m
    BY <1>2, LenProperties
<1> HIDE DEF n, m, u
<1>4. \A i \in DOMAIN u : \/ i \in DOMAIN s /\ u[i] = s[i]
                          \/ i - n \in DOMAIN t /\ i \in Int /\ u[i] = t[i - n]
    BY <1>1, <1>2, <1>3
<1>5. \A i \in DOMAIN s : i \in DOMAIN u /\ u[i] = s[i]
    BY <1>1, <1>2, <1>3
<1>6. \A i \in DOMAIN t : n + i \in DOMAIN u /\ u[n + i] = t[i]
    <2> TAKE i \in DOMAIN t
    <2>1. i \in Nat /\ n + i \in 1 .. n + m /\ ~ (n + i <= n) /\ (n + i) - n = i
        BY <1>1
    <2> QED
        BY <1>2, <1>3, <2>1
<1>7. ToSet(u) = ToSet(s) \cup ToSet(t)
    <2>1. ToSet(u) \subseteq ToSet(s) \cup ToSet(t)
        BY <1>4 DEF ToSet
    <2>2. ToSet(s) \cup ToSet(t) \subseteq ToSet(u)
        BY <1>5, <1>6 DEF ToSet
    <2> QED
        BY <2>1, <2>2
<1>8. ASSUME IsInjective(s), IsInjective(t), ToSet(s) \cap ToSet(t) = {},
             NEW i \in DOMAIN u, NEW j \in DOMAIN u, u[i] = u[j]
      PROVE  i = j
    <2>1. \A k \in DOMAIN s, l \in DOMAIN t : s[k] # t[l]
        BY <1>8 DEF ToSet
    <2>2. CASE i \in DOMAIN s /\ j \in DOMAIN s /\ u[i] = s[i] /\ u[j] = s[j]
        BY <1>8, <2>2 DEF IsInjective
    <2>3. CASE i - n \in DOMAIN t /\ j - n \in DOMAIN t /\ u[i] = t[i - n] /\ u[j] = t[j - n] /\ i \in Int /\ j \in Int
        <3>1. i - n = j - n
            BY <1>8, <2>3 DEF IsInjective
        <3> QED
            BY <1>1, <2>3, <3>1
    <2> QED
        BY <1>4, <1>8, <2>1, <2>2, <2>3
<1> QED
    BY <1>2, <1>7, <1>8 DEF u, IsInjective

LEMMA TailTaken ==
    ASSUME NEW S, NEW s \in Seq(S), s # <<>>
    PROVE  /\ Head(s) \in S /\ Tail(s) \in Seq(S)
           /\ ToSet(s) = {Head(s)} \cup ToSet(Tail(s))
           /\ IsInjective(s) => IsInjective(Tail(s)) /\ Head(s) \notin ToSet(Tail(s))
<1> DEFINE n == Len(s)
           t == Tail(s)
           h == Head(s)
<1>1. n \in Nat \ {0} /\ DOMAIN s = 1 .. n /\ \A i \in 1 .. n : s[i] \in S
    BY LenProperties, EmptySeq, ElementOfSeq
<1>2. h = s[1] /\ t \in Seq(S) /\ Len(t) = n - 1 /\ \A i \in 1 .. n - 1 : t[i] = s[i + 1]
    BY HeadTailProperties
<1>3. DOMAIN t = 1 .. n - 1
    BY <1>2, LenProperties
<1> HIDE DEF n, t, h
<1>4. h = s[1] /\ 1 \in DOMAIN s /\ s[1] \in S
    BY <1>1, <1>2
<1>5. \A i \in DOMAIN t : i + 1 \in DOMAIN s /\ i + 1 # 1 /\ t[i] = s[i + 1] /\ i \in Nat
    BY <1>1, <1>2, <1>3
<1>6. \A i \in DOMAIN s : i = 1 \/ \E j \in DOMAIN t : t[j] = s[i]
    <2> SUFFICES ASSUME NEW i \in DOMAIN s, i # 1 PROVE \E j \in DOMAIN t : t[j] = s[i]
        OBVIOUS
    <2>1. i - 1 \in 1 .. n - 1 /\ (i - 1) + 1 = i
        BY <1>1
    <2> QED
        BY <1>2, <1>3, <2>1
<1>7. ToSet(s) = {h} \cup ToSet(t)
    BY <1>4, <1>5, <1>6 DEF ToSet
<1>8. ASSUME IsInjective(s) PROVE h \notin ToSet(t)
    BY <1>4, <1>5, <1>8 DEF IsInjective, ToSet
<1>9. ASSUME IsInjective(s), NEW i \in DOMAIN t, NEW j \in DOMAIN t, t[i] = t[j] PROVE i = j
    <2>1. i + 1 = j + 1 /\ i \in Nat /\ j \in Nat
        BY <1>5, <1>9 DEF IsInjective
    <2> QED
        BY <2>1
<1> QED
    BY <1>2, <1>4, <1>7, <1>8, <1>9 DEF t, h, IsInjective

LEMMA FrontTaken ==
    ASSUME NEW S, NEW s \in Seq(S), s # <<>>
    PROVE  /\ Front(s) \in Seq(S) /\ Len(Front(s)) = Len(s) - 1 /\ DOMAIN Front(s) = DOMAIN s \ {Len(s)}
           /\ Len(s) \in Nat \ {0} /\ Len(s) \in DOMAIN s /\ s[Len(s)] \in S
           /\ \A i \in DOMAIN Front(s) : Front(s)[i] = s[i]
           /\ IsInjective(s) => IsInjective(Front(s)) /\ ToSet(Front(s)) = ToSet(s) \ {s[Len(s)]}
<1> DEFINE n == Len(s)
           t == SubSeq(s, 1, n - 1)
<1>1. n \in Nat \ {0} /\ DOMAIN s = 1 .. n /\ \A i \in 1 .. n : s[i] \in S
    BY LenProperties, EmptySeq, ElementOfSeq
<1> HIDE DEF n
<1>2. \A i \in 1 .. n - 1 : i \in 1 .. n
    BY <1>1
<1>3. /\ t \in Seq(S)
      /\ Len(t) = IF 1 <= n - 1 THEN n - 1 - 1 + 1 ELSE 0
      /\ \A i \in 1 .. n - 1 - 1 + 1 : t[i] = s[1 + i - 1]
    BY <1>1, <1>2, SubSeqProperties
<1> HIDE DEF t
<1>4. Len(t) = n - 1 /\ DOMAIN t = 1 .. n - 1
    BY <1>1, <1>3, LenProperties
<1>5. DOMAIN t = DOMAIN s \ {n} /\ n \in DOMAIN s /\ s[n] \in S
    BY <1>1, <1>4
<1>6. \A i \in DOMAIN t : t[i] = s[i]
    BY <1>1, <1>3, <1>4
<1>7. ASSUME IsInjective(s)
      PROVE  IsInjective(t) /\ ToSet(t) = ToSet(s) \ {s[n]}
    BY <1>5, <1>6, <1>7 DEF IsInjective, ToSet
<1> QED
    BY <1>1, <1>3, <1>4, <1>5, <1>6, <1>7 DEF n, t, Front

\* What every graph a discovery yields is, a refused one too
IsGraph(g) ==
    /\ g.nodes \in SUBSET Nat /\ IsFiniteSet(g.nodes) /\ g.root \in g.nodes
    /\ \A a \in g.nodes : g.next[a] \subseteq g.nodes

LEMMA GraphsAreGraphs ==
    ASSUME EntriesInv, ResultInv, GraphInv, stage \in {"built", "refused"}
    PROVE  IsGraph(graph)
<1> DEFINE kept == Best(contracts)
           relations == result.relations
           drawn == Edges(kept, relations, Root)
<1>1. result.contracts = kept /\ \A r \in relations : {r[1], r[2]} \subseteq Known(kept)
    BY DEF ResultInv, IsReport
<1>2. graph = Graph(kept, relations, Root)
    BY <1>1 DEF GraphInv
<1>3. /\ graph.nodes = Known(kept) /\ graph.root = Root
      /\ graph.next = [a \in Known(kept) |-> {e[2] : e \in {x \in drawn : x[1] = a}}]
    BY <1>2 DEF Graph
<1>4. contracts \in Seq(Entry) /\ contracts # <<>> /\ contracts[1].at = Root
    BY DEF EntriesInv, IsRootEntry
<1>5. Root \in Known(kept)
    <2>1. 1 \in DOMAIN contracts
        BY <1>4, EmptySeq, LenProperties
    <2>2. PICK c \in kept : c.at = Root
        BY <1>4, <2>1, SomeKept
    <2> QED
        BY <2>2, Zenon DEF Known
<1>6. \A c \in kept : \E i \in DOMAIN contracts : c = contracts[i]
    BY BestIsKept
<1>7. Known(kept) \in SUBSET Nat
    <2>1. \A i \in DOMAIN contracts : contracts[i].at \in Nat
        <3>1. \A i \in DOMAIN contracts : contracts[i] \in Entry
            BY <1>4, LenProperties
        <3>2. \A e \in Entry : e.at \in Nat
            BY DEF Entry
        <3> QED
            BY <3>1, <3>2, Zenon
    <2> HIDE DEF kept
    <2> QED
        BY <1>6, <2>1 DEF Known
<1>8. IsFiniteSet(Known(kept))
    <2> DEFINE D == DOMAIN contracts
               At == {contracts[i].at : i \in D}
    <2>1. IsFiniteSet(D)
        BY <1>4, LenProperties, FS_Interval
    <2>2. [i \in D |-> contracts[i].at] \in Surjection(D, At)
        BY DEF Surjection
    <2> HIDE DEF D, At
    <2>3. IsFiniteSet(At)
        BY <2>1, <2>2, FS_Surjection
    <2> HIDE DEF kept
    <2>4. Known(kept) \in SUBSET At
        BY <1>6 DEF Known, At, D
    <2> QED
        BY <2>3, <2>4, FS_Subset
<1> HIDE DEF kept, relations
<1>9. ASSUME NEW e \in drawn PROVE e[2] \in Known(kept)
    <2>1. CASE e \in relations
        BY <1>1, <2>1
    <2>2. CASE e \in AdminEdges(kept)
        BY <2>2 DEF AdminEdges, Known
    <2>3. CASE e \in OracleEdges(kept, Root)
        BY <1>5, <2>3 DEF OracleEdges, Known
    <2> QED
        BY <2>1, <2>2, <2>3 DEF Edges
<1> HIDE DEF drawn
<1> QED
    BY <1>3, <1>5, <1>7, <1>8, <1>9 DEF IsGraph

\* bfs has seen its root, and around what is still queued everything else's neighbours.
Reach(g, r) == \A S \in SUBSET g.nodes : g.root \in S /\ Closed(g, S) => r \subseteq S
BfsInv(g, q, r) ==
    /\ q \in Seq(g.nodes) /\ r \in SUBSET g.nodes /\ ToSet(q) \subseteq r
    /\ \A a \in r \ ToSet(q) : g.next[a] \subseteq r
    /\ Reach(g, r)

LEMMA BfsStarts ==
    ASSUME IsGraph(graph), BfsStart
    PROVE  BfsInv(graph, queue', reached')
<1>1. reached' = {graph.root} /\ queue' = Ascending({graph.root})
    BY DEF BfsStart, IsGraph
<1>2. {graph.root} \in SUBSET Nat /\ IsFiniteSet({graph.root})
    BY FS_Singleton DEF IsGraph
<1>3. queue' \in Seq({graph.root}) /\ ToSet(queue') = {graph.root}
    BY <1>1, <1>2, AscendingExact
<1>4. queue' \in Seq(graph.nodes)
    BY <1>3, SeqMonotonic DEF IsGraph
<1>5. Reach(graph, reached')
    BY <1>1 DEF Reach
<1> QED
    BY <1>1, <1>3, <1>4, <1>5 DEF BfsInv, IsGraph

LEMMA BfsGoesOn ==
    ASSUME IsGraph(graph), BfsInv(graph, queue, reached), BfsStep
    PROVE  BfsInv(graph, queue', reached')
<1> DEFINE h == Head(queue)
           rest == Tail(queue)
           fresh == graph.next[h] \ reached
           more == Ascending(fresh)
<1>1. queue # <<>> /\ queue' = rest \o more /\ reached' = reached \cup fresh
    BY DEF BfsStep
<1>2. queue \in Seq(graph.nodes) /\ reached \in SUBSET graph.nodes /\ ToSet(queue) \subseteq reached
    BY DEF BfsInv
<1>3. h \in graph.nodes /\ rest \in Seq(graph.nodes) /\ ToSet(queue) = {h} \cup ToSet(rest)
    BY <1>1, <1>2, TailTaken
<1>4. fresh \in SUBSET graph.nodes
    BY <1>3 DEF IsGraph
<1>5. fresh \in SUBSET Nat /\ IsFiniteSet(fresh)
    BY <1>4, FS_Subset DEF IsGraph
<1>6. more \in Seq(fresh) /\ ToSet(more) = fresh
    BY <1>5, AscendingExact
<1>7. more \in Seq(graph.nodes)
    BY <1>4, <1>6, SeqMonotonic
<1>8. graph.next[h] \subseteq reached \cup fresh
    OBVIOUS
<1>9. ASSUME NEW S \in SUBSET graph.nodes, graph.root \in S, Closed(graph, S) PROVE fresh \subseteq S
    <2>1. h \in S
        BY <1>2, <1>3, <1>9 DEF BfsInv, Reach
    <2> QED
        BY <1>9, <2>1 DEF Closed
<1> HIDE DEF h, rest, fresh, more
<1>10. rest \o more \in Seq(graph.nodes) /\ ToSet(rest \o more) = ToSet(rest) \cup fresh
    BY <1>3, <1>6, <1>7, Concatenated
<1>11. Reach(graph, reached')
    BY <1>1, <1>9 DEF BfsInv, Reach
<1>12. ASSUME NEW a \in reached' \ ToSet(queue') PROVE graph.next[a] \subseteq reached'
    <2>1. a \in reached /\ (a = h \/ a \notin ToSet(queue))
        BY <1>1, <1>3, <1>10, <1>12
    <2> QED
        BY <1>1, <1>8, <2>1 DEF BfsInv
<1> QED
    BY <1>1, <1>2, <1>3, <1>4, <1>10, <1>11, <1>12 DEF BfsInv

\* topological_sort has placed and queued, each once, what has all its parents
\* placed; and the parents of what is placed come before it.
Sources(g, s) == {a \in g.nodes : Parents(g, a) \subseteq ToSet(s)}
Ordered(g, s) == \A j \in DOMAIN s : \A p \in Parents(g, s[j]) : \E i \in DOMAIN s : i < j /\ s[i] = p
KahnInv(g, s, q) ==
    /\ s \in Seq(g.nodes) /\ IsInjective(s) /\ Ordered(g, s)
    /\ q \in Seq(g.nodes) /\ IsInjective(q) /\ ToSet(s) \cap ToSet(q) = {}
    /\ ToSet(s) \cup ToSet(q) = Sources(g, s)

LEMMA SortStarts ==
    ASSUME IsGraph(graph), placed = <<>>, SortStart
    PROVE  KahnInv(graph, placed', queue')
<1> DEFINE free == {a \in graph.nodes : Parents(graph, a) = {}}
<1>1. queue' = Ascending(free) /\ placed' = <<>>
    BY DEF SortStart
<1>2. free \in SUBSET graph.nodes /\ free \in SUBSET Nat /\ IsFiniteSet(free)
    BY FS_Subset DEF IsGraph
<1>3. queue' \in Seq(free) /\ IsInjective(queue') /\ ToSet(queue') = free
    BY <1>1, <1>2, AscendingExact
<1>4. queue' \in Seq(graph.nodes)
    BY <1>2, <1>3, SeqMonotonic
<1>5. ToSet(placed') = {} /\ DOMAIN placed' = {} /\ placed' \in Seq(graph.nodes)
    BY <1>1 DEF ToSet
<1>6. Sources(graph, placed') = free
    BY <1>5 DEF Sources
<1> HIDE DEF free
<1> QED
    BY <1>3, <1>4, <1>5, <1>6 DEF KahnInv, IsInjective, Ordered

LEMMA SortGoesOn ==
    ASSUME IsGraph(graph), KahnInv(graph, placed, queue), SortStep
    PROVE  KahnInv(graph, placed', queue')
<1> DEFINE h == Head(queue)
           rest == Tail(queue)
           freed == {a \in graph.next[h] : Parents(graph, a) \subseteq ToSet(placed')}
           more == Ascending(freed)
           P == ToSet(placed)
           n == Len(placed)
<1>1. queue # <<>> /\ queue' = rest \o more /\ placed' = Append(placed, h)
    BY DEF SortStep
<1>2. /\ placed \in Seq(graph.nodes) /\ IsInjective(placed) /\ Ordered(graph, placed)
      /\ queue \in Seq(graph.nodes) /\ IsInjective(queue) /\ P \cap ToSet(queue) = {}
      /\ P \cup ToSet(queue) = Sources(graph, placed)
    BY DEF KahnInv
<1>3. /\ h \in graph.nodes /\ rest \in Seq(graph.nodes) /\ IsInjective(rest)
      /\ ToSet(queue) = {h} \cup ToSet(rest) /\ h \notin ToSet(rest)
    BY <1>1, <1>2, TailTaken
<1>4. h \notin P /\ h \in Sources(graph, placed)
    BY <1>2, <1>3
<1>5. /\ placed' \in Seq(graph.nodes) /\ ToSet(placed') = P \cup {h} /\ IsInjective(placed')
      /\ DOMAIN placed' = DOMAIN placed \cup {n + 1} /\ placed'[n + 1] = h
      /\ \A i \in DOMAIN placed : placed'[i] = placed[i]
    BY <1>1, <1>2, <1>3, <1>4, Appended
<1>6. n \in Nat /\ \A i \in DOMAIN placed : i \in Nat /\ i < n + 1
    BY <1>2, LenProperties
<1>7. freed \in SUBSET graph.nodes
    BY <1>3 DEF IsGraph
<1>8. freed \in SUBSET Nat /\ IsFiniteSet(freed)
    BY <1>7, FS_Subset DEF IsGraph
<1>9. more \in Seq(freed) /\ IsInjective(more) /\ ToSet(more) = freed
    BY <1>8, AscendingExact
<1>10. more \in Seq(graph.nodes)
    BY <1>7, <1>9, SeqMonotonic
<1>11. \A a \in graph.nodes : h \in Parents(graph, a) <=> a \in graph.next[h]
    BY <1>3 DEF Parents
<1>12. \A a \in freed : a \notin Sources(graph, placed)
    BY <1>4, <1>7, <1>11 DEF Sources
<1>13. Sources(graph, placed') = Sources(graph, placed) \cup freed
    <2>1. \A a \in Sources(graph, placed) : a \in Sources(graph, placed')
        BY <1>5 DEF Sources
    <2>2. \A a \in freed : a \in Sources(graph, placed')
        BY <1>7 DEF Sources
    <2>3. ASSUME NEW a \in Sources(graph, placed'), a \notin Sources(graph, placed) PROVE a \in freed
        <3>1. a \in graph.nodes /\ Parents(graph, a) \subseteq P \cup {h}
            BY <1>5, <2>3 DEF Sources
        <3>2. h \in Parents(graph, a)
            BY <2>3, <3>1 DEF Sources
        <3> QED
            BY <1>5, <1>11, <3>1, <3>2
    <2> QED
        BY <2>1, <2>2, <2>3
<1> HIDE DEF h, rest, freed, more, P, n
<1>14. ToSet(rest) \cap ToSet(more) = {}
    BY <1>2, <1>3, <1>9, <1>12
<1>15. queue' \in Seq(graph.nodes) /\ IsInjective(queue') /\ ToSet(queue') = ToSet(rest) \cup freed
    BY <1>1, <1>3, <1>9, <1>10, <1>14, Concatenated
<1>16. ToSet(placed') \cap ToSet(queue') = {}
    BY <1>2, <1>3, <1>4, <1>5, <1>12, <1>15
<1>17. ToSet(placed') \cup ToSet(queue') = Sources(graph, placed')
    BY <1>2, <1>3, <1>5, <1>13, <1>15
<1>18. Ordered(graph, placed')
    <2> SUFFICES ASSUME NEW j \in DOMAIN placed', NEW p \in Parents(graph, placed'[j])
                 PROVE  \E i \in DOMAIN placed' : i < j /\ placed'[i] = p
        BY DEF Ordered
    <2>1. CASE j \in DOMAIN placed
        <3>1. PICK i \in DOMAIN placed : i < j /\ placed[i] = p
            BY <1>2, <1>5, <2>1 DEF Ordered
        <3> QED
            BY <1>5, <3>1
    <2>2. CASE j = n + 1
        <3>1. p \in P
            BY <1>4, <1>5, <2>2 DEF Sources, P
        <3>2. PICK i \in DOMAIN placed : placed[i] = p
            BY <3>1 DEF ToSet, P
        <3> QED
            BY <1>5, <1>6, <2>2, <3>2
    <2> QED
        BY <1>5, <2>1, <2>2
<1> QED
    BY <1>5, <1>15, <1>16, <1>17, <1>18 DEF KahnInv

\* The stack of find_cycles: the path, and above the loop over all nodes a loop for
\* every address on the path, over neighbours of that address.
StackInv(g, p, t, v) ==
    /\ p \in Seq(g.nodes) /\ IsInjective(p) /\ Along(g, p)
    /\ v \in SUBSET g.nodes /\ ToSet(p) \subseteq v
    /\ t \in Seq(Seq(g.nodes))
    /\ t = <<>> => p = <<>> /\ v = g.nodes
    /\ t # <<>> => Len(t) = Len(p) + 1 /\ g.nodes \subseteq v \cup ToSet(t[1])
    /\ \A i \in DOMAIN p : ToSet(t[i + 1]) \subseteq g.next[p[i]]

\* As long as no cycle is found, what the search has left behind leads nowhere else
\* and every set of it has a source; a neighbour of an address on the path is left
\* behind, still to be looked at or the next one on the path.
HasSource(g, S) == \E a \in S : Parents(g, a) \cap S = {}
LeftBehind(g, b) == Closed(g, b) /\ \A S \in SUBSET b : S # {} => HasSource(g, S)
Seen(p, t, b, i, a) == a \in b \/ a \in ToSet(t[i + 1]) \/ (i + 1 \in DOMAIN p /\ a = p[i + 1])
AcyclicInv(g, p, t, v) ==
    /\ LeftBehind(g, v \ ToSet(p))
    /\ \A i \in DOMAIN p : \A a \in g.next[p[i]] : Seen(p, t, v \ ToSet(p), i, a)

SearchInv(g, p, t, v, c) ==
    /\ StackInv(g, p, t, v)
    /\ \A d \in c : d \in Seq(g.nodes) /\ IsCycle(g, d)
    /\ c = {} => AcyclicInv(g, p, t, v)

LEMMA SearchStarts ==
    ASSUME IsGraph(graph), path = <<>>, visited = {}, cycles = {}, SearchStart
    PROVE  SearchInv(graph, path', todo', visited', cycles')
<1> DEFINE all == Ascending(graph.nodes)
<1>1. todo' = <<all>> /\ path' = <<>> /\ visited' = {} /\ cycles' = {}
    BY DEF SearchStart
<1>2. all \in Seq(graph.nodes) /\ ToSet(all) = graph.nodes
    BY AscendingExact DEF IsGraph
<1> HIDE DEF all
<1>3. todo' \in Seq(Seq(graph.nodes)) /\ todo' # <<>> /\ Len(todo') = 1 /\ todo'[1] = all
    <2> DEFINE S == Seq(graph.nodes)
    <2>1. all \in S
        BY <1>2
    <2> HIDE DEF S
    <2>2. <<all>> \in Seq(S) /\ <<all>> # <<>> /\ Len(<<all>>) = 1 /\ <<all>>[1] = all
        BY <2>1
    <2> QED
        BY <1>1, <2>2 DEF S
<1>4. path' \in Seq(graph.nodes) /\ DOMAIN path' = {} /\ Len(path') = 0 /\ ToSet(path') = {}
    BY <1>1 DEF ToSet
<1>5. StackInv(graph, path', todo', visited')
    BY <1>1, <1>2, <1>3, <1>4 DEF StackInv, Along, IsInjective
<1>6. AcyclicInv(graph, path', todo', visited')
    BY <1>1, <1>4 DEF AcyclicInv, LeftBehind, Closed
<1> QED
    BY <1>1, <1>5, <1>6 DEF SearchInv

\* The next address of the innermost loop, and what is left of the loops after it
LEMMA LooksAt ==
    ASSUME StackInv(graph, path, todo, visited), NEW a, Looks(a)
    PROVE  /\ a \in graph.nodes /\ Len(todo) = Len(path) + 1 /\ Len(path) \in Nat
           /\ Rest \in Seq(Seq(graph.nodes)) /\ Rest # <<>> /\ Len(Rest) = Len(todo)
           /\ DOMAIN path = 1 .. Len(path) /\ DOMAIN todo = 1 .. Len(path) + 1
           /\ a \in ToSet(todo[Len(path) + 1])
           /\ \A i \in DOMAIN todo : /\ ToSet(Rest[i]) \subseteq ToSet(todo[i])
                                     /\ \A b \in ToSet(todo[i]) : b \in ToSet(Rest[i]) \/ (b = a /\ i = Len(path) + 1)
<1> DEFINE n == Len(todo)
           last == todo[n]
           S == Seq(graph.nodes)
<1>1. todo \in Seq(S) /\ todo # <<>> /\ last # <<>> /\ a = Head(last) /\ n = Len(path) + 1
      /\ path \in Seq(graph.nodes)
    BY DEF Looks, StackInv, Last
<1>2. n \in Nat \ {0} /\ DOMAIN todo = 1 .. n /\ n \in DOMAIN todo /\ last \in S
    BY <1>1, LenProperties, EmptySeq, ElementOfSeq
<1>3. Len(path) \in Nat /\ DOMAIN path = 1 .. Len(path)
    BY <1>1, LenProperties
<1>4. /\ a \in graph.nodes /\ Tail(last) \in S
      /\ ToSet(last) = {a} \cup ToSet(Tail(last))
    BY <1>1, <1>2, TailTaken
<1>5. Rest = [todo EXCEPT ![n] = Tail(last)]
    BY DEF Rest
<1> HIDE DEF n, last, S
<1>6. Rest \in Seq(S) /\ Len(Rest) = n
    BY <1>1, <1>2, <1>4, <1>5, ExceptSeq DEF n
<1>7. Rest # <<>>
    BY <1>2, <1>6, EmptySeq
<1>8. \A i \in DOMAIN todo : Rest[i] = IF i = n THEN Tail(last) ELSE todo[i]
    BY <1>1, <1>5
<1>9. todo[n] = last
    BY DEF last
<1>10. \A i \in DOMAIN todo : /\ ToSet(Rest[i]) \subseteq ToSet(todo[i])
                              /\ \A b \in ToSet(todo[i]) : b \in ToSet(Rest[i]) \/ (b = a /\ i = n)
    BY <1>4, <1>8, <1>9
<1> QED
    BY <1>1, <1>2, <1>3, <1>4, <1>6, <1>7, <1>9, <1>10 DEF n, S

LEMMA VisitInv ==
    ASSUME IsGraph(graph), SearchInv(graph, path, todo, visited, cycles), NEW a, Visit(a)
    PROVE  SearchInv(graph, path', todo', visited', cycles')
<1> DEFINE m == Len(path)
           sons == Ascending(graph.next[a])
           S == Seq(graph.nodes)
<1>1. /\ a \notin visited /\ visited' = visited \cup {a} /\ path' = Append(path, a)
      /\ todo' = Append(Rest, sons) /\ cycles' = cycles /\ Looks(a)
    BY DEF Visit
<1>2. StackInv(graph, path, todo, visited)
    BY DEF SearchInv
<1>3. /\ a \in graph.nodes /\ Len(todo) = m + 1 /\ m \in Nat
      /\ Rest \in Seq(S) /\ Rest # <<>> /\ Len(Rest) = m + 1
      /\ DOMAIN path = 1 .. m /\ DOMAIN todo = 1 .. m + 1
      /\ a \in ToSet(todo[m + 1])
      /\ \A i \in 1 .. m + 1 : /\ ToSet(Rest[i]) \subseteq ToSet(todo[i])
                               /\ \A b \in ToSet(todo[i]) : b \in ToSet(Rest[i]) \/ (b = a /\ i = m + 1)
    BY <1>1, <1>2, LooksAt
<1>4. graph.next[a] \in SUBSET graph.nodes /\ graph.next[a] \in SUBSET Nat /\ IsFiniteSet(graph.next[a])
    BY <1>3, FS_Subset DEF IsGraph
<1>5. sons \in S /\ ToSet(sons) = graph.next[a]
    <2>1. sons \in Seq(graph.next[a]) /\ ToSet(sons) = graph.next[a]
        BY <1>4, AscendingExact
    <2> QED
        BY <1>4, <2>1, SeqMonotonic
<1>6. /\ path \in S /\ IsInjective(path) /\ Along(graph, path)
      /\ visited \in SUBSET graph.nodes /\ ToSet(path) \subseteq visited
      /\ todo # <<>> /\ graph.nodes \subseteq visited \cup ToSet(todo[1])
      /\ \A i \in 1 .. m : ToSet(todo[i + 1]) \subseteq graph.next[path[i]]
    BY <1>1, <1>2, <1>3 DEF StackInv, Looks
<1>7. /\ path' \in S /\ Len(path') = m + 1 /\ DOMAIN path' = 1 .. m + 1
      /\ (\A i \in 1 .. m : path'[i] = path[i]) /\ path'[m + 1] = a
      /\ ToSet(path') = ToSet(path) \cup {a} /\ IsInjective(path')
    BY <1>1, <1>3, <1>6, Appended, LenProperties
<1> HIDE DEF S, sons
<1>8. /\ todo' \in Seq(S) /\ todo' # <<>> /\ Len(todo') = m + 2
      /\ (\A i \in 1 .. m + 1 : todo'[i] = Rest[i]) /\ todo'[m + 2] = sons
    BY <1>1, <1>3, <1>5, AppendProperties
<1> HIDE DEF m
<1>9. Along(graph, path')
    <2> SUFFICES ASSUME NEW i \in 1 .. m PROVE path'[i + 1] \in graph.next[path'[i]]
        BY <1>3, <1>7 DEF Along
    <2>1. CASE i = m
        BY <1>3, <1>6, <1>7, <2>1
    <2>2. CASE i # m
        <3>1. i \in 1 .. m - 1 /\ i + 1 \in 1 .. m
            BY <1>3, <2>2
        <3>2. path[i + 1] \in graph.next[path[i]]
            BY <1>6, <3>1 DEF Along, m
        <3> QED
            BY <1>7, <3>1, <3>2
    <2> QED
        BY <2>1, <2>2
<1>10. \A i \in 1 .. m + 1 : ToSet(todo'[i + 1]) \subseteq graph.next[path'[i]]
    <2> SUFFICES ASSUME NEW i \in 1 .. m + 1 PROVE ToSet(todo'[i + 1]) \subseteq graph.next[path'[i]]
        OBVIOUS
    <2>1. CASE i = m + 1
        <3>1. i + 1 = m + 2
            BY <1>3, <2>1
        <3> QED
            BY <1>5, <1>7, <1>8, <2>1, <3>1
    <2>2. CASE i # m + 1
        <3>1. i \in 1 .. m /\ i + 1 \in 1 .. m + 1
            BY <1>3, <2>2
        <3> QED
            BY <1>3, <1>6, <1>7, <1>8, <3>1
    <2> QED
        BY <2>1, <2>2
<1>11. graph.nodes \subseteq visited' \cup ToSet(todo'[1])
    <2>1. 1 \in 1 .. m + 1 /\ todo'[1] = Rest[1]
        BY <1>3, <1>8
    <2> QED
        BY <1>1, <1>3, <1>6, <2>1
<1>12. StackInv(graph, path', todo', visited')
    <2>1. todo' \in Seq(Seq(graph.nodes)) /\ path' \in Seq(graph.nodes)
        BY <1>7, <1>8 DEF S
    <2>2. Len(todo') = Len(path') + 1
        BY <1>3, <1>7, <1>8
    <2>3. visited' \in SUBSET graph.nodes /\ ToSet(path') \subseteq visited'
        BY <1>1, <1>3, <1>6, <1>7
    <2> QED
        BY <1>7, <1>8, <1>9, <1>10, <1>11, <2>1, <2>2, <2>3 DEF StackInv
<1>13. ASSUME cycles = {} PROVE AcyclicInv(graph, path', todo', visited')
    <2> DEFINE black == visited \ ToSet(path)
    <2>1. visited' \ ToSet(path') = black
        BY <1>1, <1>7
    <2>2. LeftBehind(graph, black) /\ \A i \in 1 .. m : \A b \in graph.next[path[i]] : Seen(path, todo, black, i, b)
        BY <1>3, <1>13 DEF SearchInv, AcyclicInv
    <2> HIDE DEF black
    <2>3. ASSUME NEW i \in 1 .. m + 1, NEW b \in graph.next[path'[i]]
          PROVE  Seen(path', todo', black, i, b)
        <3>1. CASE i = m + 1
            <4>1. i + 1 = m + 2
                BY <1>3, <3>1
            <4> QED
                BY <1>5, <1>7, <1>8, <2>3, <3>1, <4>1 DEF Seen
        <3>2. CASE i # m + 1
            <4>1. i \in 1 .. m /\ i + 1 \in 1 .. m + 1
                BY <1>3, <3>2
            <4>2. Seen(path, todo, black, i, b)
                BY <1>7, <2>2, <2>3, <4>1
            <4>3. CASE b \in ToSet(todo[i + 1])
                BY <1>3, <1>7, <1>8, <4>1, <4>3 DEF Seen
            <4>4. CASE i + 1 \in 1 .. m /\ b = path[i + 1]
                BY <1>7, <4>1, <4>4 DEF Seen
            <4> QED
                BY <1>3, <4>2, <4>3, <4>4 DEF Seen
        <3> QED
            BY <3>1, <3>2
    <2> QED
        BY <1>7, <2>1, <2>2, <2>3 DEF AcyclicInv
<1> QED
    BY <1>1, <1>12, <1>13 DEF SearchInv

\* An address that was visited leaves its loop; the stack stays as it should be.
LEMMA RestStands ==
    ASSUME StackInv(graph, path, todo, visited), NEW a, Looks(a), a \in visited
    PROVE  StackInv(graph, path, Rest, visited)
<1> DEFINE m == Len(path)
           S == Seq(graph.nodes)
<1>1. /\ a \in graph.nodes /\ m \in Nat /\ Rest \in Seq(S) /\ Rest # <<>> /\ Len(Rest) = m + 1
      /\ DOMAIN path = 1 .. m
      /\ \A i \in 1 .. m + 1 : /\ ToSet(Rest[i]) \subseteq ToSet(todo[i])
                               /\ \A b \in ToSet(todo[i]) : b \in ToSet(Rest[i]) \/ (b = a /\ i = m + 1)
    BY LooksAt
<1>2. /\ path \in S /\ IsInjective(path) /\ Along(graph, path)
      /\ visited \in SUBSET graph.nodes /\ ToSet(path) \subseteq visited
      /\ graph.nodes \subseteq visited \cup ToSet(todo[1])
      /\ \A i \in 1 .. m : ToSet(todo[i + 1]) \subseteq graph.next[path[i]]
    BY <1>1 DEF StackInv, Looks
<1> HIDE DEF m, S
<1>3. graph.nodes \subseteq visited \cup ToSet(Rest[1])
    <2>1. 1 \in 1 .. m + 1
        BY <1>1
    <2> QED
        BY <1>1, <1>2, <2>1
<1>4. \A i \in 1 .. m : ToSet(Rest[i + 1]) \subseteq graph.next[path[i]]
    <2>1. \A i \in 1 .. m : i + 1 \in 1 .. m + 1
        BY <1>1
    <2> QED
        BY <1>1, <1>2, <2>1
<1> QED
    BY <1>1, <1>2, <1>3, <1>4 DEF StackInv, m, S

LEMMA PartTaken ==
    ASSUME NEW S, NEW s, NEW k \in Int, NEW n \in Int, \A i \in k .. n : s[i] \in S
    PROVE  /\ SubSeq(s, k, n) \in Seq(S)
           /\ k <= n => Len(SubSeq(s, k, n)) = n - k + 1
           /\ \A i \in 1 .. n - k + 1 : SubSeq(s, k, n)[i] = s[k + i - 1]
BY SubSeqProperties

\* The path from a place on, and an address its end leads to
LEMMA PathClosed ==
    ASSUME NEW g, NEW p \in Seq(g.nodes), Along(g, p), NEW i \in DOMAIN p, p[i] \in g.next[p[Len(p)]]
    PROVE  /\ Append(SubSeq(p, i, Len(p)), p[i]) \in Seq(g.nodes)
           /\ IsCycle(g, Append(SubSeq(p, i, Len(p)), p[i]))
<1> DEFINE n == Len(p)
           s == SubSeq(p, i, n)
           k == n - i + 1
           c == Append(s, p[i])
<1>1. n \in Nat /\ DOMAIN p = 1 .. n /\ \A j \in 1 .. n : p[j] \in g.nodes
    BY LenProperties, ElementOfSeq
<1>2. i \in 1 .. n
    BY <1>1
<1>3. \A j \in 1 .. n - 1 : p[j + 1] \in g.next[p[j]]
    BY DEF Along
<1>4. p[i] \in g.next[p[n]]
    OBVIOUS
<1> HIDE DEF n
<1>5. \A j \in i .. n : p[j] \in g.nodes
    BY <1>1, <1>2
<1>6. /\ s \in Seq(g.nodes) /\ Len(s) = n - i + 1
      /\ \A j \in 1 .. n - i + 1 : s[j] = p[i + j - 1]
    <2> DEFINE N == g.nodes
    <2>1. i \in Int /\ n \in Int /\ i <= n /\ \A j \in i .. n : p[j] \in N
        BY <1>1, <1>2, <1>5
    <2> HIDE DEF N, s
    <2>2. /\ SubSeq(p, i, n) \in Seq(N) /\ Len(SubSeq(p, i, n)) = n - i + 1
          /\ \A j \in 1 .. n - i + 1 : SubSeq(p, i, n)[j] = p[i + j - 1]
        BY <2>1, PartTaken
    <2> QED
        BY <2>2 DEF s, N
<1> HIDE DEF s
<1>7. k \in Nat \ {0} /\ Len(s) = k /\ \A j \in 1 .. k : s[j] = p[i + j - 1]
    BY <1>1, <1>2, <1>6
<1> HIDE DEF k
<1>8. p[i] \in g.nodes
    BY <1>1, <1>2
<1>9. /\ c \in Seq(g.nodes) /\ Len(c) = k + 1 /\ (\A j \in 1 .. k : c[j] = s[j]) /\ c[k + 1] = p[i]
    BY <1>6, <1>7, <1>8, AppendProperties
<1> HIDE DEF c
<1>10. k > 0 /\ k \in Nat /\ i + k - 1 = n /\ i + 1 - 1 = i /\ 1 \in 1 .. k /\ k \in 1 .. k
    BY <1>1, <1>2, <1>7 DEF k
<1>11. c[1] = p[i] /\ c[k] = p[n]
    BY <1>7, <1>9, <1>10
<1>12. ToSet(c) \subseteq g.nodes
    <2>1. \A j \in DOMAIN c : c[j] \in g.nodes
        BY <1>9, LenProperties, ElementOfSeq
    <2> QED
        BY <2>1 DEF ToSet
<1>13. ASSUME NEW j \in 1 .. k + 1 - 1 PROVE c[j + 1] \in g.next[c[j]]
    <2>1. CASE j = k
        BY <1>4, <1>9, <1>11, <2>1
    <2>2. CASE j # k
        <3>1. j \in 1 .. k /\ j + 1 \in 1 .. k /\ i + j - 1 \in 1 .. n - 1 /\ i + (j + 1) - 1 = (i + j - 1) + 1
            BY <1>1, <1>2, <1>10, <1>13, <2>2
        <3>2. c[j] = p[i + j - 1] /\ c[j + 1] = p[(i + j - 1) + 1]
            <4>1. s[j] = p[i + j - 1] /\ s[j + 1] = p[i + (j + 1) - 1]
                BY <1>7, <3>1
            <4>2. c[j] = s[j] /\ c[j + 1] = s[j + 1]
                BY <1>9, <3>1
            <4> QED
                BY <3>1, <4>1, <4>2
        <3> QED
            BY <1>3, <3>1, <3>2
    <2> QED
        BY <2>1, <2>2
<1>14. IsCycle(g, c)
    BY <1>9, <1>10, <1>11, <1>12, <1>13 DEF IsCycle, Along, Last
<1> QED
    BY <1>9, <1>14 DEF c, s, n

LEMMA ClosesInv ==
    ASSUME SearchInv(graph, path, todo, visited, cycles), NEW a, Closes(a)
    PROVE  SearchInv(graph, path', todo', visited', cycles')
<1> DEFINE m == Len(path)
<1>1. /\ Looks(a) /\ a \in ToSet(path) /\ todo' = Rest /\ path' = path /\ visited' = visited
    BY DEF Closes
<1>2. PICK i \in DOMAIN path : path[i] = a /\ cycles' = cycles \cup {Append(SubSeq(path, i, m), a)}
    BY DEF Closes
<1>3. StackInv(graph, path, todo, visited) /\ \A d \in cycles : d \in Seq(graph.nodes) /\ IsCycle(graph, d)
    BY DEF SearchInv
<1>4. a \in visited
    BY <1>1, <1>3 DEF StackInv
<1>5. StackInv(graph, path', todo', visited')
    BY <1>1, <1>3, <1>4, RestStands
<1>6. m \in Nat /\ DOMAIN path = 1 .. m /\ a \in ToSet(todo[m + 1])
    BY <1>1, <1>3, LooksAt
<1>7. a \in graph.next[path[m]]
    <2>1. m \in DOMAIN path
        BY <1>2, <1>6
    <2> HIDE DEF m
    <2> QED
        BY <1>3, <1>6, <2>1 DEF StackInv
<1> DEFINE d == Append(SubSeq(path, i, m), a)
<1>8. d \in Seq(graph.nodes) /\ IsCycle(graph, d)
    BY <1>1, <1>2, <1>3, <1>7, PathClosed DEF StackInv
<1>9. cycles' = cycles \cup {d}
    BY <1>2
<1> HIDE DEF d, m
<1> QED
    BY <1>3, <1>5, <1>8, <1>9 DEF SearchInv

LEMMA PassesInv ==
    ASSUME SearchInv(graph, path, todo, visited, cycles), NEW a, Passes(a)
    PROVE  SearchInv(graph, path', todo', visited', cycles')
<1> DEFINE m == Len(path)
           black == visited \ ToSet(path)
<1>1. /\ Looks(a) /\ a \in black /\ todo' = Rest /\ UNCHANGED <<path, visited, cycles>>
    BY DEF Passes
<1>2. StackInv(graph, path, todo, visited)
    BY DEF SearchInv
<1>3. StackInv(graph, path', todo', visited')
    BY <1>1, <1>2, RestStands
<1>4. /\ m \in Nat /\ DOMAIN path = 1 .. m
      /\ \A i \in 1 .. m + 1 : \A b \in ToSet(todo[i]) : b \in ToSet(Rest[i]) \/ (b = a /\ i = m + 1)
    BY <1>1, <1>2, LooksAt
<1>5. ASSUME cycles = {} PROVE AcyclicInv(graph, path', todo', visited')
    <2>1. LeftBehind(graph, black) /\ \A i \in 1 .. m : \A b \in graph.next[path[i]] : Seen(path, todo, black, i, b)
        BY <1>4, <1>5 DEF SearchInv, AcyclicInv
    <2> HIDE DEF black, m
    <2>2. \A i \in 1 .. m : i + 1 \in 1 .. m + 1
        BY <1>4
    <2>3. \A i \in 1 .. m : \A b \in graph.next[path[i]] : Seen(path, Rest, black, i, b)
        BY <1>1, <1>4, <2>1, <2>2 DEF Seen
    <2> QED
        BY <1>1, <1>4, <2>1, <2>3 DEF AcyclicInv, black
<1> QED
    BY <1>1, <1>3, <1>5 DEF SearchInv

LEMMA SourceAdded ==
    ASSUME NEW g, NEW b, LeftBehind(g, b), NEW a \in g.nodes, a \notin b, g.next[a] \subseteq b
    PROVE  LeftBehind(g, b \cup {a})
<1>1. Closed(g, b \cup {a})
    BY DEF LeftBehind, Closed
<1>2. ASSUME NEW S \in SUBSET (b \cup {a}), S # {} PROVE HasSource(g, S)
    <2>1. CASE a \in S
        <3>1. \A p \in S : a \notin g.next[p]
            BY DEF LeftBehind, Closed
        <3> QED
            BY <2>1, <3>1 DEF HasSource, Parents
    <2>2. CASE a \notin S
        <3>1. S \in SUBSET b
            BY <2>2
        <3> QED
            BY <1>2, <3>1 DEF LeftBehind
    <2> QED
        BY <2>1, <2>2
<1> QED
    BY <1>1, <1>2 DEF LeftBehind

LEMMA ReturnsInv ==
    ASSUME IsGraph(graph), SearchInv(graph, path, todo, visited, cycles), Returns
    PROVE  SearchInv(graph, path', todo', visited', cycles')
<1> DEFINE m == Len(path)
           S == Seq(graph.nodes)
<1>1. /\ todo # <<>> /\ Last(todo) = <<>> /\ todo' = Front(todo)
      /\ path' = IF path = <<>> THEN <<>> ELSE Front(path)
      /\ visited' = visited /\ cycles' = cycles
    BY DEF Returns
<1>2. /\ path \in S /\ IsInjective(path) /\ Along(graph, path)
      /\ visited \in SUBSET graph.nodes /\ ToSet(path) \subseteq visited
      /\ todo \in Seq(S) /\ Len(todo) = m + 1 /\ graph.nodes \subseteq visited \cup ToSet(todo[1])
      /\ \A i \in DOMAIN path : ToSet(todo[i + 1]) \subseteq graph.next[path[i]]
    BY <1>1 DEF SearchInv, StackInv
<1>3. m \in Nat /\ DOMAIN path = 1 .. m
    BY <1>2, LenProperties
<1>4. todo[m + 1] = <<>> /\ ToSet(<<>>) = {}
    BY <1>1, <1>2 DEF Last, ToSet
<1>5. /\ Front(todo) \in Seq(S) /\ Len(Front(todo)) = m /\ DOMAIN Front(todo) = 1 .. m
      /\ \A i \in 1 .. m : Front(todo)[i] = todo[i]
    <2> HIDE DEF S, m
    <2>1. Front(todo) \in Seq(S) /\ Len(Front(todo)) = Len(todo) - 1
          /\ \A i \in DOMAIN Front(todo) : Front(todo)[i] = todo[i]
        BY <1>1, <1>2, FrontTaken, Zenon
    <2>2. DOMAIN Front(todo) = 1 .. m
        BY <1>2, <1>3, <2>1, LenProperties
    <2> QED
        BY <1>2, <1>3, <2>1, <2>2
<1>6. CASE path = <<>>
    <2>1. m = 0 /\ m + 1 = 1 /\ ToSet(path) = {}
        BY <1>4, <1>6
    <2>2. graph.nodes = visited
        BY <1>2, <1>4, <2>1
    <2>3. todo' = <<>> /\ path' = <<>>
        BY <1>1, <1>5, <1>6, <2>1, EmptySeq
    <2>4. StackInv(graph, path', todo', visited')
        BY <1>1, <1>2, <1>5, <1>6, <2>2, <2>3 DEF StackInv
    <2>5. cycles = {} => AcyclicInv(graph, path', todo', visited')
        BY <1>1, <1>3, <1>6, <2>1, <2>3 DEF SearchInv, AcyclicInv
    <2> QED
        BY <1>1, <2>4, <2>5 DEF SearchInv
<1>7. CASE path # <<>>
    <2> DEFINE a == path[m]
               black == visited \ ToSet(path)
    <2>1. /\ path' \in S /\ Len(path') = m - 1 /\ DOMAIN path' = 1 .. m - 1
          /\ m \in Nat \ {0} /\ a \in graph.nodes
          /\ \A i \in 1 .. m - 1 : path'[i] = path[i]
          /\ IsInjective(path') /\ ToSet(path') = ToSet(path) \ {a}
        <3> USE <1>1, <1>2, <1>7, FrontTaken
        <3>1. path' = Front(path) /\ path' \in S /\ Len(path') = m - 1 /\ m \in Nat \ {0} /\ a \in graph.nodes
            OBVIOUS
        <3>2. IsInjective(path') /\ ToSet(path') = ToSet(path) \ {a}
            OBVIOUS
        <3>3. DOMAIN path' = 1 .. m - 1
            BY <3>1, LenProperties
        <3>4. \A i \in DOMAIN path' : path'[i] = path[i]
            BY <1>2, <1>7, <3>1, FrontTaken, Zenon
        <3> QED
            BY <3>1, <3>2, <3>3, <3>4
    <2>2. a \in ToSet(path)
        BY <1>3, <2>1 DEF ToSet
    <2> HIDE DEF a
    <2>3. Along(graph, path')
        <3>1. \A i \in 1 .. m - 1 - 1 : i \in 1 .. m - 1 /\ i + 1 \in 1 .. m - 1
            BY <2>1
        <3>2. \A i \in 1 .. m - 1 : path[i + 1] \in graph.next[path[i]]
            BY <1>2 DEF Along
        <3> HIDE DEF m
        <3> QED
            BY <2>1, <3>1, <3>2 DEF Along
    <2> HIDE DEF m
    <2>4. \A i \in 1 .. m - 1 : i \in 1 .. m /\ i + 1 \in 1 .. m
        BY <2>1
    <2>5. StackInv(graph, path', todo', visited')
        <3>1. todo' \in Seq(Seq(graph.nodes)) /\ path' \in Seq(graph.nodes)
            BY <1>1, <1>5, <2>1 DEF S
        <3>2. todo' # <<>> /\ Len(todo') = Len(path') + 1
            BY <1>1, <1>5, <2>1, EmptySeq
        <3>3. visited' \in SUBSET graph.nodes /\ ToSet(path') \subseteq visited'
            BY <1>1, <1>2, <2>1
        <3>4. graph.nodes \subseteq visited' \cup ToSet(todo'[1])
            <4>1. 1 \in 1 .. m
                BY <2>1
            <4> QED
                BY <1>1, <1>2, <1>5, <4>1
        <3>5. \A i \in DOMAIN path' : ToSet(todo'[i + 1]) \subseteq graph.next[path'[i]]
            BY <1>1, <1>2, <1>3, <1>5, <2>1, <2>4
        <3> QED
            BY <2>1, <2>3, <3>1, <3>2, <3>3, <3>4, <3>5 DEF StackInv
    <2>6. ASSUME cycles = {} PROVE AcyclicInv(graph, path', todo', visited')
        <3>1. LeftBehind(graph, black) /\ \A i \in 1 .. m : \A b \in graph.next[path[i]] : Seen(path, todo, black, i, b)
            BY <1>3, <2>6 DEF SearchInv, AcyclicInv
        <3>2. a \in visited /\ a \notin black /\ visited' \ ToSet(path') = black \cup {a}
            BY <1>1, <1>2, <2>1, <2>2
        <3> HIDE DEF black
        <3>3. graph.next[a] \subseteq black
            <4>1. m \in 1 .. m /\ m + 1 \notin 1 .. m
                BY <2>1
            <4> QED
                BY <1>3, <1>4, <3>1, <4>1 DEF Seen, a
        <3>4. LeftBehind(graph, black \cup {a})
            BY <2>1, <3>1, <3>2, <3>3, SourceAdded
        <3>5. ASSUME NEW i \in 1 .. m - 1, NEW b \in graph.next[path'[i]]
              PROVE  Seen(path', todo', black \cup {a}, i, b)
            <4>1. Seen(path, todo, black, i, b)
                BY <2>1, <2>4, <3>1, <3>5
            <4>2. CASE b \in ToSet(todo[i + 1])
                BY <1>1, <1>5, <2>4, <4>2 DEF Seen
            <4>3. CASE i + 1 \in 1 .. m /\ b = path[i + 1]
                <5>1. CASE i + 1 = m
                    BY <4>3, <5>1 DEF Seen, a
                <5>2. CASE i + 1 # m
                    <6>1. i + 1 \in 1 .. m - 1
                        BY <2>1, <4>3, <5>2
                    <6> QED
                        BY <2>1, <4>3, <6>1 DEF Seen
                <5> QED
                    BY <5>1, <5>2
            <4> QED
                BY <1>3, <4>1, <4>2, <4>3 DEF Seen
        <3>6. \A i \in DOMAIN path' : \A b \in graph.next[path'[i]] : Seen(path', todo', visited' \ ToSet(path'), i, b)
            <4> TAKE i \in DOMAIN path'
            <4> TAKE b \in graph.next[path'[i]]
            <4>1. Seen(path', todo', black \cup {a}, i, b)
                BY <2>1, <3>5
            <4> QED
                BY <3>2, <4>1
        <3>7. LeftBehind(graph, visited' \ ToSet(path'))
            BY <3>2, <3>4
        <3> QED
            BY <3>6, <3>7 DEF AcyclicInv
    <2> QED
        BY <1>1, <2>5, <2>6 DEF SearchInv
<1> QED
    BY <1>6, <1>7

\* What the traversals have done so far
WalkInv ==
    /\ walk \in {"none", "bfs", "sort", "search"}
    /\ walk # "none" => stage \in {"built", "refused"}
    /\ walk = "bfs" => BfsInv(graph, queue, reached)
    /\ walk \in {"sort", "search"} => Closed(graph, reached) /\ Reach(graph, reached)
    /\ walk \in {"none", "bfs"} => placed = <<>>
    /\ walk = "sort" => KahnInv(graph, placed, queue)
    /\ walk = "search" => KahnInv(graph, placed, <<>>)
    /\ walk # "search" => path = <<>> /\ visited = {} /\ cycles = {}
    /\ walk = "search" => SearchInv(graph, path, todo, visited, cycles)

GraphsGood == stage \in {"built", "refused"} => IsGraph(graph)

\* The traversals leave the discovery alone, and it is over when they start.
LEMMA DiscoveryBelow == TraversalSpec => DiscoverySpec
<1>1. TraversalInit => DiscoveryInit
    BY DEF TraversalInit
<1>2. [TraversalNext]_<<discoveryVars, traversalVars>> => [DiscoveryNext]_discoveryVars
    BY DEF TraversalNext, Discovers, Turns, BfsStart, BfsStep, SortStart, SortStep, SearchStart,
           Visit, Closes, Passes, Looks, Returns
<1> QED
    BY <1>1, <1>2, PTL DEF TraversalSpec, DiscoverySpec

LEMMA DiscoveryOver == DiscoveryNext => stage \notin {"built", "refused"}
BY DEF DiscoveryNext, ProbeRoot, ProxyChain, GovernanceChain, RegistryPeers, FromIntelligence,
       LiquidityPools, SourceLinked, ProbeFails, Assemble, BuildGraph, Asked

LEMMA WalkStep ==
    GraphsGood /\ WalkInv /\ [TraversalNext]_<<discoveryVars, traversalVars>> => WalkInv'
<1> SUFFICES ASSUME GraphsGood, WalkInv, [TraversalNext]_<<discoveryVars, traversalVars>>
             PROVE  WalkInv'
    OBVIOUS
<1>1. CASE Discovers
    <2>1. walk = "none" /\ UNCHANGED traversalVars
        BY <1>1, DiscoveryOver DEF Discovers, WalkInv
    <2> QED
        BY <2>1 DEF WalkInv, traversalVars
<1>2. CASE UNCHANGED <<discoveryVars, traversalVars>>
    <2>1. /\ UNCHANGED <<stage, graph>>
          /\ UNCHANGED <<walk, queue, reached, placed, path, todo, visited, cycles>>
        BY <1>2 DEF discoveryVars, traversalVars
    <2> QED
        BY <2>1, Zenon DEF WalkInv
<1>3. ASSUME walk' # "none", walk # "none" \/ BfsStart, UNCHANGED discoveryVars
      PROVE  IsGraph(graph) /\ graph' = graph /\ stage' = stage /\ stage \in {"built", "refused"}
    BY <1>3 DEF GraphsGood, WalkInv, BfsStart, discoveryVars
<1>4. CASE BfsStart
    <2>1. walk' = "bfs" /\ walk = "none" /\ UNCHANGED discoveryVars /\ UNCHANGED <<placed, path, visited, cycles>>
        BY <1>4 DEF BfsStart, Turns, searchVars
    <2>2. BfsInv(graph, queue', reached')
        BY <1>3, <1>4, <2>1, BfsStarts
    <2> QED
        BY <1>3, <1>4, <2>1, <2>2 DEF WalkInv
<1>5. CASE BfsStep
    <2>1. walk' = "bfs" /\ walk = "bfs" /\ UNCHANGED discoveryVars /\ UNCHANGED <<placed, path, visited, cycles>>
        BY <1>5 DEF BfsStep, Turns, searchVars
    <2>2. BfsInv(graph, queue', reached')
        BY <1>3, <1>5, <2>1, BfsGoesOn DEF WalkInv
    <2> QED
        BY <1>3, <2>1, <2>2 DEF WalkInv
<1>6. CASE SortStart
    <2>1. /\ walk' = "sort" /\ walk = "bfs" /\ queue = <<>> /\ UNCHANGED discoveryVars
          /\ UNCHANGED <<reached, path, visited, cycles>>
        BY <1>6 DEF SortStart, Turns, searchVars
    <2>2. KahnInv(graph, placed', queue')
        BY <1>3, <1>6, <2>1, SortStarts DEF WalkInv
    <2>3. Closed(graph, reached) /\ Reach(graph, reached)
        BY <2>1 DEF WalkInv, BfsInv, Closed, ToSet
    <2> QED
        BY <1>3, <2>1, <2>2, <2>3 DEF WalkInv
<1>7. CASE SortStep
    <2>1. walk' = "sort" /\ walk = "sort" /\ UNCHANGED discoveryVars /\ UNCHANGED <<reached, path, visited, cycles>>
        BY <1>7 DEF SortStep, Turns, searchVars
    <2>2. KahnInv(graph, placed', queue')
        BY <1>3, <1>7, <2>1, SortGoesOn DEF WalkInv
    <2> QED
        BY <1>3, <2>1, <2>2 DEF WalkInv
<1>8. CASE SearchStart
    <2>1. walk' = "search" /\ walk = "sort" /\ queue = <<>> /\ UNCHANGED discoveryVars /\ UNCHANGED <<reached, placed>>
        BY <1>8 DEF SearchStart, Turns
    <2>2. SearchInv(graph, path', todo', visited', cycles')
        BY <1>3, <1>8, <2>1, SearchStarts DEF WalkInv
    <2> QED
        BY <1>3, <2>1, <2>2 DEF WalkInv
<1>9. ASSUME NEW a \in graph.nodes, Visit(a) \/ Closes(a) \/ Passes(a) PROVE WalkInv'
    <2>1. walk' = "search" /\ walk = "search" /\ UNCHANGED discoveryVars /\ UNCHANGED <<reached, placed>>
        BY <1>9 DEF Visit, Closes, Passes, Looks, Turns
    <2>2. SearchInv(graph, path', todo', visited', cycles')
        BY <1>3, <1>9, <2>1, VisitInv, ClosesInv, PassesInv DEF WalkInv
    <2> QED
        BY <1>3, <2>1, <2>2 DEF WalkInv
<1>10. CASE Returns
    <2>1. walk' = "search" /\ walk = "search" /\ UNCHANGED discoveryVars /\ UNCHANGED <<reached, placed>>
        BY <1>10 DEF Returns, Turns
    <2>2. SearchInv(graph, path', todo', visited', cycles')
        BY <1>3, <1>10, <2>1, ReturnsInv DEF WalkInv
    <2> QED
        BY <1>3, <2>1, <2>2 DEF WalkInv
<1> QED
    BY <1>1, <1>2, <1>4, <1>5, <1>6, <1>7, <1>8, <1>9, <1>10 DEF TraversalNext

\* All addresses are placed when there are as many places as addresses.
LEMMA AllPlaced ==
    ASSUME NEW g, IsGraph(g), NEW s \in Seq(g.nodes), IsInjective(s)
    PROVE  Len(s) = Cardinality(g.nodes) <=> ToSet(s) = g.nodes
<1> DEFINE n == Len(s)
<1>1. n \in Nat /\ DOMAIN s = 1 .. n /\ ToSet(s) \in SUBSET g.nodes
    <2>1. \A i \in DOMAIN s : s[i] \in g.nodes
        BY LenProperties, ElementOfSeq
    <2> QED
        BY <2>1, LenProperties DEF ToSet
<1> HIDE DEF n
<1>2. s = [i \in 1 .. n |-> s[i]]
    BY <1>1 DEF n
<1>3. s \in Surjection(1 .. n, ToSet(s)) /\ s \in Injection(1 .. n, ToSet(s))
    <2>1. s \in [1 .. n -> ToSet(s)]
        BY <1>1, <1>2 DEF ToSet
    <2>2. \A x \in ToSet(s) : \E i \in 1 .. n : s[i] = x
        BY <1>1 DEF ToSet
    <2> QED
        BY <2>1, <2>2 DEF Surjection, Injection
<1>4. IsFiniteSet(1 .. n) /\ Cardinality(1 .. n) = n
    BY <1>1, FS_Interval
<1>5. Cardinality(ToSet(s)) = n
    BY <1>3, <1>4, FS_Surjection
<1>6. Cardinality(g.nodes) = Cardinality(ToSet(s)) => g.nodes = ToSet(s)
    BY <1>1, FS_Subset DEF IsGraph
<1> QED
    BY <1>5, <1>6 DEF n

\* Around a cycle each address has its parent on the cycle.
LEMMA CycleHasNoSource ==
    ASSUME NEW g, NEW c \in Seq(g.nodes), IsCycle(g, c), NEW a \in ToSet(c)
    PROVE  \E p \in ToSet(c) : p \in Parents(g, a)
<1> DEFINE n == Len(c)
<1>1. n \in Nat /\ n > 1 /\ DOMAIN c = 1 .. n /\ c[1] = c[n] /\ ToSet(c) \subseteq g.nodes
    BY LenProperties DEF IsCycle, Last
<1>2. \A j \in 1 .. n - 1 : c[j + 1] \in g.next[c[j]]
    BY DEF IsCycle, Along
<1> HIDE DEF n
<1>3. \E j \in 1 .. n - 1 : c[j + 1] = a
    <2>1. PICK i \in 1 .. n : c[i] = a
        BY <1>1 DEF ToSet
    <2>2. CASE i = 1
        <3>1. n - 1 \in 1 .. n - 1 /\ (n - 1) + 1 = n
            BY <1>1
        <3>2. c[(n - 1) + 1] = a
            BY <1>1, <2>1, <2>2, <3>1
        <3> QED
            BY <3>1, <3>2
    <2>3. CASE i # 1
        <3>1. i - 1 \in 1 .. n - 1 /\ (i - 1) + 1 = i
            BY <1>1, <2>3
        <3>2. c[(i - 1) + 1] = a
            BY <2>1, <3>1
        <3> QED
            BY <3>1, <3>2
    <2> QED
        BY <2>2, <2>3
<1>4. PICK j \in 1 .. n - 1 : c[j + 1] = a
    BY <1>3
<1>5. c[j] \in ToSet(c) /\ a \in g.next[c[j]]
    BY <1>1, <1>2, <1>4 DEF ToSet
<1> QED
    BY <1>1, <1>5 DEF Parents

\* Without a cycle found everything has been left behind, so that the addresses that
\* are not placed have a source, which would be free; on a cycle the first address
\* placed would have its parent placed before it.
LEMMA AllPlacedWithoutCycle ==
    ASSUME NEW g, NEW s, KahnInv(g, s, <<>>), LeftBehind(g, g.nodes)
    PROVE  ToSet(s) = g.nodes
<1> DEFINE left == g.nodes \ ToSet(s)
<1>1. ToSet(s) = Sources(g, s) /\ ToSet(s) \subseteq g.nodes
    BY DEF KahnInv, Sources, ToSet
<1>2. ASSUME left # {} PROVE FALSE
    <2>1. PICK a \in left : Parents(g, a) \cap left = {}
        BY <1>2 DEF LeftBehind, HasSource
    <2>2. Parents(g, a) \subseteq ToSet(s)
        BY <2>1 DEF Parents
    <2> QED
        BY <1>1, <2>1, <2>2 DEF Sources
<1> QED
    BY <1>1, <1>2

LEMMA NotAllPlacedOnCycle ==
    ASSUME NEW g, NEW s, KahnInv(g, s, <<>>), NEW c \in Seq(g.nodes), IsCycle(g, c)
    PROVE  ToSet(s) # g.nodes
<1> SUFFICES ASSUME ToSet(s) = g.nodes PROVE FALSE
    OBVIOUS
<1> DEFINE On == {j \in DOMAIN s : s[j] \in ToSet(c)}
<1>1. s \in Seq(g.nodes) /\ Ordered(g, s) /\ DOMAIN s \in SUBSET Nat
    BY LenProperties DEF KahnInv
<1>2. c[1] \in ToSet(c) /\ ToSet(c) \subseteq g.nodes
    <2>1. 1 \in DOMAIN c
        BY LenProperties DEF IsCycle
    <2> QED
        BY <2>1 DEF IsCycle, ToSet
<1>3. On # {} /\ On \in SUBSET Nat
    BY <1>1, <1>2 DEF ToSet
<1> HIDE DEF On
<1>4. PICK j \in On : \A i \in On : j <= i
    BY <1>3, LeastNumber
<1>5. j \in DOMAIN s /\ s[j] \in ToSet(c)
    BY <1>4 DEF On
<1>6. PICK p \in ToSet(c) : p \in Parents(g, s[j])
    BY <1>5, CycleHasNoSource
<1>7. PICK i \in DOMAIN s : i < j /\ s[i] = p
    BY <1>1, <1>5, <1>6 DEF Ordered
<1>8. i \in On
    BY <1>6, <1>7 DEF On
<1> QED
    BY <1>3, <1>4, <1>7, <1>8

LEMMA EdgesForward ==
    ASSUME NEW g, NEW s, KahnInv(g, s, <<>>), NEW i \in DOMAIN s, NEW j \in DOMAIN s, s[j] \in g.next[s[i]]
    PROVE  i < j
<1>1. s \in Seq(g.nodes) /\ IsInjective(s) /\ Ordered(g, s)
    BY DEF KahnInv
<1>2. s[i] \in Parents(g, s[j])
    BY <1>1, LenProperties, ElementOfSeq DEF Parents
<1>3. PICK k \in DOMAIN s : k < j /\ s[k] = s[i]
    BY <1>1, <1>2 DEF Ordered
<1> QED
    BY <1>1, <1>3 DEF IsInjective

\* TraversalsAgree: bfs and the two searches for cycles, on the graph of every discovery
THEOREM TraversalsAgreed == TraversalSpec => []TraversalsAgree
<1>1. GraphsGood /\ WalkInv => TraversalsAgree
    <2> SUFFICES ASSUME GraphsGood, WalkInv, Walked PROVE TraversalsAgree
        BY DEF TraversalsAgree
    <2> DEFINE all == ToSet(placed) = graph.nodes
    <2>1. /\ IsGraph(graph) /\ KahnInv(graph, placed, <<>>)
          /\ SearchInv(graph, path, todo, visited, cycles) /\ todo = <<>>
          /\ Closed(graph, reached) /\ Reach(graph, reached)
        BY DEF GraphsGood, WalkInv, Walked
    <2>2. placed \in Seq(graph.nodes) /\ IsInjective(placed)
        BY <2>1 DEF KahnInv
    <2>3. Len(placed) = Cardinality(graph.nodes) <=> all
        BY <2>1, <2>2, AllPlaced
    <2>4. cycles = {} => all
        <3> SUFFICES ASSUME cycles = {} PROVE all
            OBVIOUS
        <3>1. path = <<>> /\ visited = graph.nodes /\ LeftBehind(graph, visited \ ToSet(path))
            BY <2>1 DEF SearchInv, StackInv, AcyclicInv
        <3>2. visited \ ToSet(path) = graph.nodes
            BY <3>1 DEF ToSet
        <3> QED
            BY <2>1, <3>1, <3>2, AllPlacedWithoutCycle
    <2>5. \A c \in cycles : c \in Seq(graph.nodes) /\ IsCycle(graph, c)
        BY <2>1 DEF SearchInv
    <2>6. cycles # {} => ~all
        BY <2>1, <2>5, NotAllPlacedOnCycle
    <2>7. all => placed # <<>>
        <3>1. ToSet(<<>>) = {}
            BY DEF ToSet
        <3> QED
            BY <2>1, <3>1 DEF IsGraph
    <2>8. TopologicalSort = IF all THEN placed ELSE <<>>
        BY <2>3 DEF TopologicalSort
    <2>9. \A i, j \in DOMAIN placed : placed[j] \in graph.next[placed[i]] => i < j
        BY <2>1, EdgesForward
    <2>10. DOMAIN <<>> = {}
        OBVIOUS
    <2> DEFINE order == TopologicalSort
    <2>11. (order = <<>>) <=> (cycles # {})
        BY <2>4, <2>6, <2>7, <2>8
    <2>12. order # <<>> => ToSet(order) = graph.nodes
        BY <2>8
    <2>13. \A i, j \in DOMAIN order : order[j] \in graph.next[order[i]] => i < j
        BY <2>8, <2>9, <2>10
    <2> HIDE DEF order
    <2> QED
        BY <2>1, <2>5, <2>11, <2>12, <2>13 DEF TraversalsAgree, order, Reach
<1>2. TraversalInit => WalkInv
    BY DEF TraversalInit, WalkInv
<1>3. EntriesInv /\ ResultInv /\ GraphInv => GraphsGood
    BY GraphsAreGraphs DEF GraphsGood
<1> QED
    BY <1>1, <1>2, <1>3, WalkStep, DiscoveryBelow, EntriesInvariant, ResultInvariant, PTL DEF TraversalSpec

-----------------------------------------------------------------------------
(* How run() comes to its end.                                             *)

\* How far node n has come: not in a batch, waiting, scanned for the k-th time, settled.
Stage(n) ==
    IF Settled(n) THEN MaxAttempts + 3
    ELSE IF task[n] = "idle" THEN 0
    ELSE IF task[n] = "waiting" THEN 1
    ELSE 2 + attempts[n]

\* The batch that is run has a scan in it.
BatchBusy == phase = "batch" => \E n \in Nodes : task[n] # "idle"

\* While the pool runs a batch, all its scans are over, or one is running, or the one that
\* has waited longest finds a free slot: nobody waits for a slot that nobody holds.
PoolGoesOn ==
    phase = "batch" =>
        \/ \A n \in Nodes : task[n] \in {"idle", "succeeded", "exhausted"}
        \/ Running # {}
        \/ SlotFree /\ \E n \in Nodes :
              task[n] = "waiting" /\ \A m \in Nodes : task[m] = "waiting" => n <= m

\* Each step takes some node farther and none back, the last excepted, which returns.
RunAdvances ==
    /\ phase # "done"
    /\ \A n \in Nodes : Stage(n) <= Stage(n)'
    /\ phase' = "done" \/ \E n \in Nodes : Stage(n) < Stage(n)'

\* No step empties a batch.
LEMMA BatchBusyStep == ASSUME TypeOK, SchedulerInv, BatchBusy, [Next]_vars PROVE BatchBusy'
<1> USE DEF TypeOK
<1>1. CASE StartBatch
    BY <1>1 DEF StartBatch, BatchBusy, Ready
<1>2. CASE Finish \/ MergeBatch
    BY <1>2 DEF Finish, MergeBatch, BatchBusy
<1>3. ASSUME NEW n \in Nodes, Admit(n) \/ AttemptSucceeds(n) \/ AttemptFails(n) PROVE BatchBusy'
    <2>1. task'[n] # "idle"
        BY <1>3 DEF Admit, AttemptSucceeds, AttemptFails
    <2> QED BY <2>1 DEF BatchBusy
<1>4. CASE UNCHANGED vars
    BY <1>4 DEF vars, BatchBusy
<1> QED BY <1>1, <1>2, <1>3, <1>4 DEF Next

\* A stage is a number, at most MaxAttempts + 3.
LEMMA StageRange ==
    ASSUME TypeOK, NEW n \in Nodes
    PROVE  Stage(n) \in 0 .. MaxAttempts + 3
BY SchedulerAssumption DEF TypeOK, Stage

\* Every kind of step advances.
LEMMA StartAdvances == ASSUME TypeOK, SchedulerInv, StartBatch PROVE RunAdvances
<1> USE SchedulerAssumption DEF TypeOK, Settled
<1>1. \A n \in Nodes : task[n] = "idle"
    BY DEF StartBatch, SchedulerInv, TasksOfBatch
<1>2. ASSUME NEW n \in Nodes PROVE Stage(n) <= Stage(n)'
    <2>1. attempts'[n] \in Nat /\ MaxAttempts \in Nat
        BY DEF StartBatch
    <2>2. Settled(n) => Settled(n)'
        BY DEF StartBatch, Blocked
    <2> QED BY <1>1, <2>1, <2>2 DEF Stage
<1>3. PICK r \in Ready : TRUE
    BY DEF StartBatch
<1>4. Stage(r) = 0 /\ Stage(r)' = 1 /\ r \in Nodes
    <2>1. r \in Nodes /\ status[r] = "pending" /\ task[r] = "idle"
        BY <1>1, <1>3 DEF Ready
    <2>2. status'[r] = "pending" /\ task'[r] = "waiting"
        BY <1>3, <2>1 DEF StartBatch, Ready, Blocked
    <2> QED BY <2>1, <2>2 DEF Stage
<1> QED BY <1>2, <1>4 DEF RunAdvances, StartBatch

LEMMA FinishAdvances == ASSUME TypeOK, SchedulerInv, Finish PROVE RunAdvances
<1> USE SchedulerAssumption DEF TypeOK, Settled
<1>1. ASSUME NEW n \in Nodes PROVE Stage(n) <= Stage(n)'
    <2>1. Settled(n)'
        BY DEF Finish
    <2> QED BY <2>1, StageRange DEF Stage
<1> QED BY <1>1 DEF RunAdvances, Finish

LEMMA MergeAdvances == ASSUME TypeOK, SchedulerInv, BatchBusy, MergeBatch PROVE RunAdvances
<1> USE SchedulerAssumption DEF TypeOK, Settled
<1>1. ASSUME NEW n \in Nodes, task[n] # "idle" PROVE Stage(n) < Stage(n)' /\ Stage(n) <= Stage(n)'
    <2>1. task[n] \in {"succeeded", "exhausted"} /\ status[n] = "pending"
        BY <1>1 DEF MergeBatch, SchedulerInv, TasksOfBatch
    <2>2. Settled(n)'
        BY <2>1 DEF MergeBatch
    <2>3. Stage(n) = 2 + attempts[n] /\ attempts[n] \in 0 .. MaxAttempts /\ Stage(n)' = MaxAttempts + 3
        BY <2>1, <2>2 DEF Stage
    <2> QED BY <2>3
<1>2. ASSUME NEW n \in Nodes, task[n] = "idle" PROVE Stage(n) <= Stage(n)'
    <2>1. status'[n] = status[n] /\ task'[n] = "idle"
        BY <1>2 DEF MergeBatch
    <2>2. Stage(n)' = Stage(n)
        BY <1>2, <2>1 DEF Stage
    <2>3. Stage(n) \in Nat
        BY StageRange
    <2> QED BY <2>2, <2>3
<1>3. \A n \in Nodes : Stage(n) <= Stage(n)'
    BY <1>1, <1>2
<1> QED BY <1>1, <1>3 DEF RunAdvances, MergeBatch, BatchBusy

LEMMA ScanAdvances ==
    ASSUME TypeOK, SchedulerInv, NEW n \in Nodes, Admit(n) \/ AttemptSucceeds(n) \/ AttemptFails(n)
    PROVE  RunAdvances
<1> USE SchedulerAssumption DEF TypeOK, Settled
<1>1. phase = "batch" /\ status[n] = "pending" /\ task[n] \in {"waiting", "running"}
    BY DEF SchedulerInv, TasksOfBatch, Admit, AttemptSucceeds, AttemptFails
<1>2. UNCHANGED <<status, phase>>
    BY DEF Admit, AttemptSucceeds, AttemptFails
<1>3. \A m \in Nodes : m # n => task'[m] = task[m] /\ attempts'[m] = attempts[m]
    BY DEF Admit, AttemptSucceeds, AttemptFails
<1>4. \A m \in Nodes : m # n => Stage(m)' = Stage(m)
    BY <1>2, <1>3 DEF Stage
<1>5. Stage(n) < Stage(n)' /\ Stage(n) <= Stage(n)'
    <2>1. CASE Admit(n)
        BY <1>1, <1>2, <2>1 DEF Admit, Stage
    <2>2. CASE AttemptSucceeds(n) \/ AttemptFails(n)
        <3>1. task[n] = "running" /\ task'[n] \in {"running", "succeeded", "exhausted"} /\ attempts'[n] = attempts[n] + 1
            BY <2>2 DEF AttemptSucceeds, AttemptFails
        <3> QED BY <1>1, <1>2, <3>1 DEF Stage
    <2> QED BY <2>1, <2>2
<1>6. \A m \in Nodes : Stage(m) <= Stage(m)'
    <2>1. \A m \in Nodes : Stage(m) \in Nat
        BY StageRange
    <2>2. \A m \in Nodes : m # n => Stage(m) <= Stage(m)'
        BY <1>4, <2>1
    <2> QED BY <1>5, <2>2
<1> QED BY <1>1, <1>5, <1>6 DEF RunAdvances

\* When none is running, a slot is free and somebody has waited longest.
LEMMA LongestWaiting ==
    ASSUME TypeOK, Running = {}, NEW w \in Nodes, task[w] = "waiting"
    PROVE  SlotFree /\ \E n \in Nodes : task[n] = "waiting" /\ \A m \in Nodes : task[m] = "waiting" => n <= m
<1>1. SlotFree
    BY SchedulerAssumption, FS_EmptySet DEF SlotFree
<1> DEFINE W == {m \in Nodes : task[m] = "waiting"}
<1>2. PICK n \in W : \A m \in W : n <= m
    BY SchedulerAssumption, LeastNumber
<1> QED BY <1>1, <1>2

\* Terminates but for its fairness, on every finite graph: run() takes at most MaxAttempts + 3
\* steps to a node and one to return, and the pool waits for nobody who is not there
\* (scheduler.py:65-85, worker.py:27-37).
THEOREM RunComesToItsEnd ==
    Spec => /\ []PoolGoesOn
            /\ [](\A n \in Nodes : Stage(n) \in 0 .. MaxAttempts + 3)
            /\ [][RunAdvances]_vars
<1>1. Init => BatchBusy
    BY DEF Init, BatchBusy
<1>2. TypeOK /\ SchedulerInv /\ BatchBusy /\ [Next]_vars => BatchBusy'
    BY BatchBusyStep
<1>3. TypeOK /\ SchedulerInv /\ BatchBusy /\ Next => RunAdvances
    BY StartAdvances, FinishAdvances, MergeAdvances, ScanAdvances DEF Next
<1>4. TypeOK => PoolGoesOn
    <2> SUFFICES ASSUME TypeOK, phase = "batch", Running = {}, NEW w \in Nodes,
                        task[w] \notin {"idle", "succeeded", "exhausted"}
                 PROVE  SlotFree /\ \E n \in Nodes : task[n] = "waiting" /\ \A m \in Nodes : task[m] = "waiting" => n <= m
        BY DEF PoolGoesOn
    <2>1. task[w] = "waiting"
        BY DEF TypeOK, TaskState, Running
    <2> QED BY <2>1, LongestWaiting
<1>5. TypeOK => \A n \in Nodes : Stage(n) \in 0 .. MaxAttempts + 3
    BY StageRange
<1> QED BY <1>1, <1>2, <1>3, <1>4, <1>5, SchedulerInvariant, PTL DEF Spec

-----------------------------------------------------------------------------
(* How the traversals come to their end.                                   *)

\* The turns that the loops of find_cycles on the stack have before them
ToLook(t) == {x \in (DOMAIN t) \X Nat : x[2] \in 1 .. Len(t[x[1]])}

\* Each turn brings its traversal nearer to the end: bfs reaches an address or takes one
\* from its queue, the topological sort places one, the search visits one or, visiting none,
\* has fewer turns before it or fewer loops on its stack.
WalkAdvances ==
    walk' = walk /\ stage \in {"built", "refused"} =>
        CASE walk = "bfs" ->
                \/ reached \subseteq reached' /\ reached' # reached
                \/ reached' = reached /\ Len(queue') < Len(queue)
          [] walk = "sort" -> Len(placed') = Len(placed) + 1
          [] walk = "search" ->
                \/ visited \subseteq visited' /\ visited' # visited
                \/ visited' = visited /\ ToLook(todo') \subseteq ToLook(todo) /\ ToLook(todo') # ToLook(todo)
                \/ visited' = visited /\ ToLook(todo') = ToLook(todo) /\ Len(todo') < Len(todo)
          [] OTHER -> FALSE

\* What grows is bounded by the addresses, and the address looked at next is one of them.
WalkBounded ==
    walk # "none" =>
        /\ IsFiniteSet(graph.nodes)
        /\ walk = "bfs" => reached \subseteq graph.nodes
        /\ IsInjective(placed) /\ ToSet(placed) \subseteq graph.nodes
        /\ visited \subseteq graph.nodes
        /\ walk = "search" /\ todo # <<>> /\ Last(todo) # <<>> =>
              Head(Last(todo)) \in graph.nodes

\* A turn less is before the loops when one was taken.
LEMMA TurnTaken ==
    ASSUME StackInv(graph, path, todo, visited), NEW a, Looks(a), todo' = Rest
    PROVE  ToLook(todo') \subseteq ToLook(todo) /\ ToLook(todo') # ToLook(todo)
<1> DEFINE n == Len(todo)
           last == todo[n]
           m == Len(last)
           S == Seq(graph.nodes)
<1>1. todo \in Seq(S) /\ todo # <<>> /\ last # <<>>
    BY DEF Looks, StackInv, Last
<1>2. n \in Nat \ {0} /\ DOMAIN todo = 1 .. n /\ n \in DOMAIN todo /\ last \in S
    BY <1>1, LenProperties, EmptySeq, ElementOfSeq
<1>3. m \in Nat \ {0} /\ Len(Tail(last)) = m - 1
    BY <1>1, <1>2, EmptySeq, LenProperties, HeadTailProperties
<1>4. Rest = [todo EXCEPT ![n] = Tail(last)]
    BY DEF Rest
<1> HIDE DEF S
<1>5. DOMAIN Rest = DOMAIN todo /\ \A i \in DOMAIN todo : Rest[i] = IF i = n THEN Tail(last) ELSE todo[i]
    BY <1>1, <1>4
<1> HIDE DEF n
<1>6. last = todo[n]
    OBVIOUS
<1> HIDE DEF last
<1>7. m = Len(last)
    OBVIOUS
<1> HIDE DEF m
<1>8. \A i \in DOMAIN todo : Len(Rest[i]) = IF i = n THEN m - 1 ELSE Len(todo[i])
    BY <1>3, <1>5
<1>9. ASSUME NEW x \in ToLook(Rest) PROVE x \in ToLook(todo)
    <2>1. x \in (DOMAIN todo) \X Nat /\ x[2] \in 1 .. Len(Rest[x[1]])
        BY <1>5, <1>9 DEF ToLook
    <2>2. CASE x[1] = n
        BY <1>3, <1>6, <1>7, <1>8, <2>1, <2>2 DEF ToLook
    <2>3. CASE x[1] # n
        BY <1>8, <2>1, <2>3 DEF ToLook
    <2> QED
        BY <2>2, <2>3
<1>10. <<n, m>> \in ToLook(todo)
    BY <1>2, <1>3, <1>6, <1>7 DEF ToLook
<1>11. <<n, m>> \notin ToLook(Rest)
    BY <1>2, <1>3, <1>8 DEF ToLook
<1> QED
    BY <1>9, <1>10, <1>11

\* A loop that is left had no turn before it.
LEMMA LoopLeft ==
    ASSUME StackInv(graph, path, todo, visited), Returns
    PROVE  ToLook(todo') = ToLook(todo) /\ Len(todo') < Len(todo)
<1> DEFINE n == Len(todo)
           S == Seq(graph.nodes)
<1>1. todo \in Seq(S) /\ todo # <<>> /\ todo[n] = <<>> /\ todo' = Front(todo)
    BY DEF Returns, StackInv, Last
<1> HIDE DEF S
<1>2. LET t == Front(todo)
      IN  /\ n \in Nat \ {0} /\ Len(t) = n - 1 /\ DOMAIN t = (DOMAIN todo) \ {n} /\ n \in DOMAIN todo
          /\ \A i \in DOMAIN t : t[i] = todo[i]
    BY <1>1, FrontTaken
<1>3. Len(todo[n]) = 0
    BY <1>1
<1> HIDE DEF n
<1> DEFINE t == Front(todo)
<1>4. ASSUME NEW x \in ToLook(todo) PROVE x \in ToLook(t)
    <2>1. x \in (DOMAIN todo) \X Nat /\ x[2] \in 1 .. Len(todo[x[1]])
        BY <1>4 DEF ToLook
    <2>2. x[1] # n
        BY <1>3, <2>1
    <2> QED
        BY <1>2, <2>1, <2>2 DEF ToLook
<1>5. ASSUME NEW x \in ToLook(t) PROVE x \in ToLook(todo)
    BY <1>2, <1>5 DEF ToLook
<1>6. Len(t) < n
    BY <1>2
<1> QED
    BY <1>1, <1>4, <1>5, <1>6 DEF n

\* A turn of bfs reaches an address or leaves the queue shorter.
LEMMA BfsShorter ==
    ASSUME IsGraph(graph), BfsInv(graph, queue, reached), BfsStep
    PROVE  \/ reached \subseteq reached' /\ reached' # reached
           \/ reached' = reached /\ Len(queue') < Len(queue)
<1> DEFINE fresh == graph.next[Head(queue)] \ reached
<1>1. queue # <<>> /\ queue' = Tail(queue) \o Ascending(fresh) /\ reached' = reached \cup fresh
    BY DEF BfsStep
<1>2. CASE fresh # {}
    BY <1>1, <1>2
<1>3. CASE fresh = {}
    <2>1. Ascending({}) = <<>>
        <3>1. {} \in SUBSET Nat /\ IsFiniteSet({})
            BY FS_EmptySet
        <3>2. Ascending({}) \in Seq({}) /\ ToSet(Ascending({})) = {}
            BY <3>1, AscendingExact
        <3> QED
            BY <3>2, EmptySeq, LenProperties DEF ToSet
    <2>2. queue \in Seq(graph.nodes)
        BY DEF BfsInv
    <2>3. Len(Tail(queue)) = Len(queue) - 1 /\ Tail(queue) \in Seq(graph.nodes) /\ Len(queue) \in Nat
        BY <1>1, <2>2, EmptySeq, LenProperties, HeadTailProperties
    <2>4. queue' = Tail(queue) \o <<>>
        BY <1>1, <1>3, <2>1
    <2>5. queue' = Tail(queue)
        BY <2>3, <2>4
    <2> QED
        BY <1>1, <1>3, <2>3, <2>5
<1> QED
    BY <1>2, <1>3

\* The traversals come to their end on every graph, one with cycles or a refused one as
\* well: above all the recursion of _visit does (traversal.py:32-40, 68-76, 138-153).
THEOREM WalksRunOut ==
    TraversalSpec => /\ []WalkBounded
                     /\ [][WalkAdvances]_<<discoveryVars, traversalVars>>
<1>1. ASSUME GraphsGood, WalkInv, TraversalNext PROVE WalkAdvances
    <2> SUFFICES ASSUME walk' = walk, stage \in {"built", "refused"} PROVE WalkAdvances
        BY DEF WalkAdvances
    <2>1. IsGraph(graph)
        BY <1>1 DEF GraphsGood
    <2>2. CASE BfsStep
        <3>1. walk = "bfs"
            BY <2>2 DEF BfsStep, Turns
        <3> QED
            BY <1>1, <2>1, <2>2, <3>1, BfsShorter DEF WalkInv, WalkAdvances
    <2>3. CASE SortStep
        <3>1. walk = "sort" /\ placed' = Append(placed, Head(queue)) /\ queue # <<>>
            BY <2>3 DEF SortStep, Turns
        <3>2. placed \in Seq(graph.nodes) /\ queue \in Seq(graph.nodes)
            BY <1>1, <3>1 DEF WalkInv, KahnInv
        <3>3. Head(queue) \in graph.nodes
            BY <3>1, <3>2, TailTaken
        <3>4. Len(placed') = Len(placed) + 1
            BY <3>1, <3>2, <3>3, AppendProperties
        <3> QED
            BY <3>1, <3>4 DEF WalkAdvances
    <2>4. ASSUME NEW a \in graph.nodes, Visit(a) PROVE WalkAdvances
        <3>1. walk = "search" /\ visited' = visited \cup {a} /\ a \notin visited
            BY <2>4 DEF Visit, Looks, Turns
        <3> QED
            BY <3>1 DEF WalkAdvances
    <2>5. ASSUME NEW a \in graph.nodes, Closes(a) \/ Passes(a) PROVE WalkAdvances
        <3>1. walk = "search" /\ visited' = visited /\ todo' = Rest /\ Looks(a)
            BY <2>5 DEF Closes, Passes, Looks, Turns
        <3>2. ToLook(todo') \subseteq ToLook(todo) /\ ToLook(todo') # ToLook(todo)
            BY <1>1, <3>1, TurnTaken DEF WalkInv, SearchInv
        <3> QED
            BY <3>1, <3>2 DEF WalkAdvances
    <2>6. CASE Returns
        <3>1. walk = "search" /\ visited' = visited
            BY <2>6 DEF Returns, Turns
        <3>2. ToLook(todo') = ToLook(todo) /\ Len(todo') < Len(todo)
            BY <1>1, <2>6, <3>1, LoopLeft DEF WalkInv, SearchInv
        <3> QED
            BY <3>1, <3>2 DEF WalkAdvances
    <2>7. ~Discovers /\ ~BfsStart /\ ~SortStart /\ ~SearchStart
        BY DiscoveryOver DEF Discovers, BfsStart, SortStart, SearchStart, Turns
    <2> QED
        BY <1>1, <2>2, <2>3, <2>4, <2>5, <2>6, <2>7 DEF TraversalNext
<1>2. GraphsGood /\ WalkInv => WalkBounded
    <2> SUFFICES ASSUME GraphsGood, WalkInv, walk # "none" PROVE WalkBounded
        BY DEF WalkBounded
    <2>1. IsGraph(graph)
        BY DEF GraphsGood, WalkInv
    <2>2. walk = "bfs" => reached \subseteq graph.nodes
        BY DEF WalkInv, BfsInv
    <2>3. ToSet(<<>>) = {} /\ IsInjective(<<>>)
        BY DEF ToSet, IsInjective
    <2>4. IsInjective(placed) /\ ToSet(placed) \subseteq graph.nodes
        <3>1. CASE walk = "bfs"
            BY <2>3, <3>1 DEF WalkInv
        <3>2. CASE walk \in {"sort", "search"}
            <4>1. placed \in Seq(graph.nodes) /\ IsInjective(placed)
                BY <3>2 DEF WalkInv, KahnInv
            <4> QED
                BY <4>1, LenProperties, ElementOfSeq DEF ToSet
        <3> QED
            BY <3>1, <3>2 DEF WalkInv
    <2>5. visited \subseteq graph.nodes
        BY DEF WalkInv, SearchInv, StackInv
    <2>6. ASSUME walk = "search", todo # <<>>, Last(todo) # <<>>
          PROVE  Head(Last(todo)) \in graph.nodes
        <3> DEFINE S == Seq(graph.nodes)
        <3>1. todo \in Seq(S)
            BY <2>6 DEF WalkInv, SearchInv, StackInv
        <3>2. Last(todo) \in S
            BY <2>6, <3>1, LenProperties, EmptySeq, ElementOfSeq DEF Last
        <3> QED
            BY <2>6, <3>2, TailTaken
    <2> QED
        BY <2>1, <2>2, <2>4, <2>5, <2>6 DEF WalkBounded, IsGraph
<1>3. EntriesInv /\ ResultInv /\ GraphInv => GraphsGood
    BY GraphsAreGraphs DEF GraphsGood
<1>4. TraversalInit => WalkInv
    BY DEF TraversalInit, WalkInv
<1> QED
    BY <1>1, <1>2, <1>3, <1>4, WalkStep, DiscoveryBelow, EntriesInvariant, ResultInvariant, PTL DEF TraversalSpec
=============================================================================
