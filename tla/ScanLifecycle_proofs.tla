------------------------ MODULE ScanLifecycle_proofs ------------------------
(***************************************************************************)
(* Safety of ScanLifecycle for any number of jobs, chains and connections  *)
(* and whatever the endpoints serve.                                       *)
(***************************************************************************)
EXTENDS ScanLifecycle, TLAPS

Inv == TypeOK /\ LifecycleInv /\ NoPartialRows

\* The rows that are written are rows, and not the absent one.
LEMMA RowsWritten ==
    ASSUME NEW c \in Chains, NEW s \in {"pending", "running"} \cup Terminal
    PROVE  /\ Bare(s, c) \in Row \ {NoRow}
           /\ WithContext(s, c) \in Row \ {NoRow}
           /\ Whole(s, c) \in Row \ {NoRow}
BY ChainAssumption DEF Bare, WithContext, Whole, NoRow, Row, PresentRow, Terminal

\* A row is absent or has a chain and a status.
LEMMA RowPresent ==
    ASSUME NEW row \in Row
    PROVE  /\ row = NoRow => row.status = "absent"
           /\ row # NoRow => /\ row.chain_id \in Chains
                             /\ row.status \in {"pending", "running"} \cup Terminal
BY DEF Row, PresentRow, NoRow, Bare, Terminal

\* Rows with the same fields are the same.
LEMMA SameRow ==
    ASSUME NEW a \in PresentRow, NEW b \in PresentRow,
           a.status = b.status, a.chain_id = b.chain_id, a.context = b.context,
           a.result = b.result, a.risk = b.risk
    PROVE  a = b
BY DEF PresentRow

\* The assignments of process() take a row from Bare to Whole, or to failed.
LEMMA TaskUpdates ==
    ASSUME NEW c \in Chains, NEW d \in Chains
    PROVE  /\ [Bare("pending", c) EXCEPT !.status = "running"]
                = Bare("running", c)
           /\ [Bare("running", c) EXCEPT !.chain_id = d, !.context = d]
                = WithContext("running", d)
           /\ [WithContext("running", c) EXCEPT !.result = c, !.risk = c]
                = Whole("running", c)
           /\ [Whole("running", c) EXCEPT !.status = "completed"]
                = Whole("completed", c)
           /\ [WithContext("running", c) EXCEPT !.status = "failed"]
                = WithContext("failed", c)
<1>1. [Bare("pending", c) EXCEPT !.status = "running"] = Bare("running", c)
  <2> DEFINE old == Bare("pending", c)
             new == Bare("running", c)
  <2>1. old \in PresentRow /\ new \in PresentRow
    BY RowsWritten DEF Row, Terminal
  <2>2. /\ old.status = "pending" /\ old.chain_id = c /\ old.context = NoChain
        /\ old.result = NoChain /\ old.risk = NoChain
        /\ new.status = "running" /\ new.chain_id = c /\ new.context = NoChain
        /\ new.result = NoChain /\ new.risk = NoChain
    BY DEF Bare
  <2> HIDE DEF old, new
  <2>3. [old EXCEPT !.status = "running"] = new
    <3> DEFINE upd == [old EXCEPT !.status = "running"]
    <3>1. /\ upd \in PresentRow
          /\ upd.status = "running" /\ upd.chain_id = c /\ upd.context = NoChain
          /\ upd.result = NoChain /\ upd.risk = NoChain
      BY <2>1, <2>2 DEF PresentRow, Terminal
    <3> HIDE DEF upd
    <3>2. upd = new
      BY <2>1, <2>2, <3>1, SameRow
    <3> QED BY <3>2 DEF upd
  <2> QED BY <2>3 DEF old, new
<1>2. [Bare("running", c) EXCEPT !.chain_id = d, !.context = d] = WithContext("running", d)
  <2> DEFINE old == Bare("running", c)
             new == WithContext("running", d)
  <2>1. old \in PresentRow /\ new \in PresentRow
    BY RowsWritten DEF Row, Terminal
  <2>2. /\ old.status = "running" /\ old.chain_id = c /\ old.context = NoChain
        /\ old.result = NoChain /\ old.risk = NoChain
        /\ new.status = "running" /\ new.chain_id = d /\ new.context = d
        /\ new.result = NoChain /\ new.risk = NoChain
    BY DEF Bare, WithContext
  <2> HIDE DEF old, new
  <2>3. [old EXCEPT !.chain_id = d, !.context = d] = new
    <3> DEFINE upd == [old EXCEPT !.chain_id = d, !.context = d]
    <3>1. /\ upd \in PresentRow
          /\ upd.status = "running" /\ upd.chain_id = d /\ upd.context = d
          /\ upd.result = NoChain /\ upd.risk = NoChain
      BY <2>1, <2>2 DEF PresentRow, Terminal
    <3> HIDE DEF upd
    <3>2. upd = new
      BY <2>1, <2>2, <3>1, SameRow
    <3> QED BY <3>2 DEF upd
  <2> QED BY <2>3 DEF old, new
<1>3. [WithContext("running", c) EXCEPT !.result = c, !.risk = c] = Whole("running", c)
  <2> DEFINE old == WithContext("running", c)
             new == Whole("running", c)
  <2>1. old \in PresentRow /\ new \in PresentRow
    BY RowsWritten DEF Row, Terminal
  <2>2. /\ old.status = "running" /\ old.chain_id = c /\ old.context = c
        /\ old.result = NoChain /\ old.risk = NoChain
        /\ new.status = "running" /\ new.chain_id = c /\ new.context = c
        /\ new.result = c /\ new.risk = c
    BY DEF WithContext, Whole
  <2> HIDE DEF old, new
  <2>3. [old EXCEPT !.result = c, !.risk = c] = new
    <3> DEFINE upd == [old EXCEPT !.result = c, !.risk = c]
    <3>1. /\ upd \in PresentRow
          /\ upd.status = "running" /\ upd.chain_id = c /\ upd.context = c
          /\ upd.result = c /\ upd.risk = c
      BY <2>1, <2>2 DEF PresentRow, Terminal
    <3> HIDE DEF upd
    <3>2. upd = new
      BY <2>1, <2>2, <3>1, SameRow
    <3> QED BY <3>2 DEF upd
  <2> QED BY <2>3 DEF old, new
<1>4. [Whole("running", c) EXCEPT !.status = "completed"] = Whole("completed", c)
  <2> DEFINE old == Whole("running", c)
             new == Whole("completed", c)
  <2>1. old \in PresentRow /\ new \in PresentRow
    BY RowsWritten DEF Row, Terminal
  <2>2. /\ old.status = "running" /\ old.chain_id = c /\ old.context = c
        /\ old.result = c /\ old.risk = c
        /\ new.status = "completed" /\ new.chain_id = c /\ new.context = c
        /\ new.result = c /\ new.risk = c
    BY DEF Whole
  <2> HIDE DEF old, new
  <2>3. [old EXCEPT !.status = "completed"] = new
    <3> DEFINE upd == [old EXCEPT !.status = "completed"]
    <3>1. /\ upd \in PresentRow
          /\ upd.status = "completed" /\ upd.chain_id = c /\ upd.context = c
          /\ upd.result = c /\ upd.risk = c
      BY <2>1, <2>2 DEF PresentRow, Terminal
    <3> HIDE DEF upd
    <3>2. upd = new
      BY <2>1, <2>2, <3>1, SameRow
    <3> QED BY <3>2 DEF upd
  <2> QED BY <2>3 DEF old, new
<1>5. [WithContext("running", c) EXCEPT !.status = "failed"] = WithContext("failed", c)
  <2> DEFINE old == WithContext("running", c)
             new == WithContext("failed", c)
  <2>1. old \in PresentRow /\ new \in PresentRow
    BY RowsWritten DEF Row, Terminal
  <2>2. /\ old.status = "running" /\ old.chain_id = c /\ old.context = c
        /\ old.result = NoChain /\ old.risk = NoChain
        /\ new.status = "failed" /\ new.chain_id = c /\ new.context = c
        /\ new.result = NoChain /\ new.risk = NoChain
    BY DEF WithContext
  <2> HIDE DEF old, new
  <2>3. [old EXCEPT !.status = "failed"] = new
    <3> DEFINE upd == [old EXCEPT !.status = "failed"]
    <3>1. /\ upd \in PresentRow
          /\ upd.status = "failed" /\ upd.chain_id = c /\ upd.context = c
          /\ upd.result = NoChain /\ upd.risk = NoChain
      BY <2>1, <2>2 DEF PresentRow, Terminal
    <3> HIDE DEF upd
    <3>2. upd = new
      BY <2>1, <2>2, <3>1, SameRow
    <3> QED BY <3>2 DEF upd
  <2> QED BY <2>3 DEF old, new
<1> QED BY <1>1, <1>2, <1>3, <1>4, <1>5

\* The abstract store speaks of the same rows.
LEMMA StoreRows ==
    /\ Store!NoRow = NoRow
    /\ \A c : Store!NewRow(c) = NewRow(c)
    /\ \A row : Store!Outcomes(row) =
          {Whole("completed", row.chain_id), Bare("running", row.chain_id)}
          \cup {WithContext("failed", c) : c \in Chains}
BY DEF Store!NoRow, NoRow, Store!NewRow, NewRow, Store!Outcomes, Store!Bare, Bare,
       Store!Whole, Whole, Store!WithContext, WithContext

\* The invariant holds initially.
LEMMA InitInv == Init => Inv
BY LifecycleAssumption
   DEF Init, Inv, TypeOK, LifecycleInv, Fits, NoPartialRows, WorkerState, Row, PresentRow, NoRow, Bare, Terminal

\* Create and Reinvoke keep the invariant.
LEMMA RequestInv ==
    ASSUME Inv, NEW j \in Jobs, Reinvoke(j) \/ \E c \in Chains : Create(j, c)
    PROVE  Inv'
<1> USE DEF Inv
<1>1. CASE Reinvoke(j)
  BY <1>1 DEF Reinvoke, TypeOK, LifecycleInv, NoPartialRows, WorkerState, Fits, Pending,
               Expected, ChainMatches, Store!Outcomes
<1>2. ASSUME NEW c \in Chains, Create(j, c)
      PROVE  Inv'
  <2>1. TypeOK'
    BY <1>2, RowsWritten DEF Create, TypeOK, NewRow, WorkerState
  <2>2. /\ db'[j] = Bare("pending", c)
        /\ db'[j] # NoRow
        /\ db'[j].status = "pending"
        /\ db'[j].chain_id = c
        /\ worker'[j] = "queued"
    BY <1>2, RowsWritten DEF Create, TypeOK, NewRow, Bare
  <2>3. \A i \in Jobs \ {j} : db'[i] = db[i] /\ worker'[i] = worker[i]
    BY <1>2 DEF Create, TypeOK
  <2>4. txn' = txn /\ endpoint' = endpoint
    BY <1>2 DEF Create
  <2>5. LifecycleInv'
    BY <2>2, <2>3, <2>4 DEF LifecycleInv, Fits, Pending, Expected, ChainMatches, Store!Outcomes
  <2>6. NoPartialRows'
    BY <2>2, <2>3 DEF NoPartialRows
  <2> QED BY <2>1, <2>5, <2>6
<1> QED BY <1>1, <1>2

\* A step inside a task that leaves a fitting row keeps the invariant.
LEMMA StepInv ==
    ASSUME Inv, NEW j \in Jobs, NEW a \in WorkerState \ {"idle"},
           NEW b \in WorkerState, NEW row \in Row,
           Step(j, a, b, row), Fits(j, b, row)
    PROVE  Inv'
<1> USE DEF Inv
<1>1. TypeOK'
  BY DEF Step, TypeOK
<1>2. NoPartialRows'
  BY DEF Step, NoPartialRows
<1>3. /\ \A i \in Jobs \ {j} : worker'[i] = worker[i] /\ txn'[i] = txn[i]
      /\ worker'[j] = b /\ txn'[j] = row
      /\ db' = db /\ endpoint' = endpoint
  BY DEF Step, TypeOK
<1>4. db[j] # NoRow
  BY DEF Step, LifecycleInv
<1>5. LifecycleInv'
  BY <1>3, <1>4 DEF LifecycleInv, Fits, Pending, Expected, ChainMatches, Store!Outcomes
<1> QED BY <1>1, <1>2, <1>5

\* Where the endpoint of a pending job leads.
LEMMA PendingJob ==
    ASSUME Inv, NEW j \in Jobs, Pending(j)
    PROVE  /\ db[j] = Bare("pending", Expected(j))
           /\ Expected(j) \in Chains
           /\ endpoint[Expected(j)] \in Chains
<1>1. db[j] \in Row /\ db[j].status = "pending"
  BY DEF Inv, TypeOK, Pending
<1>2. Expected(j) \in Chains
  BY <1>1, RowPresent DEF Expected, NoRow, Bare
<1>3. db[j] = Bare("pending", Expected(j))
  BY <1>1 DEF Inv, NoPartialRows, Expected
<1> QED BY <1>2, <1>3, LifecycleAssumption DEF Inv, TypeOK

\* Each step of process() keeps the invariant.
LEMMA ProcessInv ==
    ASSUME Inv, NEW j \in Jobs,
           \/ MarkRunning(j) \/ CaptureContext(j) \/ CaptureFails(j)
           \/ StoreResult(j) \/ AnalyzeFails(j)
           \/ MarkCompleted(j) \/ MarkFailed(j)
    PROVE  Inv'
<1> DEFINE c == Expected(j)
           e == endpoint[c]
<1>1. Fits(j, worker[j], txn[j])
  BY DEF Inv, LifecycleInv
<1>2. Pending(j)
  BY <1>1 DEF Fits, Step, MarkRunning, CaptureContext, CaptureFails, StoreResult,
              AnalyzeFails, MarkCompleted, MarkFailed
<1>3. db[j] = Bare("pending", c) /\ c \in Chains /\ e \in Chains
  BY <1>2, PendingJob
<1>4. /\ Bare("pending", c) \in PresentRow /\ Bare("running", c) \in PresentRow
      /\ WithContext("running", e) \in PresentRow /\ WithContext("failed", e) \in PresentRow
      /\ Whole("running", c) \in PresentRow /\ Whole("completed", c) \in PresentRow
  BY <1>3, RowsWritten, ChainAssumption DEF Row, Terminal
<1> HIDE DEF c, e
<1>5. PresentRow \subseteq Row
  BY DEF Row
<1>6. CASE MarkRunning(j)
  <2>1. txn[j] = Bare("pending", c)
    BY <1>1, <1>3, <1>6 DEF Fits, MarkRunning, Step, c, e
  <2>2. [txn[j] EXCEPT !.status = "running"] = Bare("running", c)
    BY <1>3, <2>1, TaskUpdates
  <2> QED BY <1>2, <1>4, <1>5, <1>6, <2>2, StepInv DEF MarkRunning, Fits, WorkerState, c, e
<1>7. CASE CaptureContext(j)
  <2>1. txn[j] = Bare("running", c)
    BY <1>1, <1>3, <1>7 DEF Fits, CaptureContext, Step, c, e
  <2>2. [Bare("running", c) EXCEPT !.chain_id = e, !.context = e] = WithContext("running", e)
    BY ONLY <1>3, TaskUpdates
  <2>3. [txn[j] EXCEPT !.chain_id = e, !.context = e] = WithContext("running", e)
    BY <2>2, <2>1, Zenon
  <2> QED BY <1>2, <1>4, <1>5, <1>7, <2>3, StepInv DEF CaptureContext, Fits, WorkerState, c, e
<1>8. CASE CaptureFails(j)
  <2>1. txn[j] = Bare("running", c) /\ txn[j] \in Store!Outcomes(db[j])
    BY <1>1, <1>8, StoreRows DEF Fits, CaptureFails, Step, c, Expected
  <2> QED BY <1>2, <1>4, <1>5, <1>8, <2>1, StepInv DEF CaptureFails, Fits, WorkerState
<1>9. CASE StoreResult(j)
  <2>1. txn[j] = WithContext("running", e) /\ e = c
    BY <1>1, <1>9 DEF Fits, StoreResult, Step, ChainMatches, c, e
  <2>2. [txn[j] EXCEPT !.result = e, !.risk = e] = Whole("running", c)
    BY <1>3, <2>1, TaskUpdates
  <2> QED BY <1>2, <1>4, <1>5, <1>9, <2>2, StepInv DEF StoreResult, Fits, WorkerState, c, e
<1>10. CASE AnalyzeFails(j)
  <2>1. txn[j] = WithContext("running", e)
    BY <1>1, <1>10 DEF Fits, AnalyzeFails, Step, c, e
  <2> QED BY <1>2, <1>4, <1>5, <1>10, <2>1, StepInv DEF AnalyzeFails, Fits, WorkerState, c, e
<1>11. CASE MarkCompleted(j)
  <2>1. txn[j] = Whole("running", c)
    BY <1>1, <1>11 DEF Fits, MarkCompleted, Step, c
  <2>2. [txn[j] EXCEPT !.status = "completed"] = Whole("completed", c)
    BY <1>3, <2>1, TaskUpdates
  <2>3. Whole("completed", c) \in Store!Outcomes(db[j])
    BY StoreRows DEF c, Expected
  <2> QED BY <1>2, <1>4, <1>5, <1>11, <2>2, <2>3, StepInv DEF MarkCompleted, Fits, WorkerState
<1>12. CASE MarkFailed(j)
  <2>1. txn[j] = WithContext("running", e)
    BY <1>1, <1>12 DEF Fits, MarkFailed, Step, c, e
  <2>2. [txn[j] EXCEPT !.status = "failed"] = WithContext("failed", e)
    BY <1>3, <2>1, TaskUpdates
  <2>3. WithContext("failed", e) \in Store!Outcomes(db[j])
    BY <1>3, StoreRows
  <2> QED BY <1>2, <1>4, <1>5, <1>12, <2>2, <2>3, StepInv DEF MarkFailed, Fits, WorkerState
<1> QED BY <1>6, <1>7, <1>8, <1>9, <1>10, <1>11, <1>12

\* Loading a job keeps the invariant, whether it is claimed or skipped.
LEMMA LoadInv ==
    ASSUME Inv, NEW j \in Jobs, Load(j)
    PROVE  Inv'
<1>1. db[j] \in Row
  BY DEF Inv, TypeOK
<1>2. CASE Pending(j)
  <2>1. Step(j, "queued", "loaded", db[j]) /\ Fits(j, "loaded", db[j])
    BY <1>2 DEF Load, Step, Claimable, Pending, Fits
  <2> QED BY <1>1, <2>1, StepInv DEF WorkerState
<1>3. CASE ~Pending(j)
  <2>1. Step(j, "queued", "committing", db[j]) /\ Fits(j, "committing", db[j])
    BY <1>3 DEF Load, Step, Claimable, Pending, Fits
  <2> QED BY <1>1, <2>1, StepInv DEF WorkerState
<1> QED BY <1>2, <1>3

\* The outcomes of a pending job are whole rows that are not absent.
LEMMA OutcomeRows ==
    ASSUME NEW row \in PresentRow, NEW outcome \in Store!Outcomes(row)
    PROVE  /\ outcome \in Row \ {NoRow}
           /\ \/ outcome.status = "running" /\ outcome = Bare("running", outcome.chain_id)
              \/ outcome.status = "completed" /\ outcome = Whole("completed", outcome.chain_id)
              \/ outcome.status = "failed" /\ outcome = WithContext("failed", outcome.chain_id)
<1>1. row.chain_id \in Chains
  BY DEF PresentRow
<1>2. CASE outcome = Whole("completed", row.chain_id)
  BY <1>1, <1>2, RowsWritten DEF Whole, Terminal
<1>3. CASE outcome = Bare("running", row.chain_id)
  BY <1>1, <1>3, RowsWritten DEF Bare, Terminal
<1>4. ASSUME NEW c \in Chains, outcome = WithContext("failed", c)
      PROVE  /\ outcome \in Row \ {NoRow}
             /\ outcome.status = "failed"
             /\ outcome = WithContext("failed", outcome.chain_id)
  BY <1>4, RowsWritten DEF WithContext, Terminal
<1> QED BY <1>2, <1>3, <1>4, StoreRows

\* The end of a task keeps the invariant, with or without a commit.
LEMMA EndInv ==
    ASSUME Inv, NEW j \in Jobs, PoolTimeout(j) \/ Commit(j) \/ WriteFails(j)
    PROVE  Inv'
<1> USE DEF Inv
<1>1. /\ \A i \in Jobs \ {j} : worker'[i] = worker[i] /\ txn'[i] = txn[i] /\ db'[i] = db[i]
      /\ worker'[j] = "idle"
      /\ endpoint' = endpoint
  BY DEF PoolTimeout, Commit, WriteFails, Rollback, TypeOK
<1>2. LifecycleInv'
  BY <1>1 DEF LifecycleInv, Fits, Pending, Expected, ChainMatches, Store!Outcomes
<1>3. CASE PoolTimeout(j) \/ WriteFails(j)
  <2>1. db' = db
    BY <1>3 DEF PoolTimeout, WriteFails, Rollback, TypeOK
  <2>2. TypeOK'
    BY <1>3, <2>1 DEF PoolTimeout, WriteFails, TypeOK, WorkerState, Row
  <2> QED BY <1>2, <2>1, <2>2 DEF NoPartialRows
<1>4. CASE Commit(j)
  <2>1. db'[j] = txn[j] /\ Fits(j, "committing", txn[j]) /\ db[j] # NoRow
    BY <1>4 DEF Commit, TypeOK, LifecycleInv
  <2>2. TypeOK'
    BY <1>4 DEF Commit, TypeOK, WorkerState, Row
  <2>3. CASE Pending(j)
    <3>1. db[j] \in PresentRow
      BY <2>1 DEF TypeOK, Row
    <3>2. txn[j] \in Store!Outcomes(db[j])
      BY <2>1, <2>3 DEF Fits
    <3> QED BY <1>1, <1>2, <2>1, <2>2, <3>1, <3>2, OutcomeRows DEF NoPartialRows
  <2>4. CASE ~Pending(j)
    BY <1>1, <1>2, <2>1, <2>2, <2>4 DEF Fits, NoPartialRows
  <2> QED BY <2>3, <2>4
<1> QED BY <1>3, <1>4

\* A crash keeps the invariant: it only forgets tasks.
LEMMA CrashInv == Inv /\ Crash => Inv'
BY DEF Inv, Crash, TypeOK, LifecycleInv, NoPartialRows, Fits, WorkerState, Row

\* Every step keeps the invariant.
LEMMA NextInv == Inv /\ [Next]_vars => Inv'
<1> SUFFICES ASSUME Inv, [Next]_vars PROVE Inv'
  OBVIOUS
<1>1. CASE UNCHANGED vars
  BY <1>1 DEF vars, Inv, TypeOK, LifecycleInv, NoPartialRows, Fits, Pending, Expected,
              ChainMatches, Store!Outcomes
<1>2. CASE Next
  BY <1>2, RequestInv, ProcessInv, LoadInv, EndInv, CrashInv DEF Next, WorkerStep
<1> QED BY <1>1, <1>2

\* In every reachable state the invariant holds: no fairness is needed.
THEOREM LifecycleInvariant == Spec => []Inv
<1> QED BY InitInv, NextInv, PTL DEF Spec

\* The variables keep their types.
THEOREM LifecycleTypes == Spec => []TypeOK
<1>1. Inv => TypeOK
  BY DEF Inv
<1> QED BY <1>1, LifecycleInvariant, PTL

\* No reader of the database sees a half-written job.
THEOREM WholeRows == Spec => []NoPartialRows
<1>1. Inv => NoPartialRows
  BY DEF Inv
<1> QED BY <1>1, LifecycleInvariant, PTL

\* The abstract store can follow every step of the lifecycle.
LEMMA StoreStep ==
    ASSUME Inv, [Next]_vars
    PROVE  [Store!Next]_db
<1> USE DEF Inv
<1>1. CASE \E j \in Jobs, c \in Chains : Create(j, c)
  BY <1>1, StoreRows DEF Create, Store!Next, Store!Submit
<1>2. CASE \E j \in Jobs : Commit(j)
  <2>1. PICK j \in Jobs : Commit(j)
    BY <1>2
  <2>2. Fits(j, "committing", txn[j]) /\ db' = [db EXCEPT ![j] = txn[j]]
    BY <2>1 DEF Commit, LifecycleInv
  <2>3. CASE Pending(j)
    BY <2>2, <2>3 DEF Fits, Pending, Store!Next, Store!Settle
  <2>4. CASE ~Pending(j)
    BY <2>2, <2>4 DEF Fits, TypeOK
  <2> QED BY <2>3, <2>4
<1>3. CASE \E j \in Jobs : WriteFails(j)
  BY <1>3 DEF WriteFails, Rollback, TypeOK
<1>4. CASE \/ Crash
           \/ \E j \in Jobs : \/ Reinvoke(j) \/ Load(j) \/ PoolTimeout(j) \/ MarkRunning(j)
                              \/ CaptureContext(j) \/ CaptureFails(j) \/ StoreResult(j)
                              \/ AnalyzeFails(j) \/ MarkCompleted(j) \/ MarkFailed(j)
  BY <1>4 DEF Crash, Reinvoke, Load, PoolTimeout, MarkRunning, CaptureContext, CaptureFails,
              StoreResult, AnalyzeFails, MarkCompleted, MarkFailed, Step
<1>5. CASE UNCHANGED vars
  BY <1>5 DEF vars
<1> QED BY <1>1, <1>2, <1>3, <1>4, <1>5 DEF Next, WorkerStep

\* The lifecycle implements the store its readers see: one step from pending
\* to the outcome.
THEOREM StoreRefinement == Spec => ImplementsScanStore
<1>1. Init => Store!Init
  BY StoreRows DEF Init, Store!Init
<1>2. Inv /\ [Next]_vars => [Store!Next]_db
  BY StoreStep
<1> QED BY <1>1, <1>2, LifecycleInvariant, PTL DEF Spec, ImplementsScanStore, Store!Spec

\* What a worker committed stays, whatever runs, crashes or fails afterwards.
THEOREM OutcomesFinal == Spec => SettledRowsFrozen
<1>1. Inv /\ [Next]_vars =>
        [\A j \in Jobs : db[j].status \in {"running"} \cup Terminal => db'[j] = db[j]]_vars
  <2> SUFFICES ASSUME Inv, [Next]_vars, NEW j \in Jobs,
                      db[j].status \in {"running"} \cup Terminal
               PROVE  db'[j] = db[j]
    OBVIOUS
  <2>1. db[j] # NoRow /\ db[j].status # "pending" /\ db \in [Jobs -> Row]
    BY DEF NoRow, Bare, Terminal, Inv, TypeOK
  <2> QED BY <2>1, StoreStep, StoreRows DEF Store!Next, Store!Submit, Store!Settle
<1> QED BY <1>1, LifecycleInvariant, PTL DEF Spec, SettledRowsFrozen

\* A job completes only with an analysis of the chain that was asked for.
THEOREM AskedChain == Spec => CompletedOnAskedChain
<1>1. Inv /\ [Next]_vars =>
        [\A j \in Jobs : db'[j].status = "completed" => db'[j].chain_id = db[j].chain_id]_vars
  <2> SUFFICES ASSUME Inv, [Next]_vars, NEW j \in Jobs, db'[j].status = "completed"
               PROVE  db'[j].chain_id = db[j].chain_id
    OBVIOUS
  <2>1. db \in [Jobs -> Row]
    BY DEF Inv, TypeOK
  <2>2. CASE \E i \in Jobs, c \in Chains : Store!Submit(i, c)
    BY <2>1, <2>2, StoreRows DEF Store!Submit, NewRow, Bare
  <2>3. CASE \E i \in Jobs : Store!Settle(i)
    BY <2>1, <2>3, StoreRows DEF Store!Settle, Bare, Whole, WithContext
  <2> QED BY <2>2, <2>3, StoreStep DEF Store!Next
<1> QED BY <1>1, LifecycleInvariant, PTL DEF Spec, CompletedOnAskedChain
-----------------------------------------------------------------------------
(* How a captured job comes to its outcome.                                *)

\* The task of job j is past the chain context and not lost: it carries an analysis to
\* come, a failure, or an outcome to commit.
OnItsWay(j) ==
    \/ worker[j] \in {"analyzing", "stored", "failing"}
    \/ worker[j] = "committing" /\ txn[j].status \in Terminal

\* How many steps it is away from the commit.
StepsToCommit == [analyzing |-> 3, stored |-> 2, failing |-> 2, committing |-> 1]

\* A job whose chain context was captured stays on its way, a step nearer to the commit
\* with whatever its task does next, until its outcome is committed or its task is lost.
CapturedJobsAdvance ==
    \A j \in Jobs :
        OnItsWay(j) =>
            \/ db'[j].status \in Terminal
            \/ j \in lost'
            \/ OnItsWay(j)' /\ StepsToCommit[worker'[j]] < StepsToCommit[worker[j]]
            \/ ~WorkerStep(j) /\ UNCHANGED <<db[j], worker[j], txn[j]>>

\* CapturedJobsSettle but for its fairness: once the chain context is captured, process()
\* leads nowhere but to an outcome, and in three steps (scan_worker.py:62-88).
THEOREM CapturedJobsAreCarried == Spec => [][CapturedJobsAdvance]_vars
<1>1. ASSUME TypeOK, LifecycleInv, Next, NEW j \in Jobs, OnItsWay(j)
      PROVE  \/ db'[j].status \in Terminal
             \/ j \in lost'
             \/ OnItsWay(j)' /\ StepsToCommit[worker'[j]] < StepsToCommit[worker[j]]
             \/ ~WorkerStep(j) /\ UNCHANGED <<db[j], worker[j], txn[j]>>
    <2> USE <1>1 DEF TypeOK
    <2>1. worker[j] \in {"analyzing", "stored", "failing", "committing"} /\ db[j] # NoRow
        BY DEF OnItsWay, LifecycleInv
    <2>2. CASE WorkerStep(j)
        <3>1. CASE StoreResult(j)
            BY <3>1 DEF StoreResult, Step, OnItsWay, StepsToCommit
        <3>2. CASE AnalyzeFails(j)
            BY <3>2 DEF AnalyzeFails, Step, OnItsWay, StepsToCommit
        <3>3. CASE MarkCompleted(j) \/ MarkFailed(j)
            <4>1. /\ worker'[j] = "committing"
                  /\ worker[j] \in {"stored", "failing"}
                BY <3>3 DEF MarkCompleted, MarkFailed, Step
            <4>2. txn'[j].status \in Terminal
                <5>1. \/ txn[j] = WithContext("running", endpoint[Expected(j)])
                      \/ txn[j] = Whole("running", Expected(j))
                    BY <4>1 DEF LifecycleInv, Fits
                <5>2. \A s : [txn[j] EXCEPT !.status = s].status = s
                    BY <5>1 DEF WithContext, Whole
                <5> QED BY <3>3, <5>2 DEF MarkCompleted, MarkFailed, Step, Terminal
            <4> QED BY <4>1, <4>2 DEF OnItsWay, StepsToCommit
        <3>4. CASE Commit(j)
            BY <3>4 DEF Commit, OnItsWay
        <3>5. worker[j] \notin {"queued", "loaded", "started"}
            BY <2>1
        <3> QED BY <2>2, <3>1, <3>2, <3>3, <3>4, <3>5
                DEF WorkerStep, Load, PoolTimeout, MarkRunning, CaptureContext, CaptureFails, Step
    <2>3. CASE ~WorkerStep(j)
        <3>1. CASE \E c \in Chains : Create(j, c)
            BY <2>1, <3>1 DEF Create
        <3>2. CASE Reinvoke(j)
            BY <2>1, <3>2 DEF Reinvoke
        <3>3. CASE WriteFails(j)
            BY <3>3 DEF WriteFails
        <3>4. CASE Crash
            BY <2>1, <3>4 DEF Crash
        <3>5. ASSUME NEW k \in Jobs, k # j, \/ \E c \in Chains : Create(k, c)
                                            \/ Reinvoke(k) \/ WorkerStep(k) \/ WriteFails(k)
              PROVE  UNCHANGED <<db[j], worker[j], txn[j]>>
            BY <3>5 DEF Create, Reinvoke, WriteFails, WorkerStep, Load, PoolTimeout, MarkRunning, CaptureContext, CaptureFails,
                        StoreResult, AnalyzeFails, MarkCompleted, MarkFailed, Commit, Step
        <3> QED BY <2>3, <3>1, <3>2, <3>3, <3>4, <3>5 DEF Next
    <2> QED BY <2>2, <2>3
<1>2. ASSUME TypeOK, LifecycleInv, Next PROVE CapturedJobsAdvance
    BY <1>1, <1>2 DEF CapturedJobsAdvance
<1>3. Inv => TypeOK /\ LifecycleInv
    BY DEF Inv
<1> QED BY <1>2, <1>3, LifecycleInvariant, PTL DEF Spec
=============================================================================
