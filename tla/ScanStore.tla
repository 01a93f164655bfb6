------------------------------ MODULE ScanStore ------------------------------
(***************************************************************************)
(* What GET /scans/{id} may show over time, whatever the background worker *)
(* does: a job appears as pending and gets its outcome in one step, whole  *)
(* and for good.  The API's description of that request promises more, a   *)
(* status that goes through running (ScanLifecycle!RunningIsShown); this   *)
(* is what the worker does keep.                                           *)
(*                                                                         *)
(* ScanLifecycle implements this specification.                            *)
(***************************************************************************)
EXTENDS ScanRows

VARIABLE rows

Init == rows = [j \in Jobs |-> NoRow]

Submit(j, c) ==
    /\ rows[j] = NoRow
    /\ rows' = [rows EXCEPT ![j] = NewRow(c)]

\* Completed on the chain that was asked for, with everything; failed after
\* its context was recorded, with the chain the endpoint turned out to serve;
\* or abandoned in "running", with nothing.
Outcomes(row) ==
    {Whole("completed", row.chain_id), Bare("running", row.chain_id)}
    \cup {WithContext("failed", c) : c \in Chains}

Settle(j) ==
    /\ rows[j].status = "pending"
    /\ \E row \in Outcomes(rows[j]) : rows' = [rows EXCEPT ![j] = row]

Next == \E j \in Jobs : Settle(j) \/ \E c \in Chains : Submit(j, c)

Spec == Init /\ [][Next]_rows
=============================================================================
