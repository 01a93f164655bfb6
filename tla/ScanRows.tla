------------------------------ MODULE ScanRows ------------------------------
(***************************************************************************)
(* What a scan_jobs row with its scan_results row tells a reader, shared by *)
(* ScanStore and ScanLifecycle.  Addresses, timestamps and the analysis     *)
(* itself are left out; what stays is what the lifecycle decides: the       *)
(* status, the chain the row claims, and the chain that each part written   *)
(* on the way (chain context, result, risk score) comes from.               *)
(***************************************************************************)
CONSTANTS
    Jobs,       \* ids of scan jobs
    Chains,     \* chain ids of the registry
    NoChain     \* NULL

ASSUME ChainAssumption == NoChain \notin Chains

Terminal == {"completed", "failed"}

\* How far the row of a job has got: as submitted for chain c, with c's chain
\* context (block_number, rpc_endpoint), or with result and risk score, too.
Bare(s, c) ==
    [status |-> s, chain_id |-> c, context |-> NoChain, result |-> NoChain, risk |-> NoChain]
WithContext(s, c) ==
    [status |-> s, chain_id |-> c, context |-> c, result |-> NoChain, risk |-> NoChain]
Whole(s, c) ==
    [status |-> s, chain_id |-> c, context |-> c, result |-> c, risk |-> c]

NoRow == Bare("absent", NoChain)

PresentRow ==
    [status : {"pending", "running"} \cup Terminal, chain_id : Chains,
     context : Chains \cup {NoChain},
     result : Chains \cup {NoChain},
     risk : Chains \cup {NoChain}]

Row == {NoRow} \cup PresentRow

\* The row ScanService.create_scan inserts.
NewRow_statusUnset(c) == Bare("absent", c)
NewRow(c) == Bare("pending", c)
=============================================================================
