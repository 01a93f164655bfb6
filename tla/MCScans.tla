------------------------------- MODULE MCScans -------------------------------
(***************************************************************************)
(* ScanLifecycle and ScanPolling in one run.  A behaviour is about one of  *)
(* the two, and the other stays as it starts: they share no variable, only *)
(* what they say of ScanStore.  The dashboard submits two of the jobs, all *)
(* for one chain: its form sends none.                                     *)
(***************************************************************************)
EXTENDS MCScanLifecycle, ScanPolling

CONSTANT Submitted  \* bound: the jobs the dashboard submits

VARIABLE part       \* the one this behaviour is about

EitherInit == part \in {"lifecycle", "polling"} /\ Init /\ PollingInit

WithinBounds ==
    \A j \in Jobs : rows'[j] # NoRow => j \in Submitted /\ rows'[j].chain_id = mainnet

EitherNext ==
    \/ part = "lifecycle" /\ Next /\ UNCHANGED <<part, pollingVars>>
    \/ part = "polling" /\ PollingNext /\ WithinBounds /\ UNCHANGED <<part, vars>>

\* No action that either fairness names is enabled in the part that stands.
EitherSpec ==
    /\ EitherInit /\ [][EitherNext]_<<part, vars, pollingVars>>
    /\ \A j \in Jobs : WF_vars(WorkerStep(j))
    /\ PollingFairness
=============================================================================
