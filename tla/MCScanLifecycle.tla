--------------------------- MODULE MCScanLifecycle ---------------------------
(***************************************************************************)
(* ScanLifecycle with three jobs that compete for two connections (two     *)
(* jobs and one connection in the runs that look for a disagreement).  Of  *)
(* two chains one is configured with the right endpoint and the other with *)
(* the same one.                                                           *)
(***************************************************************************)
EXTENDS ScanLifecycle

CONSTANT mainnet

SepoliaUrlServesMainnet == {[c \in Chains |-> mainnet]}
=============================================================================
