----------------------------- MODULE MCHistory -----------------------------
(* Cycles without a change, after which the evidence is gone, and with one that
   raises the risk and alerts; a policy that leaves one record, one that leaves a cycle, one that
   only drops what is old, and one that does not spare the baseline. *)
EXTENDS History

MCOutcomes ==
    {[unchanged |-> TRUE, delta |-> -5, critical |-> 0, high |-> 0],
     [unchanged |-> FALSE, delta |-> 30, critical |-> 1, high |-> 1]}

MCRetentionPolicies ==
    {[maxRecords |-> 1, maxAge |-> 0, retainBaseline |-> TRUE],
     [maxRecords |-> 7, maxAge |-> 0, retainBaseline |-> TRUE],
     [maxRecords |-> 100, maxAge |-> 1, retainBaseline |-> TRUE],
     [maxRecords |-> 100, maxAge |-> 1, retainBaseline |-> FALSE]}
=============================================================================
