--------------------------- MODULE DependencyScan ---------------------------
(***************************************************************************)
(* What a protocol-wide scan promises, whatever the number of workers, the *)
(* batching and the retries: a node is scanned only when everything it     *)
(* depends on was scanned successfully, it is given up only when that can  *)
(* no longer happen, and a verdict is final.                               *)
(*                                                                         *)
(* ProtocolScheduler implements this specification.                        *)
(***************************************************************************)
CONSTANTS
    Nodes,      \* addresses of the protocol graph
    Graphs      \* the edge sets the scan may be asked to run on

VARIABLES
    edges,      \* <<source, target>>: the target depends on the source
    status      \* verdict on each node

Deps(n) == {m \in Nodes : <<m, n>> \in edges}

Init ==
    /\ edges \in Graphs
    /\ status = [n \in Nodes |-> "pending"]

\* Every dependency of n was scanned, n itself was not.
Enabled(n) ==
    /\ status[n] = "pending"
    /\ \A d \in Deps(n) : status[d] = "completed"

Blocked(n) ==
    /\ status[n] = "pending"
    /\ \E d \in Deps(n) : status[d] = "failed"

\* A set of nodes that may run gets its verdicts.
Scan ==
    /\ \E S \in SUBSET {n \in Nodes : Enabled(n)} :
         \E verdict \in [S -> {"completed", "failed"}] :
            status' = [n \in Nodes |-> IF n \in S THEN verdict[n] ELSE status[n]]
    /\ UNCHANGED edges

\* The dependents of failed nodes are given up.
GiveUpBlocked ==
    /\ status' = [n \in Nodes |-> IF Blocked(n) THEN "skipped" ELSE status[n]]
    /\ UNCHANGED edges

\* Nothing can run any more: whatever is left is given up.
GiveUpRest ==
    /\ \A n \in Nodes : ~Enabled(n)
    /\ status' = [n \in Nodes |-> IF status[n] = "pending" THEN "skipped" ELSE status[n]]
    /\ UNCHANGED edges

Next == Scan \/ GiveUpBlocked \/ GiveUpRest

Spec == Init /\ [][Next]_<<edges, status>>
=============================================================================
