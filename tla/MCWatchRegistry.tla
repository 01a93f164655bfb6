--------------------------- MODULE MCWatchRegistry ---------------------------
(* Constants for model checking WatchRegistry.                             *)
EXTENDS WatchRegistry, TLC

MCInterval == ("hourly" :> 1) @@ ("daily" :> 2)

MCSymmetry == Permutations(Scans) \cup Permutations(Watches)
=============================================================================
