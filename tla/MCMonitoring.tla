---------------------------- MODULE MCMonitoring ----------------------------
(* A protocol whose owner and liquidity may change, or that may gain a second
   contract without a value in any field; modules that find something serious or
   critical about the owner, or a critical threat, and a change of the pool. *)
EXTENDS Monitoring, TLC

CONSTANTS root, extra, a, b

Bare == [f \in ContractFields \cup GovernanceFields \cup {"abi_hash"} |-> None]
Quiet == [f \in Fingerprints |-> None]
Of(contracts) == [contracts |-> contracts, fingerprints |-> Quiet]
Owned == [Bare EXCEPT !.owner = a]

Plain == Of(root :> Owned)
MCSnapshots ==
    {Plain,
     [Of(root :> [Owned EXCEPT !.owner = b]) EXCEPT !.fingerprints.liquidity = a],
     Of(root :> Owned @@ extra :> Bare)}

Evidence(id, source, matches, severity, score) ==
    [id |-> id, source |-> source, matches |-> matches, severity |-> severity, score |-> score,
     reasonOnly |-> FALSE]
Owner(severity) ==
    Evidence("owner", "governance", {"governance_change", "ownership_change"}, severity, 20)
Threat == Evidence("threat", "threat_surface", {}, "critical", 30)
Pool == Evidence("pool", "liquidity", {}, "medium", 5)

Finding(governance, threat) ==
    [m \in Modules |-> CASE m = "governance" -> governance
                         [] m = "threat" -> threat
                         [] m = "liquidity" -> {Pool}
                         [] OTHER -> {}]
MCFindings == {Finding({Owner("high")}, {}), Finding({Owner("critical")}, {}), Finding({}, {Threat})}

MCAlertPolicies == {[minimum |-> "medium", cooldown |-> 3, respectAcks |-> TRUE]}
=============================================================================
