------------------------- MODULE ExploitSimulation -------------------------
(***************************************************************************)
(* The simulation of exploits: a scenario is a template of call frames, of *)
(* state diffs and of logs, filled in from a context and handed to the     *)
(* engines of RuntimeIntelligence; no EVM runs.                            *)
(*                                                                         *)
(* A context names the accounts of a scenario, NoAddress for each one that *)
(* is not given: actor, contract, implementation, newImplementation,       *)
(* owner, newOwner, spender, recipient.                                    *)
(*                                                                         *)
(* An operator named F_xxx is F with a bug, a mutant.                      *)
(***************************************************************************)
EXTENDS RuntimeIntelligence

CONSTANTS Day   \* the storage word of a delay of 86400 seconds

Scenarios ==
    {"proxy_upgrade", "ownership_transfer", "unlimited_approval", "unlimited_mint", "burn",
     "pause", "unpause", "timelock_reduction", "governance_proposal_execution"}
F_LargeMint == 1   \* an amount that is not large
LargeMint == 3     \* LARGE_MINT_AMOUNT, above LargeDelta

Or(first, second) == IF first # NoAddress THEN first ELSE second
Diff(slot, before, after) == [slot |-> slot, before |-> before, after |-> after]
Frame(type, from, to, selector, value, parent, depth) ==
    [type |-> type, from |-> from, to |-> to, selector |-> selector, value |-> value,
     parent |-> parent, depth |-> depth, failed |-> FALSE]

NewImplementation(c) == Or(c.newImplementation, c.actor)
Owner(c) == Or(c.owner, c.actor)

\* The new owner of the storage template falls back to the owner, that of the
\* log template to the actor.
StoredOwner(c) == Or(c.newOwner, Or(c.recipient, Owner(c)))
LoggedOwner(c) == Or(c.newOwner, Or(c.recipient, c.actor))

\* ExecutionPredictor: no selector but the upgrade's is ever set
PredictedFrames(scenario, c) ==
    LET call(selector, child) ==
            <<Frame("CALL", c.actor, c.contract, selector, FALSE, 0, 0)>> \o child
    IN  CASE scenario = "proxy_upgrade" ->
                call("upgradeTo", <<Frame("DELEGATECALL", c.contract,
                    Or(c.newImplementation, Or(c.implementation, c.actor)), "none", FALSE, 1, 1)>>)
          [] scenario = "governance_proposal_execution" ->
                call("none", <<Frame("CALL", c.contract, Or(c.recipient, c.contract), "none", FALSE, 1, 1)>>)
          [] OTHER -> call("none", <<>>)

\* StatePredictor: what _TransitionBuilder writes
PredictedDiffs(scenario, c) ==
    CASE scenario = "proxy_upgrade" -> {Diff("implementation", Or(c.implementation, c.contract), NewImplementation(c))}
      [] scenario = "ownership_transfer" -> {Diff("owner", Owner(c), StoredOwner(c))}
      [] scenario = "timelock_reduction" -> {Diff("governor", Day, NoAddress)}
      [] scenario = "pause" -> {Diff("paused", 0, 1)}
      [] scenario = "unpause" -> {Diff("paused", 1, 0)}
      [] scenario = "governance_proposal_execution" -> {Diff("owner", c.actor, Or(c.recipient, c.actor))}
      [] scenario = "unlimited_approval" -> {Diff("allowance", 0, Unlimited)}
      [] scenario = "unlimited_mint" -> {Diff("supply", 0, LargeMint)}
      [] scenario = "burn" -> {Diff("supply", 2, 1)}

\* The logs of the template carry the topics the mapper knows.
PredictedLogs(scenario, c) ==
    CASE scenario = "ownership_transfer" -> {[topic |-> "constant", event |-> "OwnershipTransferred", value |-> 0]}
      [] scenario = "unlimited_approval" -> {[topic |-> "constant", event |-> "Approval", value |-> Unlimited]}
      [] OTHER -> {}

\* SCENARIO_SIGNALS: said for the scenario itself, whatever the engines find
ScenarioSignals(scenario) ==
    CASE scenario = "pause" -> {"simulated_pause"}
      [] scenario = "unpause" -> {"simulated_unpause"}
      [] scenario = "timelock_reduction" -> {"simulated_timelock_reduction"}
      [] scenario = "governance_proposal_execution" -> {"governance_execution"}
      [] OTHER -> {}

\* SimulationEngine.simulate, what the result says of the state and of the trace
PredictedState(scenario, c) ==
    Signals(StateEvidence(PredictedDiffs(scenario, c), PredictedLogs(scenario, c), PredictedFrames(scenario, c)))
Predicted(scenario, c) ==
    PredictedState(scenario, c) \cup TraceSignals(PredictedFrames(scenario, c), {}) \cup ScenarioSignals(scenario)

------------------------------------------------------------------------------
(* The attack library: scenarios, and the evidence each attack is to produce *)

Attacks ==
    [upgrade |-> {"proxy_upgrade"}, governance_capture |-> {"ownership_transfer", "governance_proposal_execution"},
     treasury_drain |-> {"unlimited_approval"}, unlimited_mint |-> {"unlimited_mint"},
     unlimited_approval |-> {"unlimited_approval"}, oracle_manipulation |-> {"timelock_reduction"},
     bridge_compromise |-> {"unlimited_mint"}, privilege_escalation |-> {"ownership_transfer"}]
Expected ==
    [upgrade |-> {"implementation_changed", "proxy_execution"},
     governance_capture |-> {"owner_changed", "governance_execution"},
     treasury_drain |-> {"unlimited_allowance_granted"},
     unlimited_mint |-> {"large_supply_inflation", "supply_mint"},
     unlimited_approval |-> {"unlimited_allowance_granted"},
     oracle_manipulation |-> {"simulated_oracle_manipulation"},
     bridge_compromise |-> {"large_supply_inflation"}, privilege_escalation |-> {"owner_changed"}]
\* What two definitions declare and no simulation gives: "supply_mint" beside
\* "large_supply_inflation" (attack_library.py:182), though an engine says one or
\* the other of a supply, and "simulated_oracle_manipulation"
\* (attack_library.py:242), which no engine says at all.
Unmet == {"supply_mint", "simulated_oracle_manipulation"}
Found(attack, c) == UNION {Predicted(s, c) : s \in Attacks[attack]}
=============================================================================
