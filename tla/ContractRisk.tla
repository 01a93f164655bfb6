----------------------------- MODULE ContractRisk -----------------------------
(***************************************************************************)
(* From the findings about a contract (ContractRiskInput) to its risk:     *)
(* the signals of RiskEvidenceBuilder, their weights, and the score and    *)
(* levels of RiskEngine, with the correlation rules a scan can match.      *)
(*                                                                         *)
(* Findings: contract; implementation and admin, addresses or NoAddress;   *)
(* adminType and ownerType, of the admin and of its owner; delay, what     *)
(* getMinDelay() answered; controls and abilities; trade, the simulation;  *)
(* pool, the primary one; wallet, what is said of the deployer.            *)
(*                                                                         *)
(* An operator named F_xxx is F with a bug, a mutant.                      *)
(***************************************************************************)
EXTENDS Integers, FiniteSets, Functions

CONSTANTS
    NoAddress,  \* None
    NoPool      \* no pool was found

AdminTypes == {"none", "eoa", "multisig", "contract"}
Capabilities == {"mint", "pause", "blacklist", "ownership"}
WalletFindings ==
    {"creator_owns_majority", "lp_owner_is_creator", "fresh_deployer", "exchange_funded_deployer",
     "tornado_funded_deployer", "treasury_multisig", "wallet_known_scam"}
Controls == {"trading_enabled_control", "whitelist_control", "blacklist_sell_blocking", "transfer_tax_control"}

\* HoneypotSimulationResult; nothing is known of a trade that was not simulated
NotSimulated ==
    [simulated |-> FALSE, buys |-> "unknown", moves |-> "unknown", sells |-> "unknown",
     buyTaxHigh |-> FALSE, sellTaxHigh |-> FALSE]
HighTax(trade) == trade.simulated /\ (trade.buyTaxHigh \/ trade.sellTaxHigh)

When(condition, signal) == IF condition THEN {signal} ELSE {}

------------------------------------------------------------------------------
(* The weights: points, threat and centralization of a signal *)

W(points, threat, central) == [points |-> points, threat |-> threat, central |-> central]
Weights ==
    [not_contract |-> W(0, 0, 0), upgradeable |-> W(35, 18, 0), unknown_admin |-> W(0, 0, 28),
     implementation_exposed |-> W(30, 12, 0),
     admin_timelock |-> W(12, 0, 12), admin_multisig |-> W(15, 0, 22),
     admin_contract |-> W(28, 0, 32), admin_eoa |-> W(35, 0, 45),
     mint |-> W(20, 22, 0), pause |-> W(15, 18, 0), blacklist |-> W(25, 28, 0), ownership |-> W(10, 8, 22),
     trading_enabled_control |-> W(18, 20, 0), whitelist_control |-> W(20, 22, 0),
     blacklist_sell_blocking |-> W(28, 30, 0), transfer_tax_control |-> W(22, 24, 0),
     sim_buy_blocked |-> W(15, 18, 0), sim_sell_blocked |-> W(35, 40, 0),
     sim_high_buy_tax |-> W(12, 14, 0), sim_high_sell_tax |-> W(25, 28, 0),
     no_liquidity |-> W(30, 25, 0), low_liquidity |-> W(18, 12, 0), unlocked_lp |-> W(22, 18, 0),
     single_wallet_lp |-> W(15, 0, 0), fresh_deployer |-> W(12, 0, 0),
     creator_owns_majority |-> W(25, 0, 0), lp_owner_is_creator |-> W(18, 0, 0),
     exchange_funded_deployer |-> W(-5, 0, 0), tornado_funded_deployer |-> W(35, 0, 0),
     treasury_multisig |-> W(-10, 0, 0), wallet_known_scam |-> W(40, 0, 0)]
Signals == DOMAIN Weights
LowLiquidity == 1   \* depth of a pool below LOW_LIQUIDITY_USD, a deep one has more

------------------------------------------------------------------------------
(* GovernanceAnalyzer: who can upgrade the contract *)

\* _resolve_upgrade_authority: the admin's own type before that of its owner.
F_UpgradeAuthority(f) ==
    CASE f.implementation = NoAddress -> "none"
      [] f.implementation # NoAddress /\ f.delay # "none" -> "timelock"
      [] f.implementation # NoAddress /\ f.delay = "none" ->
            IF f.adminType # "none" THEN f.adminType ELSE "unknown"

\* _resolve_upgrade_authority
UpgradeAuthority(f) ==
    CASE f.implementation = NoAddress -> "none"
      [] f.implementation # NoAddress /\ f.delay # "none" -> "timelock"
      [] f.implementation # NoAddress /\ f.delay = "none" ->
            IF f.ownerType # "none" THEN f.ownerType
            ELSE IF f.adminType # "none" THEN f.adminType ELSE "unknown"

------------------------------------------------------------------------------
(* RiskEvidenceBuilder.from_contract_risk_input *)

ProxyEvidence(f) ==
    IF f.implementation = NoAddress THEN {}
    ELSE {"upgradeable", "implementation_exposed"} \cup When(f.admin = NoAddress, "unknown_admin")

\* _admin_evidence_weights
AdminEvidence(f) ==
    LET effective == IF f.ownerType # "none" THEN f.ownerType ELSE f.adminType
    IN  CASE f.admin = NoAddress -> {}
          [] f.admin # NoAddress /\ f.delay # "none" -> {"admin_timelock"}
          [] f.admin # NoAddress /\ f.delay = "none" ->
                {CASE effective = "multisig" -> "admin_multisig"
                   [] effective = "contract" -> "admin_contract"
                   [] OTHER -> "admin_eoa"}

\* Any simulation of the trade clears the contract of suspicion.
F_HoneypotEvidence(f) == {c \in f.controls : c \in {"blacklist_sell_blocking", "transfer_tax_control"} => ~f.trade.simulated}

\* A suspicion the simulation confirmed is counted as what was simulated.
HoneypotEvidence(f) ==
    {c \in f.controls :
        /\ c = "blacklist_sell_blocking" => ~(f.trade.simulated /\ f.trade.sells = "no")
        /\ c = "transfer_tax_control" => ~HighTax(f.trade)}

SimulationEvidence(f) ==
    IF ~f.trade.simulated THEN {}
    ELSE When(f.trade.buys = "no", "sim_buy_blocked") \cup When(f.trade.sells = "no", "sim_sell_blocked")
         \cup When(f.trade.buyTaxHigh, "sim_high_buy_tax") \cup When(f.trade.sellTaxHigh, "sim_high_sell_tax")

LiquidityEvidence(pool) ==
    IF pool = NoPool THEN {"no_liquidity"}
    ELSE When(pool.depth <= LowLiquidity, "low_liquidity") \cup When(~pool.locked, "unlocked_lp")
         \cup When(pool.holder # NoAddress /\ ~pool.locked, "single_wallet_lp")

Evidence(f) ==
    IF ~f.contract THEN {"not_contract"}
    ELSE ProxyEvidence(f) \cup AdminEvidence(f) \cup f.abilities \cup HoneypotEvidence(f)
         \cup SimulationEvidence(f) \cup LiquidityEvidence(f.pool) \cup f.wallet

------------------------------------------------------------------------------
(* RiskEngine.evaluate_from_evidence *)

Clamp(n) == IF n > 100 THEN 100 ELSE IF n < 0 THEN 0 ELSE n
Level(n, low, high, levels) == IF n > high THEN levels[3] ELSE IF n > low THEN levels[2] ELSE levels[1]

Weight(field) == [s \in Signals |-> Weights[s][field]]
Score(evidence) == Clamp(SumFunctionOnSet(Weight("points"), evidence))
RiskLevel(evidence) == Level(Score(evidence), 33, 66, <<"LOW", "MEDIUM", "HIGH">>)

ThreatLevel(evidence) ==
    LET sum == SumFunctionOnSet(Weight("threat"), evidence)
    IN  IF "sim_sell_blocked" \in evidence \/ sum > 74 THEN "CRITICAL"
        ELSE Level(sum, 24, 49, <<"LOW", "MEDIUM", "HIGH">>)

Centralization(evidence) ==
    Level(SumFunctionOnSet(Weight("central"), evidence), 20, 35, <<"LOW", "MEDIUM", "HIGH">>)

\* The findings of the correlation engine add nothing to the score.  The admin
\* evidence carries the types it was weighed with.
EoaWithoutTimelock(f) ==
    /\ f.admin # NoAddress /\ f.delay = "none"
    /\ (IF f.ownerType = "none" THEN f.adminType ELSE f.ownerType) \in {"none", "eoa"}
Correlated(f, evidence) ==
    When("upgradeable" \in evidence /\ EoaWithoutTimelock(f), "critical_governance_centralization")
    \cup When("mint" \in evidence /\ evidence \cap {"no_liquidity", "low_liquidity"} # {}, "exit_liquidity_risk")
    \cup When({"mint", "fresh_deployer"} \subseteq evidence
                /\ evidence \cap {"wallet_known_scam", "tornado_funded_deployer"} # {},
              "potential_rug_pull_pattern")

Assessment(f) ==
    LET e == Evidence(f)
    IN  [evidence |-> e, score |-> Score(e), level |-> RiskLevel(e), threat |-> ThreatLevel(e),
         centralization |-> Centralization(e), correlated |-> Correlated(f, e)]
=============================================================================
