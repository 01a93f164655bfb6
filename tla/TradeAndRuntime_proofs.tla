----------------------- MODULE TradeAndRuntime_proofs -----------------------
(***************************************************************************)
(* Proofs about the simulation of a trade on a fork, and about what the    *)
(* engines of runtime intelligence tell of a transaction, for any calls,   *)
(* writes and failures an EVM can make and any contexts of a simulation.   *)
(***************************************************************************)
EXTENDS TradeSimulation, RuntimeAnalysis, SequenceTheorems, TLAPS

\* What a transaction of leg l that went through says of its target.
LegFacts(t, l) ==
    /\ l = "buy" => t.buyable
    /\ l = "transfer" => t.movable
    /\ l = "sell" => t.approves /\ t.sellable

LegPCs == {"open"} \cup InLeg
Trading(x) == pc[x] \notin {"reset", "fund", "market", "done"}
AfterBuy(x) == Trading(x) /\ (pc[x] \in LegPCs => leg[x] # "buy")
Selling(x) ==
    \/ pc[x] \in {"ethBefore", "ethAfter"}
    \/ pc[x] \in LegPCs /\ leg[x] \in {"approve", "sell"}

YesOf(t, r) ==
    /\ r.canBuy = "yes" => t.pair /\ t.quotesBuy /\ t.buyable
    /\ r.canTransfer = "yes" => t.movable
    /\ r.canSell = "yes" => t.approves /\ t.sellable /\ r.canTransfer # "no"

\* What a simulation knows of its target at each step.
SimInv(x) ==
    LET t == target[x] IN
    /\ ~Trading(x) => leg[x] = "buy"
    /\ Trading(x) => t.pair /\ t.quotesBuy
    /\ AfterBuy(x) => t.buyable
    /\ Selling(x) => moved[x] # "no"
    /\ moved[x] = "yes" => t.movable
    /\ tx[x].state = "ok" => LegFacts(t, tx[x].leg)
    /\ pc[x] = "wait" => tx[x].state = "none" \/ tx[x].leg = leg[x]
    /\ pc[x] = "close" /\ legOk[x] = "yes" => LegFacts(t, leg[x]) /\ leg[x] # "approve"
    /\ pc[x] = "ethAfter" => legOk[x] # "raise" /\ (legOk[x] = "yes" => t.approves /\ t.sellable)
    /\ YesOf(t, result[x])

NodeInv == \A n \in Nodes : \A t \in approved[n] : t.approves

IInv == SimulationTypes /\ NodeInv /\ \A x \in Sims : SimInv(x)

-----------------------------------------------------------------------------
(* Types of what the operators compute.                                    *)

LEMMA FactTypes ==
    ASSUME NEW t \in Targets
    PROVE  /\ t.supported \in BOOLEAN /\ t.pair \in BOOLEAN
           /\ t.quotesBuy \in BOOLEAN /\ t.quotesSell \in BOOLEAN
           /\ t.buyable \in BOOLEAN /\ t.movable \in BOOLEAN
           /\ t.approves \in BOOLEAN /\ t.sellable \in BOOLEAN
           /\ t.got \in Nat /\ t.keep \in Nat
BY TradeAssumption DEF TargetFacts

\* A tax is a number, NoTax included.
LEMMA TaxType ==
    ASSUME NEW e \in Int, NEW r \in Int
    PROVE  Tax(e, r) \in Int
<1>1. CASE e > 0 /\ r < e
  <2>1. ((e - r) * 10000) \div e \in Int
    BY <1>1
  <2> QED BY <1>1, <2>1 DEF Tax
<1>2. CASE ~(e > 0 /\ r < e)
  BY <1>2 DEF Tax, NoTax
<1> QED BY <1>1, <1>2

LEMMA SaleTaxType ==
    ASSUME NEW t \in Targets, NEW amount \in Nat, NEW gain \in Int
    PROVE  SaleTax(t, amount, gain) \in Int
<1>1. Received(gain) \in Int
  BY DEF Received
<1>2. (IF t.quotesSell THEN amount ELSE 0) \in Int
  OBVIOUS
<1> QED BY <1>1, <1>2, TaxType DEF SaleTax

LEMMA ProceedsType ==
    ASSUME NEW t \in Targets, NEW amount \in Nat
    PROVE  Proceeds(t, amount) \in Int
<1>1. t.keep \in Nat
  BY FactTypes
<1>2. amount * t.keep \in Nat
  BY <1>1
<1> QED BY <1>2 DEF Proceeds

LEMMA NodeOfType ==
    ASSUME SimulationTypes, NEW s \in Sims
    PROVE  NodeOf(s) \in Nodes
BY DEF NodeOf, Nodes

\* The results a simulation returns have their type, and no unfounded "yes".
LEMMA ResultsBuilt ==
    /\ NotRun \in Results
    /\ \A st \in {"skipped", "completed"} : NoMarket(st) \in Results
    /\ \A t \in Targets : YesOf(t, NotRun) /\ YesOf(t, NoMarket("skipped"))
                          /\ YesOf(t, NoMarket("completed"))
<1>1. NotRun \in Results /\ \A st \in {"skipped", "completed"} : NoMarket(st) \in Results
  BY DEF NotRun, NoMarket, Verdict, Results, Answers, NoTax
<1>2. \A t \in Targets : YesOf(t, NotRun) /\ YesOf(t, NoMarket("skipped"))
                          /\ YesOf(t, NoMarket("completed"))
  BY DEF YesOf, NotRun, NoMarket, Verdict
<1> QED BY <1>1, <1>2

-----------------------------------------------------------------------------
(* The invariant, action by action.                                        *)

FixedTypes == target \in [Sims -> Targets] /\ autoStart \in BOOLEAN
LocalTypes ==
    /\ pc \in [Sims -> PCs] /\ leg \in [Sims -> Legs]
    /\ legOk \in [Sims -> {"yes", "no", "raise"}]
    /\ actual \in [Sims -> Nat] /\ sellable \in [Sims -> Nat] /\ ethBefore \in [Sims -> Int]
    /\ moved \in [Sims -> Answers] /\ result \in [Sims -> Results]
    /\ tx \in [Sims -> [state : {"none", "pending", "ok", "reverted"}, leg : Legs, amount : Nat]]
ChainTypes ==
    /\ held \in [Nodes -> [Targets -> Nat]]
    /\ approved \in [Nodes -> SUBSET Targets]
    /\ eth \in [Nodes -> Int]
OpenTypes == impersonated \in [Nodes -> BOOLEAN] /\ abandoned \subseteq Nodes
HistoryTypes == disturbed \in [Sims -> BOOLEAN] /\ timedOut \in [Sims -> BOOLEAN]

LEMMA TypesSplit ==
    SimulationTypes <=> FixedTypes /\ LocalTypes /\ ChainTypes /\ OpenTypes /\ HistoryTypes
BY DEF SimulationTypes, FixedTypes, LocalTypes, ChainTypes, OpenTypes, HistoryTypes

LEMMA TypesSplitNext ==
    SimulationTypes' <=> FixedTypes' /\ LocalTypes' /\ ChainTypes' /\ OpenTypes' /\ HistoryTypes'
BY DEF SimulationTypes, FixedTypes, LocalTypes, ChainTypes, OpenTypes, HistoryTypes

\* A step of s leaves the locals of the others alone; a reset may forget their
\* transactions.
OthersKeep(s) ==
    \A x \in Sims \ {s} :
        /\ pc'[x] = pc[x] /\ leg'[x] = leg[x] /\ legOk'[x] = legOk[x]
        /\ moved'[x] = moved[x] /\ result'[x] = result[x]
        /\ tx'[x] \in {tx[x], NoTx}

LEMMA OthersInv ==
    ASSUME IInv, NEW s \in Sims, OthersKeep(s), target' = target, SimInv(s)'
    PROVE  \A x \in Sims : SimInv(x)'
<1>1. ASSUME NEW x \in Sims \ {s}
      PROVE  SimInv(x)'
  BY <1>1 DEF IInv, OthersKeep, SimInv, Trading, AfterBuy, Selling, NoTx
<1> QED BY <1>1

\* The node's part is untouched.
LEMMA ChainKept ==
    ASSUME IInv, UNCHANGED <<fixed, chain>>
    PROVE  FixedTypes' /\ ChainTypes' /\ NodeInv'
BY TypesSplit DEF IInv, FixedTypes, ChainTypes, NodeInv, fixed, chain, Nodes

\* Marking the disturbed simulations keeps the history's type.
LEMMA DisturbTypes ==
    ASSUME IInv, NEW s \in Sims, Disturb(s)
    PROVE  HistoryTypes'
BY TypesSplit DEF IInv, HistoryTypes, Disturb

\* simulate returns a result.
LEMMA FinishKeeps ==
    ASSUME IInv, NEW s \in Sims, NEW r \in Results, Finish(s, r), YesOf(target[s], r),
           UNCHANGED <<fixed, chain>>
    PROVE  FixedTypes' /\ LocalTypes' /\ ChainTypes' /\ NodeInv' /\ \A x \in Sims : SimInv(x)'
<1>1. LocalTypes
  BY TypesSplit DEF IInv
<1>2. LocalTypes'
  BY <1>1 DEF LocalTypes, Finish, GoTo, PCs, Legs, Answers, NoTx
<1>3. OthersKeep(s)
  BY <1>1 DEF LocalTypes, Finish, GoTo, OthersKeep
<1>4. SimInv(s)'
  <2>1. /\ pc'[s] = "done" /\ leg'[s] = "buy" /\ legOk'[s] = "no" /\ moved'[s] = "untested" /\ result'[s] = r
        /\ tx'[s].state # "ok" /\ target' = target
    BY <1>1 DEF LocalTypes, Finish, GoTo, NoTx, fixed
  <2> QED BY <2>1 DEF SimInv, Trading, AfterBuy, Selling, LegPCs, InLeg
<1>5. target' = target
  BY DEF fixed
<1> QED BY <1>2, <1>3, <1>4, <1>5, ChainKept, OthersInv

\* A step that returns, with the impersonation and the history as it leaves them.
LEMMA Returns ==
    ASSUME IInv, NEW s \in Sims, NEW r \in Results, Finish(s, r), YesOf(target[s], r),
           UNCHANGED <<fixed, chain, history>>, OpenTypes'
    PROVE  IInv'
<1>1. HistoryTypes'
  BY TypesSplit DEF IInv, HistoryTypes, history
<1> QED BY <1>1, FinishKeeps, TypesSplitNext DEF IInv

\* A step of s that does not return and leaves the chain alone.
LEMMA GoesOn ==
    ASSUME IInv, NEW s \in Sims, UNCHANGED <<fixed, chain>>,
           LocalTypes', OpenTypes', HistoryTypes', OthersKeep(s), SimInv(s)'
    PROVE  IInv'
<1>1. target' = target
  BY DEF fixed
<1> QED BY <1>1, ChainKept, OthersInv, TypesSplitNext DEF IInv

LEMMA OpenKept ==
    ASSUME IInv, UNCHANGED <<impersonated, abandoned>>
    PROVE  OpenTypes'
BY TypesSplit DEF IInv, OpenTypes, Nodes

LEMMA HistoryKept ==
    ASSUME IInv, UNCHANGED history
    PROVE  HistoryTypes'
BY TypesSplit DEF IInv, HistoryTypes, history

LEMMA NotSimulatedKeeps ==
    ASSUME IInv, NEW s \in Sims, NotSimulated(s) \/ CallFails(s)
    PROVE  IInv'
<1>1. target[s] \in Targets
  BY TypesSplit DEF IInv, FixedTypes
<1>2. Finish(s, NotRun) /\ UNCHANGED <<fixed, chain, history>> /\ UNCHANGED <<impersonated, abandoned>>
  BY DEF NotSimulated, CallFails
<1> QED BY <1>1, <1>2, ResultsBuilt, OpenKept, Returns

LEMMA ResetForkKeeps ==
    ASSUME IInv, NEW s \in Sims, ResetFork(s)
    PROVE  IInv'
<1> DEFINE n == NodeOf(s)
<1>1. LocalTypes /\ ChainTypes /\ FixedTypes /\ n \in Nodes
  BY TypesSplit, NodeOfType DEF IInv
<1>2. LocalTypes'
  BY <1>1 DEF ResetFork, GoTo, LocalTypes, PCs, NoTx, Legs, reading
<1>3. ChainTypes'
  BY <1>1, TradeAssumption DEF ResetFork, ChainTypes, Nodes
<1>4. FixedTypes' /\ target' = target
  BY <1>1 DEF ResetFork, FixedTypes, fixed
<1>5. OpenTypes' /\ HistoryTypes'
  BY OpenKept, DisturbTypes DEF ResetFork
<1>6. NodeInv'
  BY <1>1 DEF IInv, ResetFork, NodeInv, ChainTypes, Nodes
<1>7. OthersKeep(s)
  BY <1>1 DEF ResetFork, GoTo, OthersKeep, LocalTypes, reading
<1>8. SimInv(s)'
  <2>1. pc'[s] = "fund" /\ leg' = leg /\ pc[s] = "reset" /\ legOk' = legOk /\ moved' = moved /\ result' = result
        /\ tx'[s] = NoTx
    BY <1>1 DEF ResetFork, GoTo, LocalTypes, reading
  <2>2. NoTx.state # "ok"
    BY DEF NoTx
  <2> QED BY <1>4, <2>1, <2>2 DEF IInv, SimInv, Trading, AfterBuy, Selling, LegPCs, InLeg
<1> QED BY <1>2, <1>3, <1>4, <1>5, <1>6, <1>7, <1>8, OthersInv, TypesSplitNext DEF IInv

LEMMA FundKeeps ==
    ASSUME IInv, NEW s \in Sims, Fund(s)
    PROVE  IInv'
<1>1. LocalTypes /\ ChainTypes /\ FixedTypes /\ NodeOf(s) \in Nodes
  BY TypesSplit, NodeOfType DEF IInv
<1>2. LocalTypes' /\ OthersKeep(s)
  BY <1>1 DEF Fund, GoTo, LocalTypes, PCs, OthersKeep, reading
<1>3. ChainTypes' /\ NodeInv'
  BY <1>1, TradeAssumption DEF IInv, Fund, ChainTypes, NodeInv, Nodes
<1>4. FixedTypes' /\ target' = target
  BY <1>1 DEF Fund, FixedTypes, fixed
<1>5. OpenTypes' /\ HistoryTypes'
  BY OpenKept, DisturbTypes DEF Fund
<1>6. SimInv(s)'
  <2>1. pc'[s] = "market" /\ pc[s] = "fund"
    BY <1>1 DEF Fund, GoTo, LocalTypes
  <2> QED BY <1>4, <2>1 DEF IInv, Fund, SimInv, Trading, AfterBuy, Selling, LegPCs, InLeg, reading
<1> QED BY <1>2, <1>3, <1>4, <1>5, <1>6, OthersInv, TypesSplitNext DEF IInv

LEMMA FindMarketKeeps ==
    ASSUME IInv, NEW s \in Sims, FindMarket(s)
    PROVE  IInv'
<1>1. LocalTypes /\ FixedTypes
  BY TypesSplit DEF IInv
<1>2. UNCHANGED <<fixed, chain, history>> /\ target' = target /\ OpenTypes' /\ HistoryTypes'
  BY OpenKept, HistoryKept DEF FindMarket, fixed
<1>3. CASE ~target[s].pair /\ Finish(s, NoMarket("skipped"))
  BY <1>1, <1>2, <1>3, ResultsBuilt, Returns DEF FixedTypes
<1>4. CASE target[s].pair /\ ~target[s].quotesBuy /\ Finish(s, NoMarket("completed"))
  BY <1>1, <1>2, <1>4, ResultsBuilt, Returns DEF FixedTypes
<1>5. CASE /\ target[s].pair /\ target[s].quotesBuy
           /\ GoTo(s, "open")
           /\ UNCHANGED <<leg, legOk, reading, result, tx>>
  <2>1. LocalTypes' /\ OthersKeep(s) /\ pc'[s] = "open"
    BY <1>1, <1>5 DEF GoTo, LocalTypes, PCs, OthersKeep, reading
  <2>2. /\ pc[s] = "market" /\ leg' = leg /\ legOk' = legOk /\ moved' = moved
        /\ result' = result /\ tx' = tx
    BY <1>5 DEF FindMarket, reading
  <2>3. leg[s] = "buy"
    BY <2>2 DEF IInv, SimInv, Trading
  <2>4. SimInv(s)'
    BY <1>2, <1>5, <2>1, <2>2, <2>3 DEF IInv, SimInv, Trading, AfterBuy, Selling, LegPCs, InLeg
  <2> QED BY <1>2, <2>1, <2>4, GoesOn
<1> QED BY <1>3, <1>4, <1>5 DEF FindMarket

LEMMA ReadBoughtKeeps ==
    ASSUME IInv, NEW s \in Sims, ReadBought(s)
    PROVE  IInv'
<1> DEFINE balance == held[NodeOf(s)][target[s]]
<1>1. LocalTypes /\ ChainTypes /\ FixedTypes /\ NodeOf(s) \in Nodes
  BY TypesSplit, NodeOfType DEF IInv
<1>2. UNCHANGED <<fixed, chain, history>> /\ target' = target /\ OpenTypes' /\ HistoryTypes'
  BY OpenKept, HistoryKept DEF ReadBought, fixed
<1>3. balance \in Nat
  BY <1>1 DEF ChainTypes, FixedTypes
<1>4. LocalTypes'
  <2>1. pc' \in [Sims -> PCs] /\ leg' \in [Sims -> Legs]
    BY <1>1 DEF ReadBought, GoTo, LocalTypes, PCs, Legs
  <2>2. actual' \in [Sims -> Nat]
    BY <1>1, <1>3 DEF ReadBought, LocalTypes
  <2> QED BY <1>1, <2>1, <2>2 DEF ReadBought, LocalTypes
<1>5. OthersKeep(s)
  BY <1>1 DEF ReadBought, GoTo, OthersKeep, LocalTypes
<1>6. SimInv(s)'
  <2>1. /\ pc[s] = "bought" /\ legOk' = legOk /\ moved' = moved
        /\ result' = result /\ tx' = tx
        /\ \/ pc'[s] = "open" /\ leg'[s] = "transfer"
           \/ pc'[s] = "balance" /\ leg' = leg
    BY <1>1 DEF ReadBought, GoTo, LocalTypes
  <2> QED BY <1>2, <2>1 DEF IInv, SimInv, Trading, AfterBuy, Selling, LegPCs, InLeg
<1> QED BY <1>2, <1>4, <1>5, <1>6, GoesOn

LEMMA ReadSellableKeeps ==
    ASSUME IInv, NEW s \in Sims, ReadSellable(s)
    PROVE  IInv'
<1> DEFINE balance == held[NodeOf(s)][target[s]]
<1>1. LocalTypes /\ ChainTypes /\ FixedTypes /\ NodeOf(s) \in Nodes
  BY TypesSplit, NodeOfType DEF IInv
<1>2. UNCHANGED <<fixed, chain, history>> /\ target' = target /\ OpenTypes' /\ HistoryTypes'
      /\ pc[s] = "balance"
  BY OpenKept, HistoryKept DEF ReadSellable, fixed
<1>3. balance \in Nat
  BY <1>1 DEF ChainTypes, FixedTypes
<1>4. CASE Finish(s, Verdict("yes", "no", moved[s], BuyTax(s), NoTax))
  <2> DEFINE r == Verdict("yes", "no", moved[s], BuyTax(s), NoTax)
  <2>1. BuyTax(s) \in Int
    BY <1>1, TaxType, TradeAssumption DEF BuyTax, LocalTypes
  <2>2. r \in Results
    BY <1>1, <2>1 DEF Verdict, Results, Answers, NoTax, LocalTypes
  <2>3. YesOf(target[s], r)
    BY <1>2 DEF IInv, SimInv, Trading, AfterBuy, LegPCs, InLeg, YesOf, Verdict
  <2> QED BY <1>2, <1>4, <2>2, <2>3, Returns
<1>5. CASE /\ balance # 0 /\ moved[s] # "no"
           /\ sellable' = [sellable EXCEPT ![s] = balance]
           /\ GoTo(s, "ethBefore")
           /\ UNCHANGED <<leg, legOk, actual, moved, ethBefore, result, tx>>
  <2>1. LocalTypes' /\ OthersKeep(s) /\ pc'[s] = "ethBefore"
    BY <1>1, <1>3, <1>5 DEF GoTo, LocalTypes, PCs, OthersKeep
  <2>2. SimInv(s)'
    BY <1>2, <1>5, <2>1 DEF IInv, SimInv, Trading, AfterBuy, Selling, LegPCs, InLeg
  <2> QED BY <1>2, <2>1, <2>2, GoesOn
<1> QED BY <1>4, <1>5 DEF ReadSellable

LEMMA ReadEthBeforeKeeps ==
    ASSUME IInv, NEW s \in Sims, ReadEthBefore(s)
    PROVE  IInv'
<1>1. LocalTypes /\ ChainTypes /\ FixedTypes /\ NodeOf(s) \in Nodes
  BY TypesSplit, NodeOfType DEF IInv
<1>2. UNCHANGED <<fixed, chain, history>> /\ target' = target /\ OpenTypes' /\ HistoryTypes'
  BY OpenKept, HistoryKept DEF ReadEthBefore, fixed
<1>3. eth[NodeOf(s)] \in Int
  BY <1>1 DEF ChainTypes
<1>4. LocalTypes' /\ OthersKeep(s)
  BY <1>1, <1>3 DEF ReadEthBefore, GoTo, LocalTypes, PCs, Legs, OthersKeep
<1>5. /\ pc[s] = "ethBefore" /\ pc'[s] = "open" /\ leg'[s] = "approve"
      /\ legOk' = legOk /\ moved' = moved /\ result' = result /\ tx' = tx
  BY <1>1 DEF ReadEthBefore, GoTo, LocalTypes
<1>6. SimInv(s)'
  BY <1>2, <1>5 DEF IInv, SimInv, Trading, AfterBuy, Selling, LegPCs, InLeg
<1> QED BY <1>2, <1>4, <1>6, GoesOn

LEMMA ReadEthAfterKeeps ==
    ASSUME IInv, NEW s \in Sims, ReadEthAfter(s)
    PROVE  IInv'
<1> DEFINE tax == SaleTax(target[s], sellable[s], eth[NodeOf(s)] - ethBefore[s])
           r == Verdict("yes", legOk[s], moved[s], BuyTax(s), tax)
<1>1. LocalTypes /\ ChainTypes /\ FixedTypes /\ NodeOf(s) \in Nodes
  BY TypesSplit, NodeOfType DEF IInv
<1>2. /\ UNCHANGED <<fixed, chain, history>> /\ OpenTypes' /\ pc[s] = "ethAfter"
      /\ Finish(s, r)
  BY OpenKept DEF ReadEthAfter
<1>3. BuyTax(s) \in Int
  BY <1>1, TaxType, TradeAssumption DEF BuyTax, LocalTypes
<1>4. tax \in Int
  <2>1. eth[NodeOf(s)] - ethBefore[s] \in Int
    BY <1>1 DEF LocalTypes, ChainTypes
  <2> QED BY <1>1, <2>1, SaleTaxType DEF LocalTypes, FixedTypes
<1>5. legOk[s] \in {"yes", "no"} /\ moved[s] \in Answers
  BY <1>1, <1>2 DEF IInv, SimInv, LocalTypes
<1>6. r \in Results
  BY <1>3, <1>4, <1>5 DEF Verdict, Results, Answers
<1>7. YesOf(target[s], r)
  BY <1>2, <1>5 DEF IInv, SimInv, Trading, AfterBuy, Selling, LegPCs, InLeg, YesOf, Verdict
<1> QED BY <1>2, <1>6, <1>7, Returns

LEMMA OpenKeeps ==
    ASSUME IInv, NEW s \in Sims, Open(s)
    PROVE  IInv'
<1>1. LocalTypes /\ OpenTypes /\ NodeOf(s) \in Nodes
  BY TypesSplit, NodeOfType DEF IInv
<1>2. UNCHANGED <<fixed, chain>> /\ target' = target /\ HistoryTypes'
  BY HistoryKept DEF Open, fixed
<1>3. OpenTypes'
  BY <1>1 DEF Open, OpenTypes, Nodes
<1>4. LocalTypes' /\ OthersKeep(s)
  BY <1>1 DEF Open, GoTo, LocalTypes, PCs, InLeg, OthersKeep, reading
<1>5. /\ pc[s] = "open" /\ pc'[s] = "send" /\ leg' = leg
      /\ legOk' = legOk /\ moved' = moved /\ result' = result /\ tx' = tx
  BY <1>1 DEF Open, GoTo, LocalTypes, reading
<1>6. SimInv(s)'
  BY <1>2, <1>5 DEF IInv, SimInv, Trading, AfterBuy, Selling, LegPCs, InLeg
<1> QED BY <1>2, <1>3, <1>4, <1>6, GoesOn

\* A call to open or close the impersonation that fails ends the simulation.
LEMMA OpenFailsKeeps ==
    ASSUME IInv, NEW s \in Sims, OpenFails(s) \/ CloseFails(s)
    PROVE  IInv'
<1>1. OpenTypes /\ NodeOf(s) \in Nodes /\ target[s] \in Targets
  BY TypesSplit, NodeOfType DEF IInv, FixedTypes
<1>2. OpenTypes'
  BY <1>1 DEF OpenFails, CloseFails, OpenTypes, Nodes
<1>3. Finish(s, NotRun) /\ UNCHANGED <<fixed, chain, history>>
  BY DEF OpenFails, CloseFails
<1> QED BY <1>1, <1>2, <1>3, ResultsBuilt, Returns

LEMMA SendKeeps ==
    ASSUME IInv, NEW s \in Sims, Send(s)
    PROVE  IInv'
<1>1. LocalTypes
  BY TypesSplit DEF IInv
<1>2. UNCHANGED <<fixed, chain>> /\ target' = target /\ HistoryTypes' /\ OpenTypes'
  BY OpenKept, HistoryKept DEF Send, fixed
<1>3. Amount(s) \in Nat
  BY <1>1 DEF Amount, LocalTypes
<1>4. LocalTypes' /\ OthersKeep(s)
  BY <1>1, <1>3 DEF Send, GoTo, LocalTypes, PCs, InLeg, OthersKeep, reading
<1>5. /\ pc[s] = "send" /\ pc'[s] = "wait" /\ leg' = leg
      /\ legOk' = legOk /\ moved' = moved /\ result' = result
      /\ tx'[s].state = "pending" /\ tx'[s].leg = leg[s]
  BY <1>1 DEF Send, GoTo, LocalTypes, reading
<1>6. SimInv(s)'
  BY <1>2, <1>5 DEF IInv, SimInv, Trading, AfterBuy, Selling, LegPCs, InLeg
<1> QED BY <1>2, <1>4, <1>6, GoesOn

\* A leg that closes with an outcome its transaction warrants.
LEMMA CloseWithKeeps ==
    ASSUME IInv, NEW s \in Sims, NEW ok \in {"yes", "no", "raise"}, CloseWith(s, ok),
           pc[s] \in {"send", "wait"},
           ok = "yes" => LegFacts(target[s], leg[s]) /\ leg[s] # "approve",
           UNCHANGED <<fixed, reading, result, chain, tx>>, OpenTypes', HistoryTypes'
    PROVE  IInv'
<1>1. LocalTypes /\ target' = target
  BY TypesSplit DEF IInv, fixed
<1>2. LocalTypes' /\ OthersKeep(s)
  BY <1>1 DEF CloseWith, GoTo, LocalTypes, PCs, InLeg, OthersKeep, reading
<1>3. /\ pc'[s] = "close" /\ leg' = leg /\ legOk'[s] = ok
      /\ moved' = moved /\ result' = result /\ tx' = tx
  BY <1>1 DEF CloseWith, GoTo, LocalTypes, reading
<1>4. SimInv(s)'
  BY <1>1, <1>3 DEF IInv, SimInv, Trading, AfterBuy, Selling, LegPCs, InLeg
<1> QED BY <1>2, <1>4, GoesOn

LEMMA ReceiptKeeps ==
    ASSUME IInv, NEW s \in Sims, Receipt(s)
    PROVE  IInv'
<1>1. LocalTypes
  BY TypesSplit DEF IInv
<1>2. UNCHANGED <<fixed, reading, result, chain, tx>> /\ target' = target
      /\ HistoryTypes' /\ OpenTypes' /\ pc[s] = "wait"
  BY OpenKept, HistoryKept DEF Receipt, fixed
<1>3. CASE tx[s].state = "ok" /\ leg[s] # "approve" /\ CloseWith(s, "yes")
  <2>1. LegFacts(target[s], leg[s])
    BY <1>2, <1>3 DEF IInv, SimInv
  <2> QED BY <1>2, <1>3, <2>1, CloseWithKeeps
<1>4. CASE tx[s].state = "reverted" /\ CloseWith(s, "no")
  BY <1>2, <1>4, CloseWithKeeps
<1>5. CASE /\ tx[s].state = "ok" /\ leg[s] = "approve"
           /\ GoTo(s, "send")
           /\ leg' = [leg EXCEPT ![s] = "sell"]
           /\ UNCHANGED legOk
  <2>1. LocalTypes' /\ OthersKeep(s)
    BY <1>1, <1>2, <1>5 DEF GoTo, LocalTypes, PCs, Legs, InLeg, OthersKeep, reading
  <2>2. /\ pc'[s] = "send" /\ leg'[s] = "sell" /\ legOk' = legOk
        /\ moved' = moved /\ result' = result /\ tx' = tx
    BY <1>1, <1>2, <1>5 DEF GoTo, LocalTypes, reading
  <2>3. SimInv(s)'
    BY <1>2, <1>5, <2>2 DEF IInv, SimInv, Trading, AfterBuy, Selling, LegPCs, InLeg
  <2> QED BY <1>2, <2>1, <2>3, GoesOn
<1> QED BY <1>3, <1>4, <1>5 DEF Receipt

LEMMA WaitEndsKeeps ==
    ASSUME IInv, NEW s \in Sims, WaitTimeout(s) \/ Raise(s)
    PROVE  IInv'
<1>1. CASE WaitTimeout(s)
  <2>1. HistoryTypes'
    BY <1>1, TypesSplit DEF IInv, WaitTimeout, HistoryTypes
  <2>2. /\ CloseWith(s, "no") /\ pc[s] = "wait" /\ OpenTypes'
        /\ UNCHANGED <<fixed, reading, result, chain, tx>>
    BY <1>1, OpenKept DEF WaitTimeout
  <2> QED BY <2>1, <2>2, CloseWithKeeps
<1>2. CASE Raise(s)
  <2>1. /\ CloseWith(s, "raise") /\ pc[s] \in {"send", "wait"} /\ OpenTypes' /\ HistoryTypes'
        /\ UNCHANGED <<fixed, reading, result, chain, tx>>
    BY <1>2, OpenKept, HistoryKept DEF Raise
  <2> QED BY <2>1, CloseWithKeeps
<1> QED BY <1>1, <1>2

LEMMA CloseKeeps ==
    ASSUME IInv, NEW s \in Sims, Close(s)
    PROVE  IInv'
<1>1. LocalTypes /\ OpenTypes /\ NodeOf(s) \in Nodes /\ target[s] \in Targets
  BY TypesSplit, NodeOfType DEF IInv, FixedTypes
<1>2. OpenTypes'
  BY <1>1 DEF Close, OpenTypes, Nodes
<1>3. UNCHANGED <<fixed, chain, history>> /\ target' = target /\ HistoryTypes' /\ pc[s] = "close"
  BY HistoryKept DEF Close, fixed
<1>4. CASE legOk[s] = "raise" /\ Finish(s, NotRun)
  BY <1>1, <1>2, <1>3, <1>4, ResultsBuilt, Returns
<1>5. CASE legOk[s] = "no" /\ leg[s] = "buy" /\ Finish(s, NoMarket("completed"))
  BY <1>1, <1>2, <1>3, <1>5, ResultsBuilt, Returns
<1>6. CASE /\ legOk[s] = "yes" \/ (legOk[s] = "no" /\ leg[s] # "buy")
           /\ GoTo(s, CASE leg[s] = "buy" -> "bought"
                        [] leg[s] = "transfer" -> "balance"
                        [] OTHER -> "ethAfter")
           /\ moved' = IF leg[s] = "transfer" THEN [moved EXCEPT ![s] = legOk[s]] ELSE moved
           /\ UNCHANGED <<leg, legOk, actual, sellable, ethBefore, result, tx>>
  <2>1. \/ leg[s] = "buy" /\ pc' = [pc EXCEPT ![s] = "bought"]
        \/ leg[s] = "transfer" /\ pc' = [pc EXCEPT ![s] = "balance"]
        \/ leg[s] \in {"approve", "sell"} /\ pc' = [pc EXCEPT ![s] = "ethAfter"]
    BY <1>1, <1>6 DEF GoTo, LocalTypes, Legs
  <2>2. LocalTypes' /\ OthersKeep(s)
    BY <1>1, <1>6, <2>1 DEF LocalTypes, PCs, Answers, OthersKeep
  <2>3. SimInv(s)'
    <3>1. CASE leg[s] = "buy" /\ pc'[s] = "bought"
      BY <1>3, <1>6, <3>1 DEF IInv, SimInv, Trading, AfterBuy, Selling, LegPCs, InLeg, LegFacts
    <3>2. CASE leg[s] = "transfer" /\ pc'[s] = "balance"
      <4>1. moved'[s] = legOk[s]
        BY <1>1, <1>6, <3>2 DEF LocalTypes
      <4> QED BY <1>3, <1>6, <3>2, <4>1
              DEF IInv, SimInv, Trading, AfterBuy, Selling, LegPCs, InLeg, LegFacts
    <3>3. CASE leg[s] \in {"approve", "sell"} /\ pc'[s] = "ethAfter"
      BY <1>3, <1>6, <3>3 DEF IInv, SimInv, Trading, AfterBuy, Selling, LegPCs, InLeg, LegFacts
    <3> QED BY <1>1, <2>1, <3>1, <3>2, <3>3 DEF LocalTypes
  <2> QED BY <1>2, <1>3, <2>2, <2>3, GoesOn
<1> QED BY <1>4, <1>5, <1>6 DEF Close

\* The node mines: what went through says what its target lets through.
LEMMA MineKeeps ==
    ASSUME IInv, NEW s \in Sims, Mine(s)
    PROVE  IInv'
<1> DEFINE n == NodeOf(s)
           t == target[s]
<1>1. LocalTypes /\ ChainTypes /\ FixedTypes /\ n \in Nodes /\ t \in Targets
  BY TypesSplit, NodeOfType DEF IInv, FixedTypes
<1>2. FixedTypes' /\ target' = target /\ OpenTypes' /\ HistoryTypes'
  BY <1>1, OpenKept, DisturbTypes DEF Mine, FixedTypes, fixed
<1>3. /\ UNCHANGED <<progress, reading, result>>
      /\ \/ Succeeds(s) /\ tx' = [tx EXCEPT ![s].state = "ok"]
         \/ ~Succeeds(s) /\ tx' = [tx EXCEPT ![s].state = "reverted"]
  BY DEF Mine
<1>4. LocalTypes' /\ OthersKeep(s)
  <2>1. PICK st \in {"ok", "reverted"} : tx' = [tx EXCEPT ![s].state = st]
    BY <1>3
  <2>2. tx' \in [Sims -> [state : {"none", "pending", "ok", "reverted"}, leg : Legs, amount : Nat]]
    BY <1>1, <2>1 DEF LocalTypes
  <2>3. \A x \in Sims \ {s} : tx'[x] = tx[x]
    BY <1>1, <2>1 DEF LocalTypes
  <2>4. /\ pc' = pc /\ leg' = leg /\ legOk' = legOk /\ actual' = actual /\ moved' = moved
        /\ sellable' = sellable /\ ethBefore' = ethBefore /\ result' = result
    BY <1>3 DEF progress, reading
  <2> QED BY <1>1, <2>2, <2>3, <2>4 DEF LocalTypes, OthersKeep
<1>5. SimInv(s)'
  <2>1. Succeeds(s) => LegFacts(t, tx[s].leg)
    BY <1>1 DEF Succeeds, LegFacts, IInv, NodeInv
  <2>2. tx'[s].leg = tx[s].leg /\ (tx'[s].state = "ok" => Succeeds(s)) /\ tx[s].state = "pending"
    BY <1>1, <1>3 DEF LocalTypes, Mine
  <2>3. pc' = pc /\ leg' = leg /\ legOk' = legOk /\ moved' = moved /\ result' = result
    BY <1>3 DEF progress, reading
  <2>4. tx'[s].state = "ok" => LegFacts(t, tx'[s].leg)
    BY <2>1, <2>2
  <2>5. SimInv(s)
    BY DEF IInv
  <2>6. pc'[s] = "wait" => tx'[s].leg = leg'[s]
    BY <2>2, <2>3, <2>5 DEF SimInv
  <2> QED BY <1>2, <2>3, <2>4, <2>5, <2>6
          DEF SimInv, Trading, AfterBuy, Selling
<1>6. ChainTypes' /\ NodeInv'
  <2>1. CASE Succeeds(s) /\ tx' = [tx EXCEPT ![s].state = "ok"]
    <3>1. /\ held' = [held EXCEPT ![n][t] = TokensAfter(s)]
          /\ eth' = [eth EXCEPT ![n] = EthAfter(s)]
          /\ approved' = IF tx[s].leg = "approve"
                            THEN [approved EXCEPT ![n] = @ \cup {t}] ELSE approved
      BY <1>1, <2>1 DEF Mine
    <3>2. held[n][t] \in Nat /\ tx[s].amount \in Nat /\ t.got \in Nat /\ eth[n] \in Int
      BY <1>1, FactTypes DEF ChainTypes, LocalTypes
    <3>3. TokensAfter(s) \in Nat
      <4>1. CASE tx[s].leg = "buy"
        BY <3>2, <4>1 DEF TokensAfter
      <4>2. CASE tx[s].leg = "approve"
        BY <3>2, <4>2 DEF TokensAfter
      <4>3. CASE tx[s].leg \in {"transfer", "sell"}
        BY <2>1, <3>2, <4>3 DEF TokensAfter, Succeeds
      <4> QED BY <1>1, <4>1, <4>2, <4>3 DEF LocalTypes, Legs
    <3>4. EthAfter(s) \in Int
      <4>1. Proceeds(t, tx[s].amount) \in Int
        BY <1>1, <3>2, ProceedsType
      <4> QED BY <3>2, <4>1, TradeAssumption DEF EthAfter
    <3>5. held' \in [Nodes -> [Targets -> Nat]] /\ eth' \in [Nodes -> Int]
      BY <1>1, <3>1, <3>3, <3>4 DEF ChainTypes
    <3>6. approved' \in [Nodes -> SUBSET Targets]
      BY <1>1, <3>1 DEF ChainTypes
    <3>7. tx[s].leg = "approve" => t.approves
      BY <2>1 DEF Succeeds
    <3>8. ASSUME NEW m \in Nodes, NEW u \in approved'[m] PROVE u.approves
      BY <1>1, <3>1, <3>7 DEF ChainTypes, IInv, NodeInv
    <3> QED BY <3>5, <3>6, <3>8 DEF ChainTypes, NodeInv, Nodes
  <2>2. CASE ~Succeeds(s) /\ tx' = [tx EXCEPT ![s].state = "reverted"]
    <3>1. UNCHANGED <<held, approved>> /\ eth' = [eth EXCEPT ![n] = @ - Gas]
      BY <1>1, <2>2 DEF Mine
    <3> QED BY <1>1, <3>1, TradeAssumption DEF IInv, ChainTypes, NodeInv, Nodes
  <2> QED BY <1>3, <2>1, <2>2
<1> QED BY <1>2, <1>4, <1>5, <1>6, OthersInv, TypesSplitNext DEF IInv

LEMMA InitIInv == Init => IInv
<1> SUFFICES ASSUME Init PROVE IInv
  OBVIOUS
<1>1. SimulationTypes
  BY ResultsBuilt, TradeAssumption DEF Init, SimulationTypes, PCs, Legs, Answers, NoTx, Nodes
<1>2. NodeInv
  BY DEF Init, NodeInv
<1>3. ASSUME NEW x \in Sims PROVE SimInv(x)
  <2>1. target[x] \in Targets
    BY <1>1 DEF SimulationTypes
  <2> QED BY <2>1, ResultsBuilt
          DEF Init, SimInv, Trading, AfterBuy, Selling, LegPCs, InLeg, NoTx
<1> QED BY <1>1, <1>2, <1>3 DEF IInv

LEMMA NextIInv == IInv /\ [Next]_vars => IInv'
<1> SUFFICES ASSUME IInv, [Next]_vars PROVE IInv'
  OBVIOUS
<1>1. CASE UNCHANGED vars
  BY <1>1 DEF IInv, SimulationTypes, NodeInv, SimInv, Trading, AfterBuy, Selling, Nodes,
              vars, fixed, progress, reading, chain, history
<1>2. ASSUME NEW s \in Sims, Proceed(s) PROVE IInv'
  BY <1>2, NotSimulatedKeeps, ResetForkKeeps, FundKeeps, FindMarketKeeps, ReadBoughtKeeps,
     ReadSellableKeeps, ReadEthBeforeKeeps, ReadEthAfterKeeps, OpenKeeps, SendKeeps,
     ReceiptKeeps, WaitEndsKeeps, CloseKeeps DEF Proceed
<1>3. ASSUME NEW s \in Sims, Fail(s) PROVE IInv'
  BY <1>3, NotSimulatedKeeps, OpenFailsKeeps, WaitEndsKeeps DEF Fail
<1>4. ASSUME NEW s \in Sims, Mine(s) PROVE IInv'
  BY <1>4, MineKeeps
<1> QED BY <1>1, <1>2, <1>3, <1>4 DEF Next, Finished

THEOREM SimulationInvariant == Spec => []IInv
<1> QED BY InitIInv, NextIInv, PTL DEF Spec

\* Every variable of the simulations and of the node keeps its type.
THEOREM SimulationsAreTyped == Spec => []SimulationTypes
<1>1. IInv => SimulationTypes
  BY DEF IInv
<1> QED BY <1>1, SimulationInvariant, PTL

\* However the scans share the node and whatever times out, a "yes" of a verdict
\* is true of the target (TradeSimulator.simulate).
THEOREM YesIsNeverWrong == Spec => []YesMeansItHappened
<1>1. IInv => YesMeansItHappened
  BY DEF IInv, SimInv, YesOf, YesMeansItHappened
<1> QED BY <1>1, SimulationInvariant, PTL

-----------------------------------------------------------------------------
(* The impersonation.                                                      *)

\* What of a step matters to the impersonation: a simulation in a leg stays in
\* one unless it closes it.
LEMMA NextImpersonation ==
    IInv /\ ImpersonationClosed /\ [Next]_vars => ImpersonationClosed'
<1> SUFFICES ASSUME IInv, ImpersonationClosed, [Next]_vars,
                    NEW n \in Nodes, impersonated'[n]
             PROVE  n \in abandoned' \/ \E x \in Sims : NodeOf(x)' = n /\ pc'[x] \in InLeg
  BY DEF ImpersonationClosed, Nodes
<1>1. LocalTypes /\ OpenTypes
  BY TypesSplit DEF IInv
<1>2. ASSUME UNCHANGED <<fixed, impersonated, abandoned>>,
             \A x \in Sims : pc[x] \in InLeg => pc'[x] \in InLeg
      PROVE  n \in abandoned' \/ \E x \in Sims : NodeOf(x)' = n /\ pc'[x] \in InLeg
  BY <1>2 DEF ImpersonationClosed, NodeOf, fixed
<1>3. CASE UNCHANGED vars
  BY <1>2, <1>3 DEF vars, progress
<1>4. ASSUME NEW s \in Sims,
             \/ NotSimulated(s) \/ ResetFork(s) \/ Fund(s) \/ FindMarket(s) \/ ReadBought(s)
             \/ ReadSellable(s) \/ ReadEthBefore(s) \/ ReadEthAfter(s) \/ CallFails(s)
      PROVE  n \in abandoned' \/ \E x \in Sims : NodeOf(x)' = n /\ pc'[x] \in InLeg
  <2>1. /\ UNCHANGED <<fixed, impersonated, abandoned>> /\ pc[s] \notin InLeg
        /\ \A x \in Sims \ {s} : pc'[x] = pc[x]
    BY <1>1, <1>4 DEF NotSimulated, ResetFork, Fund, FindMarket, ReadBought, ReadSellable,
                      ReadEthBefore, ReadEthAfter, CallFails, Finish, GoTo, LocalTypes, InLeg
  <2> QED BY <1>2, <2>1
<1>5. ASSUME NEW s \in Sims, Send(s) \/ Receipt(s) \/ WaitTimeout(s) \/ Raise(s)
      PROVE  n \in abandoned' \/ \E x \in Sims : NodeOf(x)' = n /\ pc'[x] \in InLeg
  <2>1. /\ UNCHANGED <<fixed, impersonated, abandoned>> /\ pc'[s] \in InLeg
        /\ \A x \in Sims \ {s} : pc'[x] = pc[x]
    BY <1>1, <1>5 DEF Send, Receipt, WaitTimeout, Raise, CloseWith, GoTo, LocalTypes, InLeg
  <2> QED BY <1>2, <2>1
<1>6. ASSUME NEW s \in Sims, Mine(s)
      PROVE  n \in abandoned' \/ \E x \in Sims : NodeOf(x)' = n /\ pc'[x] \in InLeg
  BY <1>2, <1>6 DEF Mine, progress
<1>7. ASSUME NEW s \in Sims, Open(s)
      PROVE  n \in abandoned' \/ \E x \in Sims : NodeOf(x)' = n /\ pc'[x] \in InLeg
  <2>1. /\ UNCHANGED <<fixed, abandoned>> /\ pc[s] \notin InLeg /\ pc'[s] \in InLeg
        /\ \A x \in Sims \ {s} : pc'[x] = pc[x]
        /\ n # NodeOf(s) => impersonated[n]
    BY <1>1, <1>7 DEF Open, GoTo, LocalTypes, OpenTypes, InLeg
  <2> QED BY <2>1 DEF ImpersonationClosed, NodeOf, fixed
<1>8. ASSUME NEW s \in Sims, OpenFails(s)
      PROVE  n \in abandoned' \/ \E x \in Sims : NodeOf(x)' = n /\ pc'[x] \in InLeg
  <2>1. /\ UNCHANGED fixed /\ pc[s] \notin InLeg /\ abandoned \subseteq abandoned'
        /\ \A x \in Sims \ {s} : pc'[x] = pc[x]
        /\ impersonated[n] \/ n \in abandoned'
    BY <1>1, <1>8 DEF OpenFails, Finish, GoTo, LocalTypes, OpenTypes, InLeg
  <2> QED BY <2>1 DEF ImpersonationClosed, NodeOf, fixed
<1>9. ASSUME NEW s \in Sims, Close(s) \/ CloseFails(s)
      PROVE  n \in abandoned' \/ \E x \in Sims : NodeOf(x)' = n /\ pc'[x] \in InLeg
  <2>1. UNCHANGED fixed /\ \A x \in Sims \ {s} : pc'[x] = pc[x]
    BY <1>1, <1>9 DEF Close, CloseFails, Finish, GoTo, LocalTypes
  <2>2. NodeOf(s) \in Nodes
    BY TypesSplit, NodeOfType DEF IInv
  <2>3. \/ /\ impersonated' = [impersonated EXCEPT ![NodeOf(s)] = FALSE]
           /\ abandoned' = abandoned \ {NodeOf(s)}
        \/ impersonated' = impersonated /\ abandoned' = abandoned \cup {NodeOf(s)}
    BY <1>9 DEF Close, CloseFails
  <2>4. /\ n \in abandoned' \/ n # NodeOf(s)
        /\ n # NodeOf(s) => impersonated[n] /\ (n \in abandoned => n \in abandoned')
    BY <1>1, <2>2, <2>3 DEF OpenTypes
  <2> QED BY <2>1, <2>4 DEF ImpersonationClosed, NodeOf, fixed
<1> QED BY <1>3, <1>4, <1>5, <1>6, <1>7, <1>8, <1>9 DEF Next, Finished, Proceed, Fail

\* The finally blocks: nobody stays impersonated on a node that no simulation is
\* using, unless a call to open or to close it failed.
THEOREM ImpersonationEnds == Spec => []ImpersonationClosed
<1>1. Init => ImpersonationClosed
  BY DEF Init, ImpersonationClosed
<1> QED BY <1>1, SimulationInvariant, NextImpersonation, PTL DEF Spec
-----------------------------------------------------------------------------
(* How a simulation comes to its end.                                      *)

\* How many steps a simulation is at most away from its end, when its next one is p of
\* leg l.
LegSteps == [buy |-> 16, transfer |-> 11, approve |-> 5, sell |-> 2]
StepsInLeg == [open |-> 3, send |-> 2, wait |-> 1, close |-> 0]
OtherSteps ==
    [reset |-> 22, fund |-> 21, market |-> 20, bought |-> 15, balance |-> 10, ethBefore |-> 9,
     ethAfter |-> 1, done |-> 0]
StepsFrom(p, l) == IF p \in LegPCs THEN LegSteps[l] + StepsInLeg[p] ELSE OtherSteps[p]
StepsLeft(x) == StepsFrom(pc[x], leg[x])

\* A step of the simulation x takes it nearer to its end.
Nearer(x) ==
    /\ pc' = [pc EXCEPT ![x] = pc'[x]]
    /\ leg' = [leg EXCEPT ![x] = leg'[x]]
    /\ StepsFrom(pc'[x], leg'[x]) < StepsFrom(pc[x], leg[x])

\* Only at its end it has no step left.
LEMMA StepsCounted ==
    ASSUME NEW p \in PCs, NEW l \in Legs
    PROVE  /\ StepsFrom(p, l) \in 0 .. 22
           /\ StepsFrom(p, l) = 0 <=> p = "done"
BY DEF StepsFrom, LegPCs, InLeg, LegSteps, StepsInLeg, OtherSteps, PCs, Legs

\* What ends a simulation takes it there at once.
LEMMA EndIsNearer ==
    ASSUME SimulationTypes, NEW x \in Sims, NEW r, pc[x] # "done", Finish(x, r)
    PROVE  Nearer(x)
<1>1. pc \in [Sims -> PCs] /\ leg \in [Sims -> Legs]
    BY DEF SimulationTypes
<1>2. pc' = [pc EXCEPT ![x] = "done"] /\ leg' = [leg EXCEPT ![x] = "buy"]
    BY DEF Finish, GoTo
<1>3. pc'[x] = "done" /\ leg'[x] = "buy" /\ StepsFrom("done", "buy") = 0
    BY <1>1, <1>2 DEF StepsFrom, LegPCs, InLeg, LegSteps, StepsInLeg, OtherSteps
<1>4. StepsFrom(pc[x], leg[x]) \in 0 .. 22 /\ StepsFrom(pc[x], leg[x]) # 0
    BY <1>1, StepsCounted
<1>5. StepsFrom(pc'[x], leg'[x]) < StepsFrom(pc[x], leg[x])
    BY <1>3, <1>4
<1> QED BY <1>2, <1>3, <1>5 DEF Nearer

\* So does going on to a later one.
LEMMA GoingOnIsNearer ==
    ASSUME SimulationTypes, NEW x \in Sims, NEW p \in PCs, NEW l \in Legs,
           GoTo(x, p), leg' = [leg EXCEPT ![x] = l],
           StepsFrom(p, l) < StepsFrom(pc[x], leg[x])
    PROVE  Nearer(x)
BY DEF Nearer, GoTo, SimulationTypes

\* A leg that stays is one written again.
LEMMA LegKept == ASSUME SimulationTypes, NEW x \in Sims, UNCHANGED leg PROVE leg' = [leg EXCEPT ![x] = leg[x]]
BY DEF SimulationTypes

\* Each step of a simulation, answered or failing, takes it nearer to its end.
LEMMA StepIsNearer ==
    ASSUME SimulationTypes, NEW x \in Sims, Proceed(x) \/ Fail(x)
    PROVE  Nearer(x)
<1>0. pc[x] \in PCs /\ leg[x] \in Legs /\ legOk[x] \in {"yes", "no", "raise"}
    BY DEF SimulationTypes
<1>1. CASE \E r : pc[x] # "done" /\ Finish(x, r)
    BY <1>1, EndIsNearer
<1>2. CASE ResetFork(x)
    <2>1. StepsFrom("fund", leg[x]) < StepsFrom("reset", leg[x])
        BY DEF StepsFrom, LegPCs, InLeg, LegSteps, StepsInLeg, OtherSteps
    <2> QED BY <1>0, <1>2, <2>1, LegKept, GoingOnIsNearer DEF ResetFork, PCs
<1>3. CASE Fund(x)
    <2>1. StepsFrom("market", leg[x]) < StepsFrom("fund", leg[x])
        BY DEF StepsFrom, LegPCs, InLeg, LegSteps, StepsInLeg, OtherSteps
    <2> QED BY <1>0, <1>3, <2>1, LegKept, GoingOnIsNearer DEF Fund, PCs
<1>4. CASE pc[x] = "market" /\ GoTo(x, "open") /\ UNCHANGED leg
    <2>1. StepsFrom("open", leg[x]) < StepsFrom("market", leg[x])
        BY <1>0 DEF StepsFrom, LegPCs, InLeg, LegSteps, StepsInLeg, OtherSteps, Legs
    <2> QED BY <1>0, <1>4, <2>1, LegKept, GoingOnIsNearer DEF PCs
<1>5. CASE ReadBought(x)
    <2>1. StepsFrom("open", "transfer") < StepsFrom("bought", leg[x]) /\ StepsFrom("balance", leg[x]) < StepsFrom("bought", leg[x])
        BY DEF StepsFrom, LegPCs, InLeg, LegSteps, StepsInLeg, OtherSteps
    <2>2. CASE GoTo(x, "open") /\ leg' = [leg EXCEPT ![x] = "transfer"]
        BY <1>0, <1>5, <2>1, <2>2, GoingOnIsNearer DEF ReadBought, PCs, Legs
    <2>3. CASE GoTo(x, "balance") /\ UNCHANGED leg
        BY <1>0, <1>5, <2>1, <2>3, LegKept, GoingOnIsNearer DEF ReadBought, PCs, Legs
    <2> QED BY <1>5, <2>2, <2>3 DEF ReadBought
<1>6. CASE pc[x] = "balance" /\ GoTo(x, "ethBefore") /\ UNCHANGED leg
    <2>1. StepsFrom("ethBefore", leg[x]) < StepsFrom("balance", leg[x])
        BY DEF StepsFrom, LegPCs, InLeg, LegSteps, StepsInLeg, OtherSteps
    <2> QED BY <1>0, <1>6, <2>1, LegKept, GoingOnIsNearer DEF PCs
<1>7. CASE ReadEthBefore(x)
    <2>1. StepsFrom("open", "approve") < StepsFrom("ethBefore", leg[x])
        BY DEF StepsFrom, LegPCs, InLeg, LegSteps, StepsInLeg, OtherSteps
    <2> QED BY <1>0, <1>7, <2>1, GoingOnIsNearer DEF ReadEthBefore, PCs, Legs
<1>8. CASE Open(x)
    <2>1. StepsFrom("send", leg[x]) < StepsFrom("open", leg[x])
        BY <1>0 DEF StepsFrom, LegPCs, InLeg, LegSteps, StepsInLeg, OtherSteps, Legs
    <2> QED BY <1>0, <1>8, <2>1, LegKept, GoingOnIsNearer DEF Open, PCs, InLeg
<1>9. CASE Send(x)
    <2>1. StepsFrom("wait", leg[x]) < StepsFrom("send", leg[x])
        BY <1>0 DEF StepsFrom, LegPCs, InLeg, LegSteps, StepsInLeg, OtherSteps, Legs
    <2> QED BY <1>0, <1>9, <2>1, LegKept, GoingOnIsNearer DEF Send, PCs, InLeg
<1>10. CASE pc[x] \in {"send", "wait"} /\ \E ok : CloseWith(x, ok)
    <2>1. StepsFrom("close", leg[x]) < StepsFrom("send", leg[x]) /\ StepsFrom("close", leg[x]) < StepsFrom("wait", leg[x])
        BY <1>0 DEF StepsFrom, LegPCs, InLeg, LegSteps, StepsInLeg, OtherSteps, Legs
    <2> QED BY <1>0, <1>10, <2>1, LegKept, GoingOnIsNearer DEF CloseWith, PCs, InLeg
<1>11. CASE pc[x] = "wait" /\ leg[x] = "approve" /\ GoTo(x, "send") /\ leg' = [leg EXCEPT ![x] = "sell"]
    <2>1. StepsFrom("send", "sell") < StepsFrom("wait", "approve")
        BY DEF StepsFrom, LegPCs, InLeg, LegSteps, StepsInLeg, OtherSteps
    <2> QED BY <1>11, <2>1, GoingOnIsNearer DEF PCs, InLeg, Legs
<1>12. CASE /\ pc[x] = "close" /\ UNCHANGED leg
            /\ GoTo(x, CASE leg[x] = "buy" -> "bought" [] leg[x] = "transfer" -> "balance" [] OTHER -> "ethAfter")
    <2> DEFINE p == CASE leg[x] = "buy" -> "bought" [] leg[x] = "transfer" -> "balance" [] OTHER -> "ethAfter"
    <2>1. p \in PCs /\ StepsFrom(p, leg[x]) < StepsFrom("close", leg[x])
        BY <1>0 DEF StepsFrom, LegPCs, InLeg, LegSteps, StepsInLeg, OtherSteps, Legs, PCs
    <2>2. GoTo(x, p)
        BY <1>12
    <2> HIDE DEF p
    <2> QED BY <1>0, <1>12, <2>1, <2>2, LegKept, GoingOnIsNearer
<1>13. Proceed(x) => \/ \E r : pc[x] # "done" /\ Finish(x, r)
                     \/ ResetFork(x) \/ Fund(x) \/ ReadBought(x) \/ ReadEthBefore(x) \/ Open(x) \/ Send(x)
                     \/ pc[x] = "market" /\ GoTo(x, "open") /\ UNCHANGED leg
                     \/ pc[x] = "balance" /\ GoTo(x, "ethBefore") /\ UNCHANGED leg
                     \/ pc[x] \in {"send", "wait"} /\ \E ok : CloseWith(x, ok)
                     \/ pc[x] = "wait" /\ leg[x] = "approve" /\ GoTo(x, "send") /\ leg' = [leg EXCEPT ![x] = "sell"]
                     \/ /\ pc[x] = "close" /\ UNCHANGED leg
                        /\ GoTo(x, CASE leg[x] = "buy" -> "bought" [] leg[x] = "transfer" -> "balance" [] OTHER -> "ethAfter")
    <2> HIDE DEF Finish, GoTo, CloseWith
    <2>1. CASE NotSimulated(x) \/ FindMarket(x) \/ ReadSellable(x) \/ ReadEthAfter(x)
        BY <2>1, Zenon DEF NotSimulated, FindMarket, ReadSellable, ReadEthAfter
    <2>2. CASE Receipt(x) \/ WaitTimeout(x)
        BY <2>2 DEF Receipt, WaitTimeout
    <2>3. CASE Close(x)
        BY <2>3 DEF Close
    <2> QED BY <2>1, <2>2, <2>3 DEF Proceed
<1>14. Fail(x) => \/ \E r : pc[x] # "done" /\ Finish(x, r)
                  \/ pc[x] \in {"send", "wait"} /\ \E ok : CloseWith(x, ok)
    BY DEF Fail, CallFails, OpenFails, Raise, CloseFails
<1> QED BY <1>1, <1>2, <1>3, <1>4, <1>5, <1>6, <1>7, <1>8, <1>9, <1>10, <1>11, <1>12, <1>13, <1>14

\* Each step of a simulation, answered or failing, takes it nearer to its end, and nothing
\* the other scans or the node do takes it farther away.
StepsRunOut ==
    \A x \in Sims :
        /\ StepsLeft(x)' <= StepsLeft(x)
        /\ Proceed(x) \/ Fail(x) => StepsLeft(x)' < StepsLeft(x)

\* No simulation takes more than 22 steps, EverySimulationEnds but for its fairness: simulate
\* has no loop but the wait for a receipt, which has a deadline, and nobody sends it back.
THEOREM SimulationsRunOut ==
    Spec => /\ [](\A x \in Sims : StepsLeft(x) \in 0 .. 22 /\ (StepsLeft(x) = 0 <=> pc[x] = "done"))
            /\ [][StepsRunOut]_vars
<1>1. SimulationTypes => \A x \in Sims : StepsLeft(x) \in 0 .. 22 /\ (StepsLeft(x) = 0 <=> pc[x] = "done")
    BY StepsCounted DEF SimulationTypes, StepsLeft
<1>2. ASSUME SimulationTypes, SimulationTypes', Next PROVE StepsRunOut
    <2>1. ASSUME NEW x \in Sims PROVE StepsLeft(x)' <= StepsLeft(x)
        <3>1. StepsLeft(x) \in 0 .. 22 /\ StepsLeft(x)' \in 0 .. 22
            BY <1>2, StepsCounted DEF SimulationTypes, StepsLeft
        <3>2. CASE pc'[x] = pc[x] /\ leg'[x] = leg[x]
            BY <3>1, <3>2 DEF StepsLeft
        <3>3. CASE Nearer(x)
            BY <3>1, <3>3 DEF StepsLeft, Nearer
        <3>4. ASSUME NEW y \in Sims, y # x, Nearer(y) PROVE pc'[x] = pc[x] /\ leg'[x] = leg[x]
            BY <1>2, <3>4 DEF Nearer, SimulationTypes
        <3>5. ASSUME NEW y \in Sims, Mine(y) PROVE pc'[x] = pc[x] /\ leg'[x] = leg[x]
            BY <3>5 DEF Mine, progress
        <3>6. ASSUME Finished PROVE pc'[x] = pc[x] /\ leg'[x] = leg[x]
            BY <3>6 DEF Finished, vars, progress
        <3> QED BY <1>2, <3>2, <3>3, <3>4, <3>5, <3>6, StepIsNearer DEF Next
    <2>2. ASSUME NEW x \in Sims, Proceed(x) \/ Fail(x) PROVE StepsLeft(x)' < StepsLeft(x)
        BY <1>2, <2>2, StepIsNearer DEF Nearer, StepsLeft
    <2> QED BY <2>1, <2>2 DEF StepsRunOut
<1> QED BY <1>1, <1>2, SimulationsAreTyped, PTL DEF Spec
-----------------------------------------------------------------------------
(* What a simulation finds when nobody disturbs it.                        *)

Clean(x) == ~disturbed[x] /\ ~timedOut[x]

\* The buyer's tokens of the target on the node, and what the sale brought so far.
Tokens(x) == held[NodeOf(x)][target[x]]
Gain(x) == eth[NodeOf(x)] - ethBefore[x]

\* How far the transaction of the leg is: not on the chain yet, or with its outcome.
InLegOf(x, l) == pc[x] \in LegPCs /\ leg[x] = l
Unmined(x) == pc[x] \in {"open", "send"} \/ (pc[x] = "wait" /\ tx[x].state = "pending")
Through(x) == (pc[x] = "wait" /\ tx[x].state = "ok") \/ (pc[x] = "close" /\ legOk[x] = "yes")
Reverted(x) == (pc[x] = "wait" /\ tx[x].state = "reverted") \/ (pc[x] = "close" /\ legOk[x] = "no")

NotYetMoved(x) ==
    pc[x] \in {"reset", "fund", "market", "bought"} \/ InLegOf(x, "buy") \/ InLegOf(x, "transfer")

\* Its transactions are its own and mined while it waits for them.
OwnTx(x) ==
    /\ pc[x] = "wait" => tx[x].state # "none" /\ tx[x].leg = leg[x] /\ tx[x].amount = Amount(x)
    /\ tx[x].state = "pending" => pc[x] \in {"reset", "wait", "done"} \/ (pc[x] = "close" /\ legOk[x] = "raise")

BuyInv(x) ==
    LET t == target[x] IN
    /\ pc[x] \in {"fund", "market"} => Tokens(x) = 0
    /\ InLegOf(x, "buy") =>
          /\ Unmined(x) => Tokens(x) = 0
          /\ Through(x) => Tokens(x) = t.got
          /\ Reverted(x) => ~t.buyable
    /\ pc[x] = "bought" => Tokens(x) = t.got

TransferInv(x) ==
    LET t == target[x] IN
    /\ NotYetMoved(x) => moved[x] = "untested"
    /\ InLegOf(x, "transfer") =>
          /\ actual[x] = t.got /\ t.got >= 4
          /\ Unmined(x) => Tokens(x) = t.got
          /\ Through(x) => Tokens(x) = Kept(t)
          /\ Reverted(x) => ~t.movable
    /\ pc[x] = "balance" =>
          /\ actual[x] = t.got /\ moved[x] = CanTransfer(t)
          /\ moved[x] # "no" => Tokens(x) = Kept(t)

SaleInv(x) ==
    LET t == target[x] IN
    /\ Selling(x) =>
          /\ actual[x] = t.got /\ moved[x] = CanTransfer(t)
          /\ sellable[x] = Kept(t) /\ t.got > 0
          /\ pc[x] = "ethBefore" \/ Unmined(x) \/ (leg[x] = "approve" /\ Through(x)) => Tokens(x) = Kept(t)
    /\ InLegOf(x, "approve") =>
          /\ Unmined(x) => Gain(x) = 0
          /\ Through(x) => Gain(x) = 0 - Gas /\ t \in approved[NodeOf(x)] /\ t.approves
          /\ Reverted(x) => ~t.approves
    /\ InLegOf(x, "sell") =>
          /\ t.approves
          /\ Unmined(x) => Gain(x) = 0 - Gas /\ t \in approved[NodeOf(x)]
          /\ Through(x) => t.sellable /\ Gain(x) = Proceeds(t, Kept(t)) - 2 * Gas
          /\ Reverted(x) => ~t.sellable
    /\ pc[x] = "ethAfter" =>
          /\ legOk[x] = "yes" => Gain(x) = Proceeds(t, Kept(t)) - 2 * Gas
          /\ legOk[x] = "no" => ~(t.approves /\ t.sellable)

VerdictInv(x) == result[x].status # "not_run" => AloneVerdict(target[x], result[x])

AloneInv(x) == Clean(x) => OwnTx(x) /\ BuyInv(x) /\ TransferInv(x) /\ SaleInv(x) /\ VerdictInv(x)

AllAlone == \A x \in Sims : AloneInv(x)

\* What is left and what may be moved of the tokens bought.
LEMMA QuarterFacts ==
    ASSUME NEW t \in Targets
    PROVE  /\ Kept(t) \in Nat /\ t.got \div 4 \in Nat /\ t.got \div 4 <= t.got
           /\ (t.got \div 4 > 0) = (t.got >= 4)
           /\ t.got < 4 => Kept(t) = t.got
           /\ Kept(t) = 0 <=> t.got = 0
BY FactTypes DEF Kept

\* A step of s that changes nothing of the others, or marks those it disturbs.
OthersCalm(s) ==
    \A x \in Sims \ {s} :
        /\ pc'[x] = pc[x] /\ leg'[x] = leg[x] /\ legOk'[x] = legOk[x] /\ actual'[x] = actual[x]
        /\ moved'[x] = moved[x] /\ sellable'[x] = sellable[x] /\ ethBefore'[x] = ethBefore[x]
        /\ result'[x] = result[x]
        /\ Clean(x)' => /\ Clean(x)
                        /\ \/ pc[x] \in {"reset", "done"}
                           \/ /\ held'[NodeOf(x)] = held[NodeOf(x)]
                              /\ approved'[NodeOf(x)] = approved[NodeOf(x)]
                              /\ eth'[NodeOf(x)] = eth[NodeOf(x)] /\ tx'[x] = tx[x]

LEMMA OthersStayAlone ==
    ASSUME AllAlone, NEW s \in Sims, OthersCalm(s), UNCHANGED fixed, AloneInv(s)'
    PROVE  AllAlone'
<1> SUFFICES ASSUME NEW x \in Sims \ {s}, Clean(x)' PROVE AloneInv(x)'
  BY DEF AllAlone, AloneInv
<1>1. /\ pc'[x] = pc[x] /\ leg'[x] = leg[x] /\ legOk'[x] = legOk[x] /\ actual'[x] = actual[x]
      /\ moved'[x] = moved[x] /\ sellable'[x] = sellable[x] /\ ethBefore'[x] = ethBefore[x]
      /\ result'[x] = result[x] /\ target' = target /\ NodeOf(x)' = NodeOf(x) /\ AloneInv(x) /\ Clean(x)
  BY DEF OthersCalm, fixed, NodeOf, AllAlone
<1>2. CASE /\ held'[NodeOf(x)] = held[NodeOf(x)] /\ approved'[NodeOf(x)] = approved[NodeOf(x)]
           /\ eth'[NodeOf(x)] = eth[NodeOf(x)] /\ tx'[x] = tx[x]
  <2>1. Tokens(x)' = Tokens(x) /\ Gain(x)' = Gain(x) /\ approved'[NodeOf(x)'] = approved[NodeOf(x)]
    BY <1>1, <1>2 DEF Tokens, Gain
  <2>2. OwnTx(x)' = OwnTx(x) /\ VerdictInv(x)' = VerdictInv(x)
    BY <1>1, <1>2 DEF OwnTx, Amount, VerdictInv
  <2>3. /\ \A l : InLegOf(x, l)' = InLegOf(x, l)
        /\ Unmined(x)' = Unmined(x) /\ Through(x)' = Through(x) /\ Reverted(x)' = Reverted(x)
        /\ NotYetMoved(x)' = NotYetMoved(x) /\ Selling(x)' = Selling(x)
    BY <1>1, <1>2 DEF InLegOf, Unmined, Through, Reverted, NotYetMoved, Selling
  <2>4. BuyInv(x)' = BuyInv(x) /\ TransferInv(x)' = TransferInv(x) /\ SaleInv(x)' = SaleInv(x)
    BY <1>1, <2>1, <2>3 DEF BuyInv, TransferInv, SaleInv
  <2> QED BY <1>1, <2>2, <2>4 DEF AloneInv
<1>3. CASE pc[x] \in {"reset", "done"}
  BY <1>1, <1>3 DEF AloneInv, OwnTx, BuyInv, TransferInv, SaleInv, VerdictInv, InLegOf, LegPCs, InLeg, NotYetMoved,
                    Selling
<1> QED BY <1>2, <1>3 DEF OthersCalm

\* A call that is not about the chain is nobody else's concern, and one that is
\* marks those it may concern.
LEMMA LocalIsCalm ==
    ASSUME IInv, NEW s \in Sims, UNCHANGED <<fixed, chain, disturbed>>,
           \A x \in Sims \ {s} :
               /\ pc'[x] = pc[x] /\ leg'[x] = leg[x] /\ legOk'[x] = legOk[x] /\ actual'[x] = actual[x]
               /\ moved'[x] = moved[x] /\ sellable'[x] = sellable[x] /\ ethBefore'[x] = ethBefore[x]
               /\ result'[x] = result[x] /\ tx'[x] = tx[x] /\ timedOut'[x] = timedOut[x]
    PROVE  OthersCalm(s)
BY DEF OthersCalm, Clean, chain

LEMMA FinishIsCalm ==
    ASSUME IInv, NEW s \in Sims, NEW r, Finish(s, r), UNCHANGED <<fixed, chain, history>>
    PROVE  OthersCalm(s)
<1>1. LocalTypes
  BY TypesSplit DEF IInv
<1>2. \A x \in Sims \ {s} :
         /\ pc'[x] = pc[x] /\ leg'[x] = leg[x] /\ legOk'[x] = legOk[x] /\ actual'[x] = actual[x]
         /\ moved'[x] = moved[x] /\ sellable'[x] = sellable[x] /\ ethBefore'[x] = ethBefore[x]
         /\ result'[x] = result[x] /\ tx'[x] = tx[x] /\ timedOut'[x] = timedOut[x]
  BY <1>1 DEF Finish, GoTo, LocalTypes, history
<1> QED BY <1>2, LocalIsCalm DEF history

\* simulate returns a result that is the one for its target, or none.
LEMMA FinishAlone ==
    ASSUME IInv, AllAlone, NEW s \in Sims, NEW r, Finish(s, r), UNCHANGED <<fixed, chain, history>>,
           Clean(s) /\ r.status # "not_run" => AloneVerdict(target[s], r)
    PROVE  AllAlone'
<1>1. LocalTypes
  BY TypesSplit DEF IInv
<1>2. pc'[s] = "done" /\ result'[s] = r /\ target' = target /\ Clean(s)' = Clean(s)
  BY <1>1 DEF Finish, GoTo, LocalTypes, fixed, history, Clean
<1>3. AloneInv(s)'
  BY <1>2 DEF AloneInv, OwnTx, BuyInv, TransferInv, SaleInv, VerdictInv, InLegOf, LegPCs, InLeg, NotYetMoved, Selling
<1>4. OthersCalm(s)
  BY FinishIsCalm
<1> QED BY <1>3, <1>4, OthersStayAlone DEF fixed

-----------------------------------------------------------------------------
(* Alone, action by action: the calls that are not about the chain.        *)

LEMMA NotRunAlone ==
    ASSUME IInv, AllAlone, NEW s \in Sims, NotSimulated(s) \/ CallFails(s)
    PROVE  AllAlone'
<1>1. Finish(s, NotRun) /\ UNCHANGED <<fixed, chain, history>> /\ NotRun.status = "not_run"
  BY DEF NotSimulated, CallFails, NotRun
<1> QED BY <1>1, FinishAlone

LEMMA FindMarketAlone ==
    ASSUME IInv, AllAlone, NEW s \in Sims, FindMarket(s)
    PROVE  AllAlone'
<1>1. LocalTypes /\ target[s] \in Targets
  BY TypesSplit DEF IInv, FixedTypes
<1>2. UNCHANGED <<fixed, chain, history>> /\ pc[s] = "market" /\ leg[s] = "buy"
  BY DEF FindMarket, IInv, SimInv, Trading
<1>3. CASE ~target[s].pair /\ Finish(s, NoMarket("skipped"))
  <2>1. AloneVerdict(target[s], NoMarket("skipped"))
    BY <1>1, <1>3, FactTypes DEF AloneVerdict, NoMarket, Verdict, CanBuy, CanSell, CanTransfer
  <2> QED BY <1>2, <1>3, <2>1, FinishAlone
<1>4. CASE target[s].pair /\ ~target[s].quotesBuy /\ Finish(s, NoMarket("completed"))
  <2>1. AloneVerdict(target[s], NoMarket("completed"))
    BY <1>1, <1>4, FactTypes DEF AloneVerdict, NoMarket, Verdict, CanBuy, CanSell, CanTransfer
  <2> QED BY <1>2, <1>4, <2>1, FinishAlone
<1>5. CASE /\ target[s].pair /\ target[s].quotesBuy
           /\ GoTo(s, "open")
           /\ UNCHANGED <<leg, legOk, reading, result, tx>>
  <2>1. /\ pc'[s] = "open" /\ \A x \in Sims \ {s} : pc'[x] = pc[x]
        /\ UNCHANGED <<target, autoStart, leg, legOk, actual, moved, sellable, ethBefore, result, tx>>
        /\ UNCHANGED <<held, approved, eth, disturbed, timedOut>>
    BY <1>1, <1>2, <1>5 DEF GoTo, LocalTypes, reading, fixed, chain, history
  <2>2. OthersCalm(s)
    BY <1>2, <2>1, LocalIsCalm DEF history
  <2>3. ASSUME Clean(s)' PROVE AloneInv(s)'
    <3>1. AloneInv(s) /\ Clean(s)
      BY <2>1, <2>3 DEF AllAlone, Clean
    <3>2. Tokens(s)' = Tokens(s)
      BY <2>1 DEF Tokens, NodeOf
    <3> QED BY <1>2, <2>1, <3>1, <3>2
            DEF AloneInv, OwnTx, BuyInv, TransferInv, SaleInv, VerdictInv, InLegOf, LegPCs, InLeg, NotYetMoved,
                Selling, Unmined, Through, Reverted
  <2> QED BY <1>2, <2>2, <2>3, OthersStayAlone DEF AloneInv
<1> QED BY <1>3, <1>4, <1>5 DEF FindMarket

LEMMA ReadBoughtAlone ==
    ASSUME IInv, AllAlone, NEW s \in Sims, ReadBought(s)
    PROVE  AllAlone'
<1> DEFINE t == target[s]
<1>1. LocalTypes /\ t \in Targets /\ t.buyable
  BY TypesSplit DEF IInv, FixedTypes, SimInv, AfterBuy, Trading, LegPCs, InLeg, ReadBought
<1>2. UNCHANGED <<fixed, chain, history>> /\ pc[s] = "bought" /\ t.pair /\ t.quotesBuy
  BY DEF ReadBought, IInv, SimInv, Trading
<1>3. /\ actual'[s] = Tokens(s)
      /\ \/ actual'[s] \div 4 > 0 /\ pc'[s] = "open" /\ leg'[s] = "transfer"
         \/ ~(actual'[s] \div 4 > 0) /\ pc'[s] = "balance" /\ leg'[s] = leg[s]
      /\ \A x \in Sims \ {s} : pc'[x] = pc[x] /\ leg'[x] = leg[x] /\ actual'[x] = actual[x]
      /\ UNCHANGED <<target, autoStart, legOk, moved, sellable, ethBefore, result, tx>>
      /\ UNCHANGED <<held, approved, eth, disturbed, timedOut>>
  BY <1>1, <1>2 DEF ReadBought, Tokens, GoTo, LocalTypes, fixed, chain, history
<1>4. OthersCalm(s)
  BY <1>2, <1>3, LocalIsCalm DEF history
<1>5. ASSUME Clean(s)' PROVE AloneInv(s)'
  <2>1. AloneInv(s) /\ Clean(s)
    BY <1>3, <1>5 DEF AllAlone, Clean
  <2>2. Tokens(s)' = Tokens(s) /\ Tokens(s) = t.got /\ moved[s] = "untested"
    BY <1>2, <1>3, <2>1 DEF Tokens, NodeOf, AloneInv, BuyInv, TransferInv, NotYetMoved
  <2>3. OwnTx(s)' /\ VerdictInv(s)'
    BY <1>2, <1>3, <2>1 DEF AloneInv, OwnTx, VerdictInv
  <2>4. CASE pc'[s] = "open" /\ leg'[s] = "transfer"
    <3>1. t.got >= 4
      BY <1>1, <1>3, <2>2, <2>4, QuarterFacts
    <3> QED BY <1>3, <2>2, <2>3, <2>4, <3>1
            DEF AloneInv, BuyInv, TransferInv, SaleInv, InLegOf, LegPCs, InLeg, NotYetMoved, Selling,
                Unmined, Through, Reverted
  <2>5. CASE pc'[s] = "balance"
    <3>1. t.got < 4 /\ Kept(t) = t.got
      BY <1>1, <1>3, <2>2, <2>5, QuarterFacts, FactTypes
    <3>2. CanTransfer(t) = "untested"
      BY <1>1, <3>1, FactTypes DEF CanTransfer
    <3> QED BY <1>3, <2>2, <2>3, <2>5, <3>1, <3>2
            DEF AloneInv, BuyInv, TransferInv, SaleInv, InLegOf, LegPCs, InLeg, NotYetMoved, Selling
  <2> QED BY <1>3, <2>4, <2>5
<1> QED BY <1>2, <1>4, <1>5, OthersStayAlone DEF AloneInv

LEMMA ReadSellableAlone ==
    ASSUME IInv, AllAlone, NEW s \in Sims, ReadSellable(s)
    PROVE  AllAlone'
<1> DEFINE t == target[s]
<1>1. LocalTypes /\ t \in Targets /\ t.buyable
  BY TypesSplit DEF IInv, FixedTypes, SimInv, AfterBuy, Trading, LegPCs, InLeg, ReadSellable
<1>2. UNCHANGED <<fixed, chain, history>> /\ pc[s] = "balance" /\ t.pair /\ t.quotesBuy
  BY DEF ReadSellable, IInv, SimInv, Trading
<1>3. Clean(s) => /\ actual[s] = t.got /\ moved[s] = CanTransfer(t)
                  /\ moved[s] # "no" => Tokens(s) = Kept(t)
                  /\ AloneInv(s)
  BY <1>2 DEF AllAlone, AloneInv, TransferInv
<1>4. CASE /\ Tokens(s) = 0 \/ moved[s] = "no"
           /\ Finish(s, Verdict("yes", "no", moved[s], BuyTax(s), NoTax))
  <2> DEFINE r == Verdict("yes", "no", moved[s], BuyTax(s), NoTax)
  <2>1. r.canBuy = "yes" /\ r.canSell = "no" /\ r.canTransfer = moved[s] /\ r.buyTax = BuyTax(s)
        /\ r.status = "completed"
    BY DEF Verdict
  <2>2. Clean(s) => ~CanSell(t)
    BY <1>1, <1>3, <1>4, QuarterFacts, FactTypes DEF CanSell
  <2>3. Clean(s) => AloneVerdict(t, r)
    BY <1>1, <1>2, <1>3, <2>1, <2>2 DEF AloneVerdict, BuyTax, CanBuy, CanSell
  <2> QED BY <1>2, <1>4, <2>3, FinishAlone
<1>5. CASE /\ Tokens(s) # 0 /\ moved[s] # "no"
           /\ sellable' = [sellable EXCEPT ![s] = Tokens(s)]
           /\ GoTo(s, "ethBefore")
           /\ UNCHANGED <<leg, legOk, actual, moved, ethBefore, result, tx>>
  <2>1. /\ sellable'[s] = Tokens(s) /\ pc'[s] = "ethBefore"
        /\ \A x \in Sims \ {s} : pc'[x] = pc[x] /\ sellable'[x] = sellable[x]
        /\ UNCHANGED <<target, autoStart, leg, legOk, actual, moved, ethBefore, result, tx>>
        /\ UNCHANGED <<held, approved, eth, disturbed, timedOut>>
    BY <1>1, <1>2, <1>5 DEF GoTo, LocalTypes, fixed, chain, history
  <2>2. OthersCalm(s)
    BY <1>2, <2>1, LocalIsCalm DEF history
  <2>3. ASSUME Clean(s)' PROVE AloneInv(s)'
    <3>1. Clean(s) /\ AloneInv(s) /\ Tokens(s)' = Tokens(s)
      BY <1>3, <2>1, <2>3 DEF Clean, Tokens, NodeOf
    <3>2. t.got > 0
      BY <1>1, <1>3, <1>5, <3>1, QuarterFacts, FactTypes
    <3> QED BY <1>2, <1>3, <1>5, <2>1, <3>1, <3>2
            DEF AloneInv, OwnTx, BuyInv, TransferInv, SaleInv, VerdictInv, InLegOf, LegPCs, InLeg, NotYetMoved, Selling,
                Unmined
  <2> QED BY <1>2, <2>2, <2>3, OthersStayAlone DEF AloneInv
<1> QED BY <1>4, <1>5 DEF ReadSellable, Tokens

LEMMA ReadEthBeforeAlone ==
    ASSUME IInv, AllAlone, NEW s \in Sims, ReadEthBefore(s)
    PROVE  AllAlone'
<1>1. LocalTypes /\ ChainTypes /\ NodeOf(s) \in Nodes
  BY TypesSplit, NodeOfType DEF IInv
<1>2. UNCHANGED <<fixed, chain, history>> /\ pc[s] = "ethBefore"
  BY DEF ReadEthBefore
<1>3. /\ ethBefore'[s] = eth[NodeOf(s)] /\ pc'[s] = "open" /\ leg'[s] = "approve"
      /\ \A x \in Sims \ {s} : pc'[x] = pc[x] /\ leg'[x] = leg[x] /\ ethBefore'[x] = ethBefore[x]
      /\ UNCHANGED <<target, autoStart, legOk, actual, moved, sellable, result, tx>>
      /\ UNCHANGED <<held, approved, eth, disturbed, timedOut>>
  BY <1>1, <1>2 DEF ReadEthBefore, GoTo, LocalTypes, fixed, chain, history
<1>4. OthersCalm(s)
  BY <1>2, <1>3, LocalIsCalm DEF history
<1>5. ASSUME Clean(s)' PROVE AloneInv(s)'
  <2>1. AloneInv(s) /\ Clean(s) /\ Tokens(s)' = Tokens(s)
    BY <1>3, <1>5 DEF AllAlone, Clean, Tokens, NodeOf
  <2>2. Gain(s)' = 0
    BY <1>1, <1>3 DEF Gain, NodeOf, ChainTypes
  <2> QED BY <1>2, <1>3, <2>1, <2>2
          DEF AloneInv, OwnTx, BuyInv, TransferInv, SaleInv, VerdictInv, InLegOf, LegPCs, InLeg, NotYetMoved, Selling,
              Unmined, Through, Reverted
<1> QED BY <1>2, <1>4, <1>5, OthersStayAlone DEF AloneInv

LEMMA ReadEthAfterAlone ==
    ASSUME IInv, AllAlone, NEW s \in Sims, ReadEthAfter(s)
    PROVE  AllAlone'
<1> DEFINE t == target[s]
           r == Verdict("yes", legOk[s], moved[s], BuyTax(s), SaleTax(t, sellable[s], Gain(s)))
<1>1. LocalTypes /\ t \in Targets /\ t.buyable /\ t.pair /\ t.quotesBuy
  BY TypesSplit DEF IInv, FixedTypes, SimInv, AfterBuy, Trading, LegPCs, InLeg, ReadEthAfter
<1>2. UNCHANGED <<fixed, chain, history>> /\ pc[s] = "ethAfter" /\ Finish(s, r)
  BY DEF ReadEthAfter, Gain
<1>3. /\ r.canBuy = "yes" /\ r.canSell = legOk[s] /\ r.canTransfer = moved[s] /\ r.buyTax = BuyTax(s)
      /\ r.sellTax = SaleTax(t, sellable[s], Gain(s)) /\ r.status = "completed"
  BY DEF Verdict
<1>4. legOk[s] \in {"yes", "no"} /\ moved[s] # "no" /\ (legOk[s] = "yes" => t.approves /\ t.sellable)
  BY <1>1, <1>2 DEF IInv, SimInv, Selling, LocalTypes
<1>5. Clean(s) => /\ actual[s] = t.got /\ moved[s] = CanTransfer(t) /\ sellable[s] = Kept(t) /\ t.got > 0
                  /\ legOk[s] = "yes" => Gain(s) = Proceeds(t, Kept(t)) - 2 * Gas
                  /\ legOk[s] = "no" => ~(t.approves /\ t.sellable)
  BY <1>2 DEF AllAlone, AloneInv, SaleInv, Selling
<1>6. Clean(s) => (legOk[s] = "yes" <=> CanSell(t)) /\ CanBuy(t)
  BY <1>1, <1>4, <1>5 DEF CanSell, CanBuy
<1>7. Clean(s) => AloneVerdict(t, r)
  BY <1>1, <1>3, <1>5, <1>6 DEF AloneVerdict, BuyTax, CanBuy, CanSell
<1> QED BY <1>2, <1>7, FinishAlone

-----------------------------------------------------------------------------
(* Alone, action by action: the legs.                                      *)

\* A step of a leg that stays in it: the transaction is where it was.
LEMMA OpenAlone ==
    ASSUME IInv, AllAlone, NEW s \in Sims, Open(s)
    PROVE  AllAlone'
<1>1. LocalTypes
  BY TypesSplit DEF IInv
<1>2. UNCHANGED <<fixed, chain, history>> /\ pc[s] = "open"
  BY DEF Open
<1>3. /\ pc'[s] = "send" /\ \A x \in Sims \ {s} : pc'[x] = pc[x]
      /\ UNCHANGED <<target, autoStart, leg, legOk, actual, moved, sellable, ethBefore, result, tx>>
      /\ UNCHANGED <<held, approved, eth, disturbed, timedOut>>
  BY <1>1, <1>2 DEF Open, GoTo, LocalTypes, reading, fixed, chain, history
<1>4. OthersCalm(s)
  BY <1>2, <1>3, LocalIsCalm DEF history
<1>5. ASSUME Clean(s)' PROVE AloneInv(s)'
  <2>1. AloneInv(s) /\ Clean(s) /\ Tokens(s)' = Tokens(s) /\ Gain(s)' = Gain(s) /\ NodeOf(s)' = NodeOf(s)
    BY <1>3, <1>5 DEF AllAlone, Clean, Tokens, Gain, NodeOf
  <2> QED BY <1>2, <1>3, <2>1
          DEF AloneInv, OwnTx, BuyInv, TransferInv, SaleInv, VerdictInv, InLegOf, LegPCs, InLeg, NotYetMoved, Selling,
              Unmined, Through, Reverted
<1> QED BY <1>2, <1>4, <1>5, OthersStayAlone DEF AloneInv

LEMMA LegFailsAlone ==
    ASSUME IInv, AllAlone, NEW s \in Sims, OpenFails(s) \/ CloseFails(s)
    PROVE  AllAlone'
<1>1. Finish(s, NotRun) /\ UNCHANGED <<fixed, chain, history>> /\ NotRun.status = "not_run"
  BY DEF OpenFails, CloseFails, NotRun
<1> QED BY <1>1, FinishAlone

LEMMA SendAlone ==
    ASSUME IInv, AllAlone, NEW s \in Sims, Send(s)
    PROVE  AllAlone'
<1>1. LocalTypes
  BY TypesSplit DEF IInv
<1>2. UNCHANGED <<fixed, chain, history>> /\ pc[s] = "send"
  BY DEF Send
<1>3. /\ pc'[s] = "wait" /\ tx'[s] = [state |-> "pending", leg |-> leg[s], amount |-> Amount(s)]
      /\ \A x \in Sims \ {s} : pc'[x] = pc[x] /\ tx'[x] = tx[x]
      /\ UNCHANGED <<target, autoStart, leg, legOk, actual, moved, sellable, ethBefore, result>>
      /\ UNCHANGED <<held, approved, eth, disturbed, timedOut>>
  BY <1>1, <1>2 DEF Send, GoTo, LocalTypes, reading, fixed, chain, history
<1>4. OthersCalm(s)
  BY <1>2, <1>3, LocalIsCalm DEF history
<1>5. ASSUME Clean(s)' PROVE AloneInv(s)'
  <2>1. AloneInv(s) /\ Clean(s) /\ Tokens(s)' = Tokens(s) /\ Gain(s)' = Gain(s) /\ NodeOf(s)' = NodeOf(s)
    BY <1>3, <1>5 DEF AllAlone, Clean, Tokens, Gain, NodeOf
  <2>2. OwnTx(s)'
    BY <1>3 DEF OwnTx, Amount
  <2> QED BY <1>2, <1>3, <2>1, <2>2
          DEF AloneInv, BuyInv, TransferInv, SaleInv, VerdictInv, InLegOf, LegPCs, InLeg, NotYetMoved, Selling,
              Unmined, Through, Reverted
<1> QED BY <1>2, <1>4, <1>5, OthersStayAlone DEF AloneInv

LEMMA ReceiptAlone ==
    ASSUME IInv, AllAlone, NEW s \in Sims, Receipt(s)
    PROVE  AllAlone'
<1>1. LocalTypes
  BY TypesSplit DEF IInv
<1>2. UNCHANGED <<fixed, chain, history>> /\ pc[s] = "wait"
  BY DEF Receipt
<1>3. /\ \/ /\ tx[s].state = "ok" /\ leg[s] # "approve"
            /\ pc'[s] = "close" /\ legOk'[s] = "yes" /\ leg' = leg
         \/ /\ tx[s].state = "reverted"
            /\ pc'[s] = "close" /\ legOk'[s] = "no" /\ leg' = leg
         \/ /\ tx[s].state = "ok" /\ leg[s] = "approve"
            /\ pc'[s] = "send" /\ leg'[s] = "sell" /\ legOk' = legOk
      /\ \A x \in Sims \ {s} : pc'[x] = pc[x] /\ leg'[x] = leg[x] /\ legOk'[x] = legOk[x]
      /\ UNCHANGED <<target, autoStart, actual, moved, sellable, ethBefore, result, tx>>
      /\ UNCHANGED <<held, approved, eth, disturbed, timedOut>>
  BY <1>1, <1>2 DEF Receipt, CloseWith, GoTo, LocalTypes, reading, fixed, chain, history
<1>4. OthersCalm(s)
  BY <1>2, <1>3, LocalIsCalm DEF history
<1>5. ASSUME Clean(s)' PROVE AloneInv(s)'
  <2>1. AloneInv(s) /\ Clean(s) /\ Tokens(s)' = Tokens(s) /\ Gain(s)' = Gain(s) /\ NodeOf(s)' = NodeOf(s)
    BY <1>3, <1>5 DEF AllAlone, Clean, Tokens, Gain, NodeOf
  <2>2. OwnTx(s)' /\ VerdictInv(s)'
    BY <1>2, <1>3, <2>1 DEF AloneInv, OwnTx, VerdictInv
  <2>3. BuyInv(s)' /\ TransferInv(s)'
    BY <1>2, <1>3, <2>1 DEF AloneInv, BuyInv, TransferInv, InLegOf, LegPCs, InLeg, NotYetMoved, Unmined, Through,
                            Reverted
  <2>4. SaleInv(s)'
    BY <1>2, <1>3, <2>1 DEF AloneInv, SaleInv, InLegOf, LegPCs, InLeg, Selling, Unmined, Through, Reverted
  <2> QED BY <2>2, <2>3, <2>4 DEF AloneInv
<1> QED BY <1>2, <1>4, <1>5, OthersStayAlone DEF AloneInv

LEMMA WaitEndsAlone ==
    ASSUME IInv, AllAlone, NEW s \in Sims, WaitTimeout(s) \/ Raise(s)
    PROVE  AllAlone'
<1>1. LocalTypes /\ HistoryTypes
  BY TypesSplit DEF IInv
<1>2. UNCHANGED <<fixed, chain, disturbed>> /\ pc[s] \in {"send", "wait"}
  BY DEF WaitTimeout, Raise, history
<1>3. /\ pc'[s] = "close"
      /\ \/ timedOut'[s]
         \/ legOk'[s] = "raise" /\ timedOut'[s] = timedOut[s]
      /\ \A x \in Sims \ {s} : pc'[x] = pc[x] /\ legOk'[x] = legOk[x] /\ timedOut'[x] = timedOut[x]
      /\ UNCHANGED <<target, autoStart, leg, actual, moved, sellable, ethBefore, result, tx>>
      /\ UNCHANGED <<held, approved, eth>>
  BY <1>1, <1>2 DEF WaitTimeout, Raise, CloseWith, GoTo, LocalTypes, HistoryTypes, reading, fixed, chain, history
<1>4. OthersCalm(s)
  BY <1>2, <1>3, LocalIsCalm
<1>5. ASSUME Clean(s)' PROVE AloneInv(s)'
  <2>1. AloneInv(s) /\ Clean(s) /\ Tokens(s)' = Tokens(s) /\ NodeOf(s)' = NodeOf(s)
        /\ pc'[s] = "close" /\ legOk'[s] = "raise"
    BY <1>2, <1>3, <1>5 DEF AllAlone, Clean, Tokens, NodeOf
  <2> QED BY <1>2, <1>3, <2>1
          DEF AloneInv, OwnTx, BuyInv, TransferInv, SaleInv, VerdictInv, InLegOf, LegPCs, InLeg, NotYetMoved, Selling,
              Unmined, Through, Reverted
<1> QED BY <1>2, <1>4, <1>5, OthersStayAlone DEF AloneInv

LEMMA CloseAlone ==
    ASSUME IInv, AllAlone, NEW s \in Sims, Close(s)
    PROVE  AllAlone'
<1> DEFINE t == target[s]
<1>1. LocalTypes /\ t \in Targets /\ t.pair /\ t.quotesBuy /\ pc[s] = "close"
  BY TypesSplit DEF IInv, FixedTypes, Close, SimInv, Trading
<1>2. UNCHANGED <<fixed, chain, history>>
  BY DEF Close
<1>3. CASE legOk[s] = "raise" /\ Finish(s, NotRun)
  <2>1. NotRun.status = "not_run"
    BY DEF NotRun
  <2> QED BY <1>2, <1>3, <2>1, FinishAlone
<1>4. CASE legOk[s] = "no" /\ leg[s] = "buy" /\ Finish(s, NoMarket("completed"))
  <2>1. Clean(s) => ~t.buyable
    BY <1>1, <1>4 DEF AllAlone, AloneInv, BuyInv, InLegOf, LegPCs, InLeg, Reverted
  <2>2. Clean(s) => AloneVerdict(t, NoMarket("completed"))
    BY <1>1, <2>1, FactTypes DEF AloneVerdict, NoMarket, Verdict, CanBuy, CanSell, CanTransfer
  <2> QED BY <1>2, <1>4, <2>2, FinishAlone
<1>5. CASE /\ legOk[s] = "yes" \/ (legOk[s] = "no" /\ leg[s] # "buy")
           /\ GoTo(s, CASE leg[s] = "buy" -> "bought"
                        [] leg[s] = "transfer" -> "balance"
                        [] OTHER -> "ethAfter")
           /\ moved' = IF leg[s] = "transfer" THEN [moved EXCEPT ![s] = legOk[s]] ELSE moved
           /\ UNCHANGED <<leg, legOk, actual, sellable, ethBefore, result, tx>>
  <2>1. /\ \/ leg[s] = "buy" /\ pc'[s] = "bought" /\ moved'[s] = moved[s]
           \/ leg[s] = "transfer" /\ pc'[s] = "balance" /\ moved'[s] = legOk[s]
           \/ leg[s] \in {"approve", "sell"} /\ pc'[s] = "ethAfter" /\ moved'[s] = moved[s]
        /\ \A x \in Sims \ {s} : pc'[x] = pc[x] /\ moved'[x] = moved[x]
        /\ UNCHANGED <<target, autoStart, leg, legOk, actual, sellable, ethBefore, result, tx>>
        /\ UNCHANGED <<held, approved, eth, disturbed, timedOut>>
    BY <1>1, <1>2, <1>5 DEF GoTo, LocalTypes, Legs, fixed, chain, history
  <2>2. OthersCalm(s)
    BY <1>2, <2>1, LocalIsCalm DEF history
  <2>3. ASSUME Clean(s)' PROVE AloneInv(s)'
    <3>1. AloneInv(s) /\ Clean(s) /\ Tokens(s)' = Tokens(s) /\ Gain(s)' = Gain(s) /\ NodeOf(s)' = NodeOf(s)
      BY <2>1, <2>3 DEF AllAlone, Clean, Tokens, Gain, NodeOf
    <3>2. OwnTx(s)' /\ VerdictInv(s)'
      BY <1>1, <1>5, <2>1, <3>1 DEF AloneInv, OwnTx, VerdictInv
    <3>3. CASE leg[s] = "buy" /\ pc'[s] = "bought"
      BY <1>1, <1>5, <2>1, <3>1, <3>2, <3>3
         DEF AloneInv, BuyInv, TransferInv, SaleInv, InLegOf, LegPCs, InLeg, NotYetMoved, Selling, Through
    <3>4. CASE leg[s] = "transfer" /\ pc'[s] = "balance"
      <4>1. t.buyable /\ CanBuy(t) /\ (legOk[s] = "yes" => t.movable)
        BY <1>1, <3>4 DEF IInv, SimInv, AfterBuy, Trading, LegPCs, InLeg, CanBuy, LegFacts
      <4>2. /\ actual[s] = t.got /\ t.got >= 4
            /\ legOk[s] = "yes" => Tokens(s) = Kept(t)
            /\ legOk[s] = "no" => ~t.movable
        BY <1>1, <3>1, <3>4 DEF AloneInv, TransferInv, InLegOf, LegPCs, InLeg, Through, Reverted
      <4>3. legOk[s] = CanTransfer(t)
        BY <1>1, <1>5, <4>1, <4>2, FactTypes DEF CanTransfer
      <4> QED BY <1>1, <2>1, <3>1, <3>2, <3>4, <4>2, <4>3, <1>5
              DEF AloneInv, BuyInv, TransferInv, SaleInv, InLegOf, LegPCs, InLeg, NotYetMoved, Selling
    <3>5. CASE leg[s] \in {"approve", "sell"} /\ pc'[s] = "ethAfter"
      BY <1>1, <1>5, <2>1, <3>1, <3>2, <3>5
         DEF AloneInv, BuyInv, TransferInv, SaleInv, InLegOf, LegPCs, InLeg, NotYetMoved, Selling, Through, Reverted,
             Unmined, IInv, SimInv
    <3> QED BY <2>1, <3>3, <3>4, <3>5
  <2> QED BY <1>2, <2>2, <2>3, OthersStayAlone DEF AloneInv
<1> QED BY <1>3, <1>4, <1>5 DEF Close

-----------------------------------------------------------------------------
(* Alone, action by action: what changes the chain.                        *)

\* Whoever the step may concern is marked.
LEMMA DisturbIsCalm ==
    ASSUME IInv, NEW s \in Sims, Disturb(s), UNCHANGED fixed,
           \A x \in Sims \ {s} :
               /\ pc'[x] = pc[x] /\ leg'[x] = leg[x] /\ legOk'[x] = legOk[x] /\ actual'[x] = actual[x]
               /\ moved'[x] = moved[x] /\ sellable'[x] = sellable[x] /\ ethBefore'[x] = ethBefore[x]
               /\ result'[x] = result[x]
               /\ NodeOf(x) # NodeOf(s) =>
                     /\ held'[NodeOf(x)] = held[NodeOf(x)] /\ approved'[NodeOf(x)] = approved[NodeOf(x)]
                     /\ eth'[NodeOf(x)] = eth[NodeOf(x)] /\ tx'[x] = tx[x]
    PROVE  OthersCalm(s) /\ (Clean(s)' = Clean(s))
<1>1. HistoryTypes
  BY TypesSplit DEF IInv
<1>2. \A x \in Sims : disturbed'[x] = (\/ disturbed[x]
                                       \/ x # s /\ NodeOf(x) = NodeOf(s) /\ pc[x] \notin {"reset", "done"})
  BY DEF Disturb
<1>3. timedOut' = timedOut
  BY DEF Disturb
<1>4. ASSUME NEW x \in Sims \ {s}, Clean(x)'
      PROVE  Clean(x) /\ (pc[x] \in {"reset", "done"} \/ NodeOf(x) # NodeOf(s))
  BY <1>2, <1>3, <1>4 DEF Clean
<1>5. Clean(s)' = Clean(s)
  BY <1>1, <1>2, <1>3 DEF Clean, HistoryTypes
<1> QED BY <1>4, <1>5 DEF OthersCalm

LEMMA ResetForkAlone ==
    ASSUME IInv, AllAlone, NEW s \in Sims, ResetFork(s)
    PROVE  AllAlone'
<1>1. LocalTypes /\ ChainTypes /\ NodeOf(s) \in Nodes /\ target[s] \in Targets
  BY TypesSplit, NodeOfType DEF IInv, FixedTypes
<1>2. UNCHANGED fixed /\ pc[s] = "reset" /\ Disturb(s)
  BY DEF ResetFork
<1>3. /\ pc'[s] = "fund" /\ \A x \in Sims \ {s} : pc'[x] = pc[x]
      /\ UNCHANGED <<target, autoStart, leg, legOk, actual, moved, sellable, ethBefore, result>>
      /\ \A x \in Sims : tx'[x] = IF NodeOf(x) = NodeOf(s) THEN NoTx ELSE tx[x]
  BY <1>1, <1>2 DEF ResetFork, GoTo, LocalTypes, reading, fixed
<1>4. /\ held'[NodeOf(s)] = [t \in Targets |-> 0]
      /\ \A n \in Nodes \ {NodeOf(s)} : held'[n] = held[n] /\ approved'[n] = approved[n] /\ eth'[n] = eth[n]
  BY <1>1 DEF ResetFork, ChainTypes
<1>5. \A x \in Sims : NodeOf(x) \in Nodes
  BY NodeOfType DEF IInv
<1>6. OthersCalm(s) /\ (Clean(s)' = Clean(s))
  BY <1>2, <1>3, <1>4, <1>5, DisturbIsCalm
<1>7. ASSUME Clean(s)' PROVE AloneInv(s)'
  <2>1. AloneInv(s) /\ Clean(s) /\ Tokens(s)' = 0 /\ tx'[s].state = "none"
    BY <1>1, <1>3, <1>4, <1>6, <1>7 DEF AllAlone, Tokens, NodeOf, NoTx
  <2> QED BY <1>2, <1>3, <2>1
          DEF AloneInv, OwnTx, BuyInv, TransferInv, SaleInv, VerdictInv, InLegOf, LegPCs, InLeg, NotYetMoved, Selling
<1> QED BY <1>2, <1>6, <1>7, OthersStayAlone DEF AloneInv

LEMMA FundAlone ==
    ASSUME IInv, AllAlone, NEW s \in Sims, Fund(s)
    PROVE  AllAlone'
<1>1. LocalTypes /\ ChainTypes /\ NodeOf(s) \in Nodes /\ target[s] \in Targets
  BY TypesSplit, NodeOfType DEF IInv, FixedTypes
<1>2. UNCHANGED fixed /\ pc[s] = "fund" /\ Disturb(s)
  BY DEF Fund
<1>3. /\ pc'[s] = "market" /\ \A x \in Sims \ {s} : pc'[x] = pc[x]
      /\ UNCHANGED <<target, autoStart, leg, legOk, actual, moved, sellable, ethBefore, result, tx, held, approved>>
      /\ \A n \in Nodes \ {NodeOf(s)} : eth'[n] = eth[n]
  BY <1>1, <1>2 DEF Fund, GoTo, LocalTypes, ChainTypes, reading, fixed
<1>4. \A x \in Sims : NodeOf(x) \in Nodes
  BY NodeOfType DEF IInv
<1>5. OthersCalm(s) /\ (Clean(s)' = Clean(s))
  BY <1>2, <1>3, <1>4, DisturbIsCalm
<1>6. ASSUME Clean(s)' PROVE AloneInv(s)'
  <2>1. AloneInv(s) /\ Clean(s) /\ Tokens(s)' = Tokens(s)
    BY <1>3, <1>5, <1>6 DEF AllAlone, Tokens, NodeOf
  <2> QED BY <1>2, <1>3, <2>1
          DEF AloneInv, OwnTx, BuyInv, TransferInv, SaleInv, VerdictInv, InLegOf, LegPCs, InLeg, NotYetMoved, Selling
<1> QED BY <1>2, <1>5, <1>6, OthersStayAlone DEF AloneInv

\* A transaction on a chain nobody else touched does what the target does.
LEMMA MineAlone ==
    ASSUME IInv, AllAlone, NEW s \in Sims, Mine(s)
    PROVE  AllAlone'
<1> DEFINE n == NodeOf(s)
           t == target[s]
<1>1. LocalTypes /\ ChainTypes /\ n \in Nodes /\ t \in Targets
  BY TypesSplit, NodeOfType DEF IInv, FixedTypes
<1>2. UNCHANGED fixed /\ tx[s].state = "pending" /\ Disturb(s)
  BY DEF Mine
<1>3. /\ UNCHANGED <<target, autoStart, pc, leg, legOk, actual, moved, sellable, ethBefore, result>>
      /\ \A x \in Sims \ {s} : tx'[x] = tx[x]
      /\ \A m \in Nodes \ {n} : held'[m] = held[m] /\ approved'[m] = approved[m] /\ eth'[m] = eth[m]
      /\ tx'[s].leg = tx[s].leg /\ tx'[s].amount = tx[s].amount
  <2>1. UNCHANGED <<fixed, progress, reading, result>>
    BY DEF Mine
  <2>2. tx' = [tx EXCEPT ![s].state = "ok"] \/ tx' = [tx EXCEPT ![s].state = "reverted"]
    BY DEF Mine
  <2>3. \A m \in Nodes \ {n} : held'[m] = held[m] /\ approved'[m] = approved[m] /\ eth'[m] = eth[m]
    BY <1>1 DEF Mine, ChainTypes
  <2> QED BY <1>1, <2>1, <2>2, <2>3 DEF LocalTypes, fixed, progress, reading
<1>4. \/ /\ Succeeds(s) /\ tx'[s].state = "ok"
         /\ Tokens(s)' = TokensAfter(s) /\ eth'[n] = EthAfter(s)
         /\ approved'[n] = IF tx[s].leg = "approve" THEN approved[n] \cup {t} ELSE approved[n]
      \/ ~Succeeds(s) /\ tx'[s].state = "reverted"
  <2>1. NodeOf(s)' = n /\ target'[s] = t
    BY <1>3 DEF NodeOf
  <2>2. CASE /\ Succeeds(s)
             /\ tx' = [tx EXCEPT ![s].state = "ok"]
             /\ held' = [held EXCEPT ![n][t] = TokensAfter(s)]
             /\ eth' = [eth EXCEPT ![n] = EthAfter(s)]
             /\ approved' = IF tx[s].leg = "approve" THEN [approved EXCEPT ![n] = @ \cup {t}] ELSE approved
    <3>1. tx'[s].state = "ok" /\ held'[n][t] = TokensAfter(s) /\ eth'[n] = EthAfter(s)
          /\ approved'[n] = IF tx[s].leg = "approve" THEN approved[n] \cup {t} ELSE approved[n]
      BY <1>1, <2>2 DEF LocalTypes, ChainTypes
    <3> QED BY <2>1, <2>2, <3>1 DEF Tokens
  <2>3. CASE ~Succeeds(s) /\ tx' = [tx EXCEPT ![s].state = "reverted"]
    BY <1>1, <2>3 DEF LocalTypes
  <2> QED BY <2>2, <2>3 DEF Mine
<1>5. \A x \in Sims : NodeOf(x) \in Nodes
  BY NodeOfType DEF IInv
<1>6. OthersCalm(s) /\ (Clean(s)' = Clean(s))
  BY <1>2, <1>3, <1>5, DisturbIsCalm
<1>7. ASSUME Clean(s)' PROVE AloneInv(s)'
  <2>1. AloneInv(s) /\ Clean(s) /\ NodeOf(s)' = n
    BY <1>3, <1>6, <1>7 DEF AllAlone, NodeOf
  <2>2. OwnTx(s)' /\ VerdictInv(s)'
    BY <1>2, <1>3, <1>4, <2>1 DEF AloneInv, OwnTx, VerdictInv, Amount
  <2>3. CASE pc[s] \in {"reset", "done"}
    BY <1>3, <2>1, <2>2, <2>3
       DEF AloneInv, BuyInv, TransferInv, SaleInv, InLegOf, LegPCs, InLeg, NotYetMoved, Selling
  <2>4. CASE pc[s] = "close" /\ legOk[s] = "raise"
    BY <1>3, <2>1, <2>2, <2>4
       DEF AloneInv, BuyInv, TransferInv, SaleInv, InLegOf, LegPCs, InLeg, NotYetMoved, Selling, Unmined, Through,
           Reverted
  <2>5. CASE pc[s] = "wait"
    <3>1. tx[s].leg = leg[s] /\ tx[s].amount = Amount(s) /\ leg[s] \in Legs
      BY <1>1, <2>1, <2>5 DEF AloneInv, OwnTx, LocalTypes
    <3>2. /\ Tokens(s) \in Nat /\ eth[n] \in Int /\ ethBefore[s] \in Int /\ Gas \in Nat /\ Gain(s) = eth[n] - ethBefore[s]
          /\ Gain(s)' = eth'[n] - ethBefore[s]
      BY <1>1, <1>3, <2>1, TradeAssumption DEF ChainTypes, LocalTypes, Tokens, Gain
    <3>3. CASE leg[s] = "buy"
      <4>1. Tokens(s) = 0
        BY <1>2, <2>1, <2>5, <3>3 DEF AloneInv, BuyInv, InLegOf, LegPCs, InLeg, Unmined
      <4>2. /\ tx'[s].state = "ok" => Tokens(s)' = t.got
            /\ tx'[s].state = "reverted" => ~t.buyable
        BY <1>1, <1>4, <3>1, <3>3, <4>1, FactTypes DEF Succeeds, TokensAfter, Tokens
      <4> QED BY <1>2, <1>3, <1>4, <2>1, <2>2, <2>5, <3>3, <4>2
              DEF AloneInv, BuyInv, TransferInv, SaleInv, InLegOf, LegPCs, InLeg, NotYetMoved, Selling, Unmined, Through,
                  Reverted
    <3>4. CASE leg[s] = "transfer"
      <4>1. Tokens(s) = t.got /\ actual[s] = t.got /\ t.got >= 4 /\ moved[s] = "untested"
        BY <1>2, <2>1, <2>5, <3>4 DEF AloneInv, TransferInv, InLegOf, LegPCs, InLeg, Unmined, NotYetMoved
      <4>2. tx[s].amount = t.got \div 4 /\ t.got >= t.got \div 4
        BY <1>1, <3>1, <3>4, <4>1, QuarterFacts DEF Amount
      <4>3. /\ tx'[s].state = "ok" => Tokens(s)' = Kept(t)
            /\ tx'[s].state = "reverted" => ~t.movable
        BY <1>1, <1>4, <3>1, <3>4, <4>1, <4>2 DEF Succeeds, TokensAfter, Tokens, Kept
      <4> QED BY <1>2, <1>3, <1>4, <2>1, <2>2, <2>5, <3>4, <4>1, <4>3
              DEF AloneInv, BuyInv, TransferInv, SaleInv, InLegOf, LegPCs, InLeg, NotYetMoved, Selling, Unmined, Through,
                  Reverted
    <3>5. CASE leg[s] = "approve"
      <4>1. Tokens(s) = Kept(t) /\ Gain(s) = 0
        BY <1>2, <2>1, <2>5, <3>5 DEF AloneInv, SaleInv, InLegOf, LegPCs, InLeg, Unmined, Selling
      <4>2. /\ tx'[s].state = "ok" => /\ Tokens(s)' = Kept(t) /\ Gain(s)' = 0 - Gas
                                      /\ t \in approved'[n] /\ t.approves
            /\ tx'[s].state = "reverted" => ~t.approves
        BY <1>1, <1>4, <3>1, <3>2, <3>5, <4>1 DEF Succeeds, TokensAfter, Tokens, EthAfter
      <4> QED BY <1>2, <1>3, <1>4, <2>1, <2>2, <2>5, <3>5, <4>2
              DEF AloneInv, BuyInv, TransferInv, SaleInv, InLegOf, LegPCs, InLeg, NotYetMoved, Selling, Unmined, Through,
                  Reverted
    <3>6. CASE leg[s] = "sell"
      <4>1. Tokens(s) = Kept(t) /\ Gain(s) = 0 - Gas /\ sellable[s] = Kept(t) /\ t.approves /\ t \in approved[n]
        BY <1>2, <2>1, <2>5, <3>6 DEF AloneInv, SaleInv, InLegOf, LegPCs, InLeg, Unmined, Selling
      <4>2. tx[s].amount = Kept(t) /\ Kept(t) \in Nat /\ Proceeds(t, Kept(t)) \in Int
        BY <1>1, <3>1, <3>6, <4>1, QuarterFacts, ProceedsType DEF Amount
      <4>3. /\ tx'[s].state = "ok" => t.sellable /\ Gain(s)' = Proceeds(t, Kept(t)) - 2 * Gas
            /\ tx'[s].state = "reverted" => ~t.sellable
        <5>1. EthAfter(s) = eth[n] - Gas + Proceeds(t, Kept(t))
          BY <3>1, <3>6, <4>2 DEF EthAfter
        <5>2. Succeeds(s) <=> t.sellable
          BY <1>1, <3>1, <3>2, <3>6, <4>1, <4>2 DEF Succeeds, Tokens
        <5> QED BY <1>4, <3>2, <4>1, <4>2, <5>1, <5>2
      <4> QED BY <1>2, <1>3, <1>4, <2>1, <2>2, <2>5, <3>6, <4>1, <4>3
              DEF AloneInv, BuyInv, TransferInv, SaleInv, InLegOf, LegPCs, InLeg, NotYetMoved, Selling, Unmined, Through,
                  Reverted
    <3> QED BY <3>1, <3>3, <3>4, <3>5, <3>6 DEF Legs
  <2> QED BY <1>2, <2>1, <2>3, <2>4, <2>5 DEF AloneInv, OwnTx
<1> QED BY <1>2, <1>6, <1>7, OthersStayAlone DEF AloneInv

-----------------------------------------------------------------------------
LEMMA InitAlone == Init => AllAlone
<1> SUFFICES ASSUME Init, NEW x \in Sims PROVE AloneInv(x)
  BY DEF AllAlone
<1>1. pc[x] = "reset" /\ moved[x] = "untested" /\ tx[x].state = "none" /\ result[x].status = "not_run"
  BY DEF Init, NoTx, NotRun
<1> QED BY <1>1 DEF AloneInv, OwnTx, BuyInv, TransferInv, SaleInv, VerdictInv, InLegOf, LegPCs, InLeg, NotYetMoved, Selling

LEMMA NextAlone == IInv /\ AllAlone /\ [Next]_vars => AllAlone'
<1> SUFFICES ASSUME IInv, AllAlone, [Next]_vars PROVE AllAlone'
  OBVIOUS
<1>1. CASE UNCHANGED vars
  <2> SUFFICES ASSUME NEW x \in Sims PROVE AloneInv(x)' = AloneInv(x)
    BY DEF AllAlone
  <2> QED BY <1>1
          DEF vars, fixed, progress, reading, chain, history, AloneInv, Clean, OwnTx, BuyInv, TransferInv, SaleInv,
              VerdictInv, InLegOf, NotYetMoved, Selling, Unmined, Through, Reverted, Tokens, Gain, NodeOf, Amount
<1>2. ASSUME NEW s \in Sims, Proceed(s) PROVE AllAlone'
  BY <1>2, NotRunAlone, ResetForkAlone, FundAlone, FindMarketAlone, ReadBoughtAlone, ReadSellableAlone,
     ReadEthBeforeAlone, ReadEthAfterAlone, OpenAlone, SendAlone, ReceiptAlone, WaitEndsAlone, CloseAlone DEF Proceed
<1>3. ASSUME NEW s \in Sims, Fail(s) PROVE AllAlone'
  BY <1>3, NotRunAlone, LegFailsAlone, WaitEndsAlone DEF Fail
<1>4. ASSUME NEW s \in Sims, Mine(s) PROVE AllAlone'
  BY <1>4, MineAlone
<1> QED BY <1>1, <1>2, <1>3, <1>4 DEF Next, Finished

\* With a node of its own a simulation has nobody to disturb it.
LEMMA OwnNodeIsCalm ==
    ASSUME IInv, autoStart => \A x \in Sims : ~disturbed[x], [Next]_vars
    PROVE  (autoStart => \A x \in Sims : ~disturbed[x])'
<1> SUFFICES ASSUME autoStart', NEW x \in Sims PROVE ~disturbed'[x]
  OBVIOUS
<1>1. autoStart /\ ~disturbed[x]
  BY DEF Next, Finished, Proceed, Fail, vars, fixed, NotSimulated, ResetFork, Fund, FindMarket, ReadBought, ReadSellable,
         ReadEthBefore, ReadEthAfter, Open, Send, Receipt, WaitTimeout, Close, CallFails, OpenFails, Raise, CloseFails,
         Mine
<1>2. ASSUME NEW s \in Sims, Disturb(s) PROVE ~disturbed'[x]
  BY <1>1, <1>2 DEF Disturb, NodeOf
<1>3. CASE disturbed' = disturbed
  BY <1>1, <1>3
<1> QED BY <1>2, <1>3
        DEF Next, Finished, Proceed, Fail, vars, history, NotSimulated, ResetFork, Fund, FindMarket, ReadBought,
            ReadSellable, ReadEthBefore, ReadEthAfter, Open, Send, Receipt, WaitTimeout, Close, CallFails, OpenFails,
            Raise, CloseFails, Mine

\* A simulation nobody disturbed gives the verdict of its target, taxes and all, for
\* any other scans and however their calls interleave; and on a node of its own nobody can disturb it.
THEOREM VerdictAlone == Spec => []UndisturbedVerdict
<1> DEFINE Inv == IInv /\ AllAlone /\ (autoStart => \A x \in Sims : ~disturbed[x])
<1>1. Init => Inv
  BY InitIInv, InitAlone DEF Init
<1>2. Inv /\ [Next]_vars => Inv'
  BY NextIInv, NextAlone, OwnNodeIsCalm
<1>3. Inv => UndisturbedVerdict
  BY DEF AllAlone, AloneInv, Clean, VerdictInv, UndisturbedVerdict
<1> HIDE DEF Inv
<1> QED BY <1>1, <1>2, <1>3, PTL DEF Spec

------------------------------------------------------------------------------
(* Runtime analysis *)

\* What an EVM can have in its hands: accounts, entries of the trace, contents
\* of the slots, events, and frames that have not ended.
Accounts == {"sender"} \cup {c.to : c \in Asked}
Entries ==
    [type : {c.type : c \in Asked}, from : Accounts, to : {c.to : c \in Asked},
     selector : {c.selector : c \in Asked}, value : {c.value : c \in Asked},
     parent : Nat, depth : Nat, failed : BOOLEAN]
Contents == (UNION {Range(w) : w \in Worlds}) \cup {w.value : w \in Writes}
Holdings == {w \in [Slots -> Contents] : \A a \in Amounts : w[a] \in Int}
Events ==
    [topic : {"hash"}, event : {"OwnershipTransferred", "Approval"}, value : {0} \cup {w.value : w \in Writes}]
OpenFrames == [frame : Nat \ {0}, account : Accounts, static : BOOLEAN, world : Holdings, logs : SUBSET Events]

RuntimeTyped ==
    /\ stage \in {"pending", "running", "mined", "reported", "classified", "simulated"}
    /\ frames \in Seq(Entries)
    /\ open \in Seq(OpenFrames)
    /\ world \in Holdings /\ before \in Holdings
    /\ logs \in SUBSET Events
    /\ again \in BOOLEAN /\ undone \in BOOLEAN

\* What is open was entered, and something is open while the transaction runs.
OpenStand ==
    /\ \A i \in DOMAIN open : open[i].frame \in DOMAIN frames
    /\ stage = "running" => open # <<>>

\* What the EVM remembers of the run can be read from its trace.
TraceRemembers ==
    /\ stage = "pending" => ~undone
    /\ again => Recursive(frames)
    /\ undone => Failures(frames) # {}

\* The evidence is that of the finished transaction, for slots the provider may list.
ReportStands ==
    /\ stage = "reported" =>
           /\ report.listed \in Listings
           /\ report.trace = Graded(TraceSignals(frames, {}))
           /\ report.state = StateEvidence({Diff(s, before[s], world[s]) : s \in report.listed}, logs, frames)
    /\ stage = "classified" => \E sent \in Transactions :
           report.category = Category(sent) /\ report.transaction = TransactionSignals(sent)
    /\ stage = "simulated" =>
           report.attack \in DOMAIN Attacks /\ report.found = Found(report.attack, report.context)

RuntimeInv == RuntimeTyped /\ OpenStand /\ TraceRemembers /\ ReportStands

\* A transaction begins with calls that are asked for.
LEMMA EntrancesAreAsked ==
    ASSUME NEW e \in Entrances
    PROVE  /\ e \in Seq(Asked) /\ e # <<>>
           /\ Len(e) \in Nat \ {0} /\ DOMAIN e = 1 .. Len(e)
           /\ \A i \in DOMAIN e : e[i] \in Asked
<1>1. e \in Seq(Range(e)) /\ e # <<>>
  BY RuntimeAssumption
<1>2. Range(e) \subseteq Asked
  BY DEF Asked
<1>3. Len(e) \in Nat /\ DOMAIN e = 1 .. Len(e) /\ e \in [1 .. Len(e) -> Range(e)]
  BY <1>1
<1>4. e \in [1 .. Len(e) -> Asked]
  BY <1>2, <1>3
<1>5. e \in Seq(Asked)
  BY <1>3, <1>4
<1> QED BY <1>1, <1>3, <1>4, <1>5

\* A call of a known account is an entry of the trace.
LEMMA FramesAreEntries ==
    ASSUME NEW c \in Asked, NEW from \in Accounts, NEW parent \in Nat, NEW depth \in Nat
    PROVE  Frame(c.type, from, c.to, c.selector, c.value, parent, depth) \in Entries
BY DEF Frame, Entries

LEMMA OpenedIsTyped ==
    ASSUME RuntimeTyped, NEW i \in Nat \ {0}, NEW account \in Accounts, NEW static \in BOOLEAN
    PROVE  Opened(i, account, static) \in OpenFrames
BY DEF RuntimeTyped, Opened, OpenFrames

LEMMA HoldingsAreFunctions ==
    ASSUME NEW w \in Holdings
    PROVE  w = [s \in Slots |-> w[s]] /\ \A a \in Amounts : w[a] \in Int
BY DEF Holdings

LEMMA WritesHold ==
    ASSUME NEW w \in Holdings, NEW r \in Writes
    PROVE  [w EXCEPT ![r.slot] = r.value] \in Holdings
<1> DEFINE next == [w EXCEPT ![r.slot] = r.value]
<1>1. w \in [Slots -> Contents] /\ \A a \in Amounts : w[a] \in Int
  BY DEF Holdings
<1>2. r.value \in {v.value : v \in Writes}
  OBVIOUS
<1>3. r.value \in Contents /\ r.slot \in Slots /\ (r.slot \in Amounts => r.value \in Int)
  <2>1. r.slot \in Slots /\ (r.slot \in Amounts => r.value \in Int)
    BY RuntimeAssumption
  <2>2. r.value \in Contents
    BY <1>2 DEF Contents
  <2> QED BY <2>1, <2>2
<1>4. next \in [Slots -> Contents]
  BY <1>1, <1>3
<1>5. \A a \in Amounts : a \in Slots
  BY DEF Amounts, Slots
<1>6. \A a \in Amounts : next[a] \in Int
  BY <1>1, <1>3, <1>5
<1> QED BY <1>4, <1>6 DEF Holdings

LEMMA WorldsHold ==
    ASSUME NEW w \in Worlds
    PROVE  w \in Holdings
<1>1. w \in [Slots -> Range(w)] /\ \A a \in Amounts : w[a] \in Int
  BY RuntimeAssumption
<1>2. Range(w) \subseteq Contents
  BY DEF Contents
<1> QED BY <1>1, <1>2 DEF Holdings

\* A sequence and what is left of it without its last element
LEMMA LastAndFront ==
    ASSUME NEW S, NEW s \in Seq(S), s # <<>>
    PROVE  /\ Len(s) \in Nat \ {0} /\ Len(s) \in DOMAIN s
           /\ Last(s) = s[Len(s)] /\ Last(s) \in S
           /\ Front(s) \in Seq(S) /\ Len(Front(s)) = Len(s) - 1
           /\ \A i \in DOMAIN Front(s) : i \in DOMAIN s /\ Front(s)[i] = s[i]
<1> DEFINE n == Len(s)
           front == SubSeq(s, 1, n - 1)
<1>1. n \in Nat \ {0} /\ DOMAIN s = 1 .. n /\ \A i \in 1 .. n : s[i] \in S
  OBVIOUS
<1> HIDE DEF n
<1>2. \A i \in 1 .. n - 1 : i \in 1 .. n
  BY <1>1
<1>3. /\ front \in Seq(S)
      /\ Len(front) = IF 1 <= n - 1 THEN n - 1 - 1 + 1 ELSE 0
      /\ \A i \in 1 .. n - 1 - 1 + 1 : front[i] = s[1 + i - 1]
  BY <1>1, <1>2, SubSeqProperties
<1> HIDE DEF front
<1>4. Len(front) = n - 1 /\ DOMAIN front = 1 .. n - 1
  BY <1>1, <1>3
<1>5. \A i \in DOMAIN front : i \in DOMAIN s /\ front[i] = s[i]
  BY <1>1, <1>3, <1>4
<1>6. s[n] \in S /\ n \in DOMAIN s
  BY <1>1
<1> QED BY <1>1, <1>3, <1>4, <1>5, <1>6 DEF n, front, Last, Front

\* The frame that runs, while the transaction does
LEMMA RunningStands ==
    ASSUME RuntimeTyped, OpenStand, stage = "running"
    PROVE  /\ Running \in OpenFrames
           /\ Running.frame \in DOMAIN frames
           /\ Front(open) \in Seq(OpenFrames)
           /\ Len(open) \in Nat \ {0} /\ Len(Front(open)) = Len(open) - 1
           /\ \A i \in DOMAIN Front(open) : i \in DOMAIN open /\ Front(open)[i] = open[i]
<1>1. open \in Seq(OpenFrames) /\ open # <<>> /\ \A i \in DOMAIN open : open[i].frame \in DOMAIN frames
  BY DEF RuntimeTyped, OpenStand
<1>2. /\ Len(open) \in Nat \ {0} /\ Len(open) \in DOMAIN open
      /\ Last(open) = open[Len(open)] /\ Last(open) \in OpenFrames
      /\ Front(open) \in Seq(OpenFrames) /\ Len(Front(open)) = Len(open) - 1
      /\ \A i \in DOMAIN Front(open) : i \in DOMAIN open /\ Front(open)[i] = open[i]
  BY <1>1, LastAndFront
<1> QED BY <1>1, <1>2 DEF Running

\* Whatever ends, what is still open was entered.
LEMMA OpenStandsAtEnd ==
    ASSUME RuntimeTyped, OpenStand, End, DOMAIN frames \subseteq DOMAIN frames'
    PROVE  OpenStand' /\ open' \in Seq(OpenFrames) /\ stage' \in {"mined", "running"}
<1>1. /\ Front(open) \in Seq(OpenFrames)
      /\ Len(open) \in Nat \ {0} /\ Len(Front(open)) = Len(open) - 1
      /\ \A i \in DOMAIN Front(open) : i \in DOMAIN open /\ Front(open)[i] = open[i]
  BY RunningStands DEF End
<1>2. open' = Front(open) /\ stage' = IF Len(open) = 1 THEN "mined" ELSE "running"
  BY DEF End
<1>3. \A i \in DOMAIN open' : open'[i].frame \in DOMAIN frames'
  BY <1>1, <1>2 DEF OpenStand
<1>4. stage' = "running" => open' # <<>>
  BY <1>1, <1>2
<1> QED BY <1>1, <1>2, <1>3, <1>4 DEF OpenStand

LEMMA EnteredIsEntry ==
    ASSUME RuntimeTyped, OpenStand, stage = "running", NEW c \in Calls
    PROVE  Entered(c) \in Entries
BY RunningStands, FramesAreEntries DEF Entered, Asked, OpenFrames, RuntimeTyped

\* The variables keep their types, and a frame that is open is one of the trace,
\* whatever is called, written, destroyed, returned from and reverted.
THEOREM TransactionIsTyped == RuntimeSpec => [](RuntimeTyped /\ OpenStand)
<1>1. RuntimeInit => RuntimeTyped /\ OpenStand
  <2> SUFFICES ASSUME RuntimeInit PROVE RuntimeTyped /\ OpenStand
    OBVIOUS
  <2>1. world \in Holdings /\ before \in Holdings
    BY WorldsHold DEF RuntimeInit
  <2>2. frames \in Seq(Entries) /\ open \in Seq(OpenFrames) /\ DOMAIN open = {}
    BY DEF RuntimeInit
  <2> QED BY <2>1, <2>2 DEF RuntimeInit, RuntimeTyped, OpenStand
<1>2. RuntimeTyped /\ OpenStand /\ [RuntimeNext]_runtimeVars => RuntimeTyped' /\ OpenStand'
  <2> SUFFICES ASSUME RuntimeTyped, OpenStand, [RuntimeNext]_runtimeVars
               PROVE  RuntimeTyped' /\ OpenStand'
    OBVIOUS
  <2>1. ASSUME NEW e \in Entrances, Begin(e) PROVE RuntimeTyped' /\ OpenStand'
    <3> DEFINE caller(i) == IF i = 1 THEN "sender" ELSE e[i - 1].to
    <3>1. \A i \in DOMAIN e : caller(i) \in Accounts
      BY EntrancesAreAsked DEF Accounts
    <3>2. \A i \in DOMAIN e :
              Frame(e[i].type, caller(i), e[i].to, e[i].selector, e[i].value, i - 1, i - 1) \in Entries
      <4> SUFFICES ASSUME NEW i \in DOMAIN e
                   PROVE  Frame(e[i].type, caller(i), e[i].to, e[i].selector, e[i].value, i - 1, i - 1) \in Entries
        OBVIOUS
      <4>1. e[i] \in Asked /\ i - 1 \in Nat /\ caller(i) \in Accounts
        BY <3>1, EntrancesAreAsked
      <4> HIDE DEF caller
      <4> QED BY <4>1, FramesAreEntries
    <3>3. frames' = [i \in DOMAIN e |-> Frame(e[i].type, caller(i), e[i].to, e[i].selector, e[i].value, i - 1, i - 1)]
      BY <2>1 DEF Begin
    <3>4. \A i \in DOMAIN e : Opened(i, e[i].to, FALSE) \in OpenFrames
      <4> SUFFICES ASSUME NEW i \in DOMAIN e PROVE Opened(i, e[i].to, FALSE) \in OpenFrames
        OBVIOUS
      <4>1. i \in Nat \ {0} /\ e[i].to \in Accounts
        BY EntrancesAreAsked DEF Accounts
      <4> QED BY <4>1, OpenedIsTyped
    <3>5. open' = [i \in DOMAIN e |-> Opened(i, e[i].to, FALSE)] /\ stage' = "running"
      BY <2>1 DEF Begin
    <3> HIDE DEF caller
    <3>6. frames' \in Seq(Entries) /\ Len(frames') = Len(e) /\ DOMAIN frames' = DOMAIN e
      BY <3>2, <3>3, EntrancesAreAsked
    <3>7. open' \in Seq(OpenFrames) /\ Len(open') = Len(e) /\ DOMAIN open' = DOMAIN e
      <4> DEFINE opened == [i \in DOMAIN e |-> Opened(i, e[i].to, FALSE)]
      <4>1. DOMAIN e = 1 .. Len(e) /\ Len(e) \in Nat
        BY EntrancesAreAsked
      <4>2. opened \in [1 .. Len(e) -> OpenFrames]
        BY <3>4, <4>1
      <4>3. open' = opened
        BY <3>5
      <4> HIDE DEF opened
      <4> QED BY <4>1, <4>2, <4>3
    <3>8. OpenStand'
      BY <3>5, <3>6, <3>7, EntrancesAreAsked DEF OpenStand, Opened
    <3>9. again' \in BOOLEAN /\ UNCHANGED <<world, before, logs, undone>>
      BY <2>1 DEF Begin
    <3> QED BY <3>5, <3>6, <3>7, <3>8, <3>9 DEF RuntimeTyped
  <2>2. ASSUME NEW c \in Calls, Call(c) PROVE RuntimeTyped' /\ OpenStand'
    <3> DEFINE account == IF c.type = "DELEGATECALL" THEN Running.account ELSE c.to
               static == Running.static \/ c.type = "STATICCALL"
    <3>1. Entered(c) \in Entries
      BY <2>2, EnteredIsEntry DEF Call
    <3>2. account \in Accounts /\ static \in BOOLEAN
      BY <2>2, RunningStands DEF Call, OpenFrames, Accounts, Asked
    <3>3. frames' = Append(frames, Entered(c)) /\ open' = Append(open, Opened(Len(frames) + 1, account, static))
      BY <2>2 DEF Call
    <3>4. again' \in BOOLEAN /\ UNCHANGED <<stage, world, before, logs, undone>>
      BY <2>2 DEF Call, RuntimeTyped
    <3> HIDE DEF account, static
    <3>5. Opened(Len(frames) + 1, account, static) \in OpenFrames
      BY <3>2, OpenedIsTyped DEF RuntimeTyped
    <3>6. Opened(Len(frames) + 1, account, static).frame = Len(frames) + 1
      BY DEF Opened
    <3>7. RuntimeTyped'
      BY <3>1, <3>3, <3>4, <3>5 DEF RuntimeTyped
    <3>8. OpenStand'
      BY <3>1, <3>3, <3>5, <3>6 DEF OpenStand, RuntimeTyped
    <3> QED BY <3>7, <3>8
  <2>3. ASSUME NEW c \in Calls, Destroy(c) PROVE RuntimeTyped' /\ OpenStand'
    <3>1. Entered(c) \in Entries
      BY <2>3, EnteredIsEntry DEF Destroy, End
    <3>2. End /\ frames' = Append(frames, Entered(c)) /\ UNCHANGED <<world, before, logs, undone, again>>
      BY <2>3 DEF Destroy
    <3>3. frames' \in Seq(Entries) /\ DOMAIN frames \subseteq DOMAIN frames'
      BY <3>1, <3>2 DEF RuntimeTyped
    <3>4. OpenStand' /\ open' \in Seq(OpenFrames) /\ stage' \in {"mined", "running"}
      BY <3>2, <3>3, OpenStandsAtEnd
    <3> QED BY <3>2, <3>3, <3>4 DEF RuntimeTyped
  <2>4. ASSUME NEW w \in Writes, Write(w) PROVE RuntimeTyped' /\ OpenStand'
    <3>1. world' \in Holdings
      BY <2>4, WritesHold DEF Write, RuntimeTyped
    <3>2. Event(w) \subseteq Events
      BY DEF Event, If, Events
    <3> QED BY <2>4, <3>1, <3>2 DEF Write, RuntimeTyped, OpenStand
  <2>5. CASE Return
    <3>1. End /\ UNCHANGED <<frames, world, before, logs, undone, again>>
      BY <2>5 DEF Return
    <3>2. OpenStand' /\ open' \in Seq(OpenFrames) /\ stage' \in {"mined", "running"}
      BY <3>1, OpenStandsAtEnd
    <3> QED BY <3>1, <3>2 DEF RuntimeTyped
  <2>6. CASE Revert
    <3>1. /\ End
          /\ frames' = [frames EXCEPT ![Running.frame].failed = TRUE]
          /\ world' = Running.world /\ logs' = Running.logs
          /\ undone' = (undone \/ world # Running.world)
          /\ UNCHANGED <<before, again>>
      BY <2>6 DEF Revert
    <3>2. Running \in OpenFrames /\ Running.frame \in DOMAIN frames
      BY <3>1, RunningStands DEF End
    <3>3. frames' \in Seq(Entries) /\ DOMAIN frames' = DOMAIN frames
      <4>1. [frames[Running.frame] EXCEPT !.failed = TRUE] \in Entries
        <5>1. frames[Running.frame] \in Entries
          BY <3>2 DEF RuntimeTyped
        <5> QED BY <5>1 DEF Entries
      <4>2. frames \in Seq(Entries) /\ frames' = [frames EXCEPT ![Running.frame] = [frames[Running.frame] EXCEPT !.failed = TRUE]]
        BY <3>1 DEF RuntimeTyped
      <4> QED BY <3>2, <4>1, <4>2
    <3>4. OpenStand' /\ open' \in Seq(OpenFrames) /\ stage' \in {"mined", "running"}
      BY <3>1, <3>3, OpenStandsAtEnd
    <3>5. world' \in Holdings /\ logs' \in SUBSET Events
      BY <3>1, <3>2 DEF OpenFrames
    <3> QED BY <3>1, <3>3, <3>4, <3>5 DEF RuntimeTyped
  <2>7. CASE \E listed \in Listings : Analyze(listed)
    BY <2>7 DEF Analyze, RuntimeTyped, OpenStand
  <2>8. CASE Classify
    BY <2>8 DEF Classify, RuntimeTyped, OpenStand
  <2>9. CASE \E a \in DOMAIN Attacks, c \in Contexts : Simulate(a, c)
    BY <2>9 DEF Simulate, RuntimeTyped, OpenStand
  <2>10. CASE UNCHANGED runtimeVars
    BY <2>10 DEF runtimeVars, RuntimeTyped, OpenStand
  <2> QED BY <2>1, <2>2, <2>3, <2>4, <2>5, <2>6, <2>7, <2>8, <2>9, <2>10 DEF RuntimeNext
<1> QED BY <1>1, <1>2, PTL DEF RuntimeSpec

LEMMA EntriesHaveTargets ==
    ASSUME NEW e \in Entries
    PROVE  e.to # NoAddress
BY RuntimeAssumption DEF Entries

\* A trace that grows keeps its repeated calls and its failures.
LEMMA AppendKeeps ==
    ASSUME NEW f \in Seq(Entries), NEW g \in Entries
    PROVE  /\ Recursive(f) => Recursive(Append(f, g))
           /\ Failures(f) # {} => Failures(Append(f, g)) # {}
<1>1. /\ \A i \in DOMAIN f : i \in DOMAIN Append(f, g) /\ Append(f, g)[i] = f[i]
  OBVIOUS
<1>2. ASSUME Recursive(f) PROVE Recursive(Append(f, g))
  <2>1. PICK i \in DOMAIN f, j \in DOMAIN f : i # j /\ f[i].to # NoAddress /\ SameCall(f[i], f[j])
    BY <1>2 DEF Recursive
  <2> QED BY <1>1, <2>1 DEF Recursive
<1>3. ASSUME Failures(f) # {} PROVE Failures(Append(f, g)) # {}
  <2>1. PICK i \in DOMAIN f : f[i].failed
    BY <1>3 DEF Failures
  <2> QED BY <1>1, <2>1 DEF Failures
<1> QED BY <1>2, <1>3

\* A call of the trace made once more is a repeated call.
LEMMA AppendRepeats ==
    ASSUME NEW f \in Seq(Entries), NEW g \in Entries, NEW i \in DOMAIN f, SameCall(f[i], g)
    PROVE  Recursive(Append(f, g))
<1> DEFINE j == Len(f) + 1
<1>1. i \in DOMAIN Append(f, g) /\ Append(f, g)[i] = f[i] /\ i # j
  OBVIOUS
<1>2. j \in DOMAIN Append(f, g) /\ Append(f, g)[j] = g
  OBVIOUS
<1>3. f[i].to # NoAddress
  BY EntriesHaveTargets
<1> HIDE DEF j
<1> QED BY <1>1, <1>2, <1>3 DEF Recursive

\* The trace of a frame that fails keeps its calls.
LEMMA FailureKeeps ==
    ASSUME NEW f \in Seq(Entries), NEW k \in DOMAIN f
    PROVE  LET g == [f EXCEPT ![k].failed = TRUE]
           IN  (Recursive(f) => Recursive(g)) /\ Failures(g) # {}
<1> DEFINE g == [f EXCEPT ![k].failed = TRUE]
<1>1. DOMAIN g = DOMAIN f /\ \A i \in DOMAIN f : g[i] = IF i = k THEN [f[i] EXCEPT !.failed = TRUE] ELSE f[i]
  OBVIOUS
<1>2. \A i \in DOMAIN f : f[i] \in Entries
  OBVIOUS
<1>3. \A i \in DOMAIN f : g[i].from = f[i].from /\ g[i].to = f[i].to /\ g[i].selector = f[i].selector
  BY <1>1, <1>2 DEF Entries
<1>4. g[k].failed
  BY <1>1, <1>2 DEF Entries
<1> HIDE DEF g
<1>5. Recursive(f) => Recursive(g)
  BY <1>1, <1>3 DEF Recursive, SameCall
<1>6. Failures(g) # {}
  BY <1>1, <1>4 DEF Failures
<1> QED BY <1>5, <1>6 DEF g

\* No step makes the trace forget a repeated call or a failure.
LEMMA TraceStays ==
    ASSUME RuntimeTyped, OpenStand, TraceRemembers, [RuntimeNext]_runtimeVars
    PROVE  TraceRemembers'
<1>1. frames \in Seq(Entries)
  BY DEF RuntimeTyped
<1>2. ASSUME NEW e \in Entrances, Begin(e) PROVE TraceRemembers'
  <2>1. again' = (\E i, j \in DOMAIN e : i # j /\ SameCall(frames'[i], frames'[j]))
    BY <1>2 DEF Begin
  <2>2. DOMAIN frames' = DOMAIN e /\ \A i \in DOMAIN e : frames'[i].to = e[i].to
    BY <1>2 DEF Begin, Frame
  <2>3. \A i \in DOMAIN e : e[i].to # NoAddress
    BY EntrancesAreAsked, RuntimeAssumption
  <2>4. again' => Recursive(frames')
    BY <2>1, <2>2, <2>3 DEF Recursive
  <2>5. ~undone' /\ stage' = "running"
    BY <1>2 DEF Begin, TraceRemembers
  <2> QED BY <2>4, <2>5 DEF TraceRemembers
<1>3. ASSUME NEW c \in Calls, Call(c) PROVE TraceRemembers'
  <2>1. Entered(c) \in Entries
    BY <1>3, EnteredIsEntry DEF Call
  <2>2. /\ frames' = Append(frames, Entered(c)) /\ undone' = undone
        /\ again' = (again \/ \E o \in Range(open) : SameCall(frames[o.frame], Entered(c)))
    BY <1>3 DEF Call
  <2>3. \A o \in Range(open) : o.frame \in DOMAIN frames
    BY DEF OpenStand, Range
  <2>4. again' => Recursive(frames')
    BY <1>1, <2>1, <2>2, <2>3, AppendKeeps, AppendRepeats DEF TraceRemembers
  <2>5. undone' => Failures(frames') # {}
    BY <1>1, <2>1, <2>2, AppendKeeps DEF TraceRemembers
  <2>6. stage' = "running"
    BY <1>3 DEF Call
  <2> QED BY <2>4, <2>5, <2>6 DEF TraceRemembers
<1>4. ASSUME NEW c \in Calls, Destroy(c) PROVE TraceRemembers'
  <2>1. Entered(c) \in Entries
    BY <1>4, EnteredIsEntry DEF Destroy, End
  <2>2. frames' = Append(frames, Entered(c)) /\ UNCHANGED <<undone, again>>
    BY <1>4 DEF Destroy
  <2>3. stage' # "pending"
    BY <1>4 DEF Destroy, End
  <2> QED BY <1>1, <2>1, <2>2, <2>3, AppendKeeps DEF TraceRemembers
<1>5. CASE Revert
  <2>1. frames' = [frames EXCEPT ![Running.frame].failed = TRUE] /\ again' = again /\ stage' # "pending"
    BY <1>5 DEF Revert, End
  <2>2. Running.frame \in DOMAIN frames
    BY <1>5, RunningStands DEF Revert, End
  <2>3. (Recursive(frames) => Recursive(frames')) /\ Failures(frames') # {}
    BY <1>1, <2>1, <2>2, FailureKeeps
  <2> QED BY <2>1, <2>3 DEF TraceRemembers
<1>6. ASSUME NEW w \in Writes, Write(w) PROVE TraceRemembers'
  BY <1>6 DEF Write, TraceRemembers
<1>7. CASE Return
  BY <1>7 DEF Return, End, TraceRemembers
<1>8. CASE \E listed \in Listings : Analyze(listed)
  BY <1>8 DEF Analyze, TraceRemembers
<1>9. CASE Classify
  BY <1>9 DEF Classify, TraceRemembers
<1>10. CASE \E a \in DOMAIN Attacks, c \in Contexts : Simulate(a, c)
  BY <1>10 DEF Simulate, TraceRemembers
<1>11. CASE UNCHANGED runtimeVars
  BY <1>11 DEF runtimeVars, TraceRemembers
<1> QED BY <1>2, <1>3, <1>4, <1>5, <1>6, <1>7, <1>8, <1>9, <1>10, <1>11 DEF RuntimeNext

\* A report stays that of the transaction it was made for.
LEMMA ReportStays ==
    ASSUME ReportStands, [RuntimeNext]_runtimeVars
    PROVE  ReportStands'
<1> DEFINE Settled == {"reported", "classified", "simulated"}
<1>1. ASSUME NEW listed \in Listings, Analyze(listed) PROVE ReportStands'
  <2>1. /\ stage' = "reported" /\ UNCHANGED <<frames, world, before, logs>>
        /\ report'.listed = listed
        /\ report'.trace = Graded(TraceSignals(frames, {}))
        /\ report'.state = StateEvidence({Diff(s, before[s], world[s]) : s \in listed}, logs, frames)
    BY <1>1 DEF Analyze
  <2>2. Listings' = Listings
    BY <2>1 DEF Listings, Net, Changed
  <2> QED BY <2>1, <2>2 DEF ReportStands
<1>2. CASE Classify
  BY <1>2 DEF Classify, ReportStands
<1>3. ASSUME NEW a \in DOMAIN Attacks, NEW c \in Contexts, Simulate(a, c) PROVE ReportStands'
  BY <1>3 DEF Simulate, ReportStands
<1>4. ASSUME stage' \notin Settled PROVE ReportStands'
  BY <1>4 DEF ReportStands
<1>5. CASE UNCHANGED runtimeVars
  BY <1>5 DEF runtimeVars, ReportStands, Listings, Net, Changed
<1>6. ASSUME NEW e \in Entrances, Begin(e) PROVE stage' \notin Settled
  BY <1>6 DEF Begin
<1>7. ASSUME NEW c \in Calls, Call(c) \/ Destroy(c) PROVE stage' \notin Settled
  BY <1>7 DEF Call, Destroy, End
<1>8. ASSUME NEW w \in Writes, Write(w) PROVE stage' \notin Settled
  BY <1>8 DEF Write
<1>9. CASE Return \/ Revert
  BY <1>4, <1>9 DEF Return, Revert, End
<1> QED BY <1>1, <1>2, <1>3, <1>4, <1>5, <1>6, <1>7, <1>8, <1>9 DEF RuntimeNext

\* The inductive invariant: what happened to the transaction can be read from its
\* trace, and the report is that of its trace, its events and its net effect.
THEOREM TransactionStands == RuntimeSpec => []RuntimeInv
<1>1. RuntimeInit => TraceRemembers /\ ReportStands
  BY DEF RuntimeInit, TraceRemembers, ReportStands
<1>2. RuntimeTyped /\ OpenStand /\ TraceRemembers /\ [RuntimeNext]_runtimeVars => TraceRemembers'
  BY TraceStays
<1>3. ReportStands /\ [RuntimeNext]_runtimeVars => ReportStands'
  BY ReportStays
<1> QED BY <1>1, <1>2, <1>3, TransactionIsTyped, PTL DEF RuntimeSpec, RuntimeInv

------------------------------------------------------------------------------

\* The five answers of the state engine, whatever the diffs, the events and the trace
Said(diffs, events, trace) ==
    If(RolesChanged(diffs, events) # {}, "owner_changed")
    \cup If(\E d \in StorageChanges(diffs) : d.slot = "implementation", "implementation_changed")
    \cup If(AllowancesGranted(diffs, events), "unlimited_allowance_granted")
    \cup SupplySignals(diffs)
    \cup If(Failures(trace) = {}, "state_transition_observed")

LEMMA GradedSignals ==
    ASSUME NEW S, NEW T
    PROVE  Signals(S \cup Graded(T)) = Signals(S) \cup T
<1>1. Signals(S \cup Graded(T)) = Signals(S) \cup Signals(Graded(T))
  BY DEF Signals
<1>2. \A e \in Graded(T) : e.signal \in T
  BY DEF Graded
<1>3. \A t \in T : [signal |-> t, severity |-> Severity[t]] \in Graded(T)
  BY DEF Graded
<1>4. \A t \in T : \E e \in Graded(T) : e.signal = t
  BY <1>3
<1> QED BY <1>1, <1>2, <1>4 DEF Signals

LEMMA OwnershipSignals ==
    ASSUME NEW R
    PROVE  Signals(OwnershipEvidence(R)) = If(R # {}, "owner_changed")
<1>1. CASE R = {}
  BY <1>1 DEF OwnershipEvidence, Signals, If
<1>2. CASE R # {}
  <2>1. PICK severity : OwnershipEvidence(R) = {[signal |-> "owner_changed", severity |-> severity]}
    BY <1>2 DEF OwnershipEvidence
  <2> QED BY <1>2, <2>1 DEF Signals, If
<1> QED BY <1>1, <1>2

\* What is told of the state is what the five analyzers found.
LEMMA StateSignals ==
    ASSUME NEW D, NEW L, NEW F
    PROVE  Signals(StateEvidence(D, L, F)) = Said(D, L, F)
<1> DEFINE others ==
        If(\E d \in StorageChanges(D) : d.slot = "implementation", "implementation_changed")
        \cup If(AllowancesGranted(D, L), "unlimited_allowance_granted")
        \cup SupplySignals(D)
        \cup If(Failures(F) = {}, "state_transition_observed")
<1>1. StateEvidence(D, L, F) = OwnershipEvidence(RolesChanged(D, L)) \cup Graded(others)
  BY DEF StateEvidence
<1>2. Said(D, L, F) = If(RolesChanged(D, L) # {}, "owner_changed") \cup others
  BY DEF Said
<1> HIDE DEF others
<1> QED BY <1>1, <1>2, GradedSignals, OwnershipSignals

LEMMA RolesAre == Range(Roles) = {"governor", "owner", "proxy_admin"}
<1>1. DOMAIN Roles = {1, 2, 3}
  BY DEF Roles
<1>2. Roles[1] = "governor" /\ Roles[2] = "owner" /\ Roles[3] = "proxy_admin"
  BY DEF Roles
<1> QED BY <1>1, <1>2 DEF Range

\* The diffs of two holdings over the slots a provider lists
Diffs(b, w, listed) == {Diff(s, b[s], w[s]) : s \in listed}
Listable(b, w, listed) ==
    /\ listed \subseteq Slots
    /\ \A s \in Slots : w[s] # b[s] => s \in listed

SupplySignal(delta) ==
    IF delta >= LargeDelta THEN "large_supply_inflation"
    ELSE IF delta > 0 THEN "supply_mint" ELSE "supply_burn"

LEMMA DiffsFields ==
    ASSUME NEW b, NEW w, NEW listed, NEW d \in Diffs(b, w, listed)
    PROVE  d.slot \in listed /\ d.before = b[d.slot] /\ d.after = w[d.slot]
BY DEF Diffs, Diff

LEMMA DiffsOf ==
    ASSUME NEW b, NEW w, NEW listed, NEW s \in listed
    PROVE  \E d \in Diffs(b, w, listed) : d.slot = s /\ d.before = b[s] /\ d.after = w[s]
<1>1. Diff(s, b[s], w[s]) \in Diffs(b, w, listed)
  BY DEF Diffs
<1> QED BY <1>1 DEF Diff

LEMMA StorageMeans ==
    ASSUME NEW b, NEW w, NEW listed, Listable(b, w, listed), NEW s \in StorageSlots
    PROVE  (\E d \in StorageChanges(Diffs(b, w, listed)) : d.slot = s) <=> w[s] # b[s]
<1>1. s \in Slots
  BY RolesAre DEF StorageSlots, Slots
<1>2. ASSUME NEW d \in StorageChanges(Diffs(b, w, listed)), d.slot = s PROVE w[s] # b[s]
  BY <1>2, DiffsFields DEF StorageChanges
<1>3. ASSUME w[s] # b[s] PROVE \E d \in StorageChanges(Diffs(b, w, listed)) : d.slot = s
  <2>1. PICK d \in Diffs(b, w, listed) : d.slot = s /\ d.before = b[s] /\ d.after = w[s]
    BY <1>1, <1>3, DiffsOf DEF Listable
  <2> QED BY <1>3, <2>1 DEF StorageChanges
<1> QED BY <1>2, <1>3

LEMMA NoneMapped ==
    ASSUME NEW L \in SUBSET Events
    PROVE  Mapped(L) = {}
BY DEF Mapped, Events

LEMMA RolesMean ==
    ASSUME NEW b, NEW w, NEW listed, Listable(b, w, listed), NEW L \in SUBSET Events
    PROVE  RolesChanged(Diffs(b, w, listed), L) = {r \in Range(Roles) : w[r] # b[r]}
<1> DEFINE D == Diffs(b, w, listed)
<1>1. \A r \in Range(Roles) : (\E d \in StorageChanges(D) : d.slot = r) <=> w[r] # b[r]
  <2> SUFFICES ASSUME NEW r \in Range(Roles)
               PROVE  (\E d \in StorageChanges(D) : d.slot = r) <=> w[r] # b[r]
    OBVIOUS
  <2>1. r \in StorageSlots
    BY DEF StorageSlots
  <2> QED BY <2>1, StorageMeans
<1> HIDE DEF D
<1>2. RolesChanged(D, L) = {d.slot : d \in {d \in StorageChanges(D) : d.slot \in Range(Roles)}}
  BY NoneMapped DEF RolesChanged, If
<1> QED BY <1>1, <1>2 DEF D

LEMMA AllowanceMeans ==
    ASSUME NEW b, NEW w, NEW listed, Listable(b, w, listed), NEW L \in SUBSET Events
    PROVE  AllowancesGranted(Diffs(b, w, listed), L) <=> "allowance" \in listed /\ w["allowance"] >= Unlimited
<1> DEFINE D == Diffs(b, w, listed)
<1>1. AllowancesGranted(D, L) <=> \E d \in D : d.slot = "allowance" /\ d.after >= Unlimited
  BY NoneMapped DEF AllowancesGranted
<1>2. (\E d \in D : d.slot = "allowance" /\ d.after >= Unlimited) <=> "allowance" \in listed /\ w["allowance"] >= Unlimited
  BY DiffsFields, DiffsOf
<1> QED BY <1>1, <1>2

LEMMA SupplyMeans ==
    ASSUME NEW b \in Holdings, NEW w \in Holdings, NEW listed, Listable(b, w, listed)
    PROVE  SupplySignals(Diffs(b, w, listed)) =
               IF w["supply"] = b["supply"] THEN {} ELSE {SupplySignal(w["supply"] - b["supply"])}
<1> DEFINE D == Diffs(b, w, listed)
           x == b["supply"]
           y == w["supply"]
           shifted == {d \in D : d.slot = "supply" /\ d.before # d.after}
<1>1. "supply" \in Slots /\ "supply" \in Amounts
  BY DEF Slots, Amounts
<1>2. x \in Int /\ y \in Int
  BY <1>1, HoldingsAreFunctions
<1>3. \A d \in shifted : d.before = x /\ d.after = y /\ x # y
  BY DiffsFields
<1>4. x # y => shifted # {}
  BY <1>1, DiffsOf DEF Listable
<1>5. SupplySignals(D) =
        {CASE d.after - d.before >= LargeDelta -> "large_supply_inflation"
           [] d.after - d.before \in 1 .. (LargeDelta - 1) -> "supply_mint"
           [] d.after < d.before -> "supply_burn" : d \in shifted}
  BY DEF SupplySignals
<1> HIDE DEF D, x, y, shifted
<1>6. \A d \in shifted : (CASE d.after - d.before >= LargeDelta -> "large_supply_inflation"
           [] d.after - d.before \in 1 .. (LargeDelta - 1) -> "supply_mint"
           [] d.after < d.before -> "supply_burn") = SupplySignal(y - x)
  BY <1>2, <1>3 DEF SupplySignal, LargeDelta
<1>7. SupplySignals(D) = {SupplySignal(y - x) : d \in shifted}
  BY <1>5, <1>6
<1>8. SupplySignals(D) = IF y = x THEN {} ELSE {SupplySignal(y - x)}
  BY <1>3, <1>4, <1>7
<1> QED BY <1>8 DEF D, x, y

------------------------------------------------------------------------------

\* The evidence of the state is that of the diffs the provider listed.
LEMMA ReportMeans ==
    ASSUME RuntimeTyped, ReportStands, stage = "reported"
    PROVE  /\ Listable(before, world, report.listed)
           /\ report.state = StateEvidence(Diffs(before, world, report.listed), logs, frames)
           /\ StateTold = Said(Diffs(before, world, report.listed), logs, frames)
           /\ TraceTold = TraceSignals(frames, {})
<1>1. /\ report.listed \in Listings
      /\ report.trace = Graded(TraceSignals(frames, {}))
      /\ report.state = StateEvidence(Diffs(before, world, report.listed), logs, frames)
  BY DEF ReportStands, Diffs
<1>2. StorageSlots \subseteq Slots
  BY RolesAre DEF StorageSlots, Slots
<1>3. Net \subseteq Slots /\ \A s \in Slots : s \in Net <=> world[s] # before[s]
  BY DEF Net, Changed
<1>4. Listable(before, world, report.listed)
  BY <1>1, <1>2, <1>3 DEF Listable, Listings
<1>5. StateTold = Said(Diffs(before, world, report.listed), logs, frames)
  BY <1>1, StateSignals DEF StateTold
<1>6. TraceTold = TraceSignals(frames, {})
  <2>1. Signals({} \cup Graded(TraceSignals(frames, {}))) = Signals({}) \cup TraceSignals(frames, {})
    BY GradedSignals
  <2> QED BY <1>1, <2>1 DEF TraceTold, Signals
<1> QED BY <1>1, <1>4, <1>5, <1>6

\* What the state engine tells of a finished transaction
NetSaid(listed) ==
    If(\E r \in Range(Roles) : Changed(r), "owner_changed")
    \cup If(Changed("implementation"), "implementation_changed")
    \cup If("allowance" \in listed /\ world["allowance"] >= Unlimited, "unlimited_allowance_granted")
    \cup (IF Changed("supply") THEN {SupplySignal(world["supply"] - before["supply"])} ELSE {})
    \cup If(Failures(frames) = {}, "state_transition_observed")

LEMMA SaidIs ==
    ASSUME RuntimeTyped, NEW listed, Listable(before, world, listed)
    PROVE  Said(Diffs(before, world, listed), logs, frames) = NetSaid(listed)
<1> DEFINE D == Diffs(before, world, listed)
<1>2. before \in Holdings /\ world \in Holdings /\ logs \in SUBSET Events
  BY DEF RuntimeTyped
<1>3. RolesChanged(D, logs) # {} <=> \E r \in Range(Roles) : Changed(r)
  <2>1. RolesChanged(D, logs) = {r \in Range(Roles) : world[r] # before[r]}
    BY <1>2, RolesMean
  <2> QED BY <2>1 DEF Changed
<1>4. (\E d \in StorageChanges(D) : d.slot = "implementation") <=> Changed("implementation")
  <2>1. "implementation" \in StorageSlots
    BY DEF StorageSlots
  <2> QED BY <2>1, StorageMeans DEF Changed
<1>5. AllowancesGranted(D, logs) <=> "allowance" \in listed /\ world["allowance"] >= Unlimited
  BY <1>2, AllowanceMeans
<1>6. SupplySignals(D) = IF Changed("supply") THEN {SupplySignal(world["supply"] - before["supply"])} ELSE {}
  BY <1>2, SupplyMeans DEF Changed
<1> HIDE DEF D
<1>8. If(RolesChanged(D, logs) # {}, "owner_changed") = If(\E r \in Range(Roles) : Changed(r), "owner_changed")
  BY <1>3 DEF If
<1>9. If(\E d \in StorageChanges(D) : d.slot = "implementation", "implementation_changed")
      = If(Changed("implementation"), "implementation_changed")
  BY <1>4 DEF If
<1>10. If(AllowancesGranted(D, logs), "unlimited_allowance_granted")
       = If("allowance" \in listed /\ world["allowance"] >= Unlimited, "unlimited_allowance_granted")
  BY <1>5 DEF If
<1> QED BY <1>6, <1>8, <1>9, <1>10 DEF Said, NetSaid, D

LEMMA StateToldIs ==
    ASSUME RuntimeTyped, ReportStands, stage = "reported"
    PROVE  StateTold = NetSaid(report.listed) /\ (Changed("allowance") => "allowance" \in report.listed)
<1>1. "allowance" \in Slots
  BY DEF Slots
<1> QED BY <1>1, ReportMeans, SaidIs DEF Listable, Changed

\* A change that lasted is told, and so is a call made again while it was open:
\* emit_trace_evidence and emit_state_evidence miss none, for any transaction.
THEOREM TheChangesAreTold == RuntimeSpec => []ChangesAreTold
<1>1. RuntimeInv => ChangesAreTold
  <2> SUFFICES ASSUME RuntimeInv, stage = "reported"
               PROVE  ChangesAreTold
    BY DEF ChangesAreTold
  <2> DEFINE x == before["supply"]
             y == world["supply"]
  <2>1. TraceTold = TraceSignals(frames, {})
    BY ReportMeans DEF RuntimeInv
  <2>2. again => "recursive_execution" \in TraceTold
    BY <2>1 DEF RuntimeInv, TraceRemembers, TraceSignals, If
  <2>3. StateTold = NetSaid(report.listed) /\ (Changed("allowance") => "allowance" \in report.listed)
    BY StateToldIs DEF RuntimeInv
  <2>4. /\ Changed("implementation") => "implementation_changed" \in StateTold
        /\ (\E r \in Range(Roles) : Changed(r)) => "owner_changed" \in StateTold
        /\ Changed("allowance") /\ world["allowance"] >= Unlimited => "unlimited_allowance_granted" \in StateTold
    BY <2>3 DEF NetSaid, If
  <2>5. x \in Int /\ y \in Int
    BY HoldingsAreFunctions DEF RuntimeInv, RuntimeTyped, Amounts
  <2>6. x # y => SupplySignal(y - x) \in StateTold
    BY <2>3 DEF NetSaid, Changed
  <2> HIDE DEF x, y
  <2>7. /\ y - x >= LargeDelta => "large_supply_inflation" \in StateTold
        /\ y - x > 0 => StateTold \cap {"large_supply_inflation", "supply_mint"} # {}
        /\ y - x < 0 => "supply_burn" \in StateTold
    BY <2>5, <2>6 DEF SupplySignal, LargeDelta
  <2> QED BY <2>2, <2>4, <2>7 DEF ChangesAreTold, x, y
<1> QED BY <1>1, TransactionStands, PTL

------------------------------------------------------------------------------

\* The first role that changed stands for all, and the proxy's admin is the last.
LEMMA FirstRole ==
    ASSUME NEW R, R \subseteq Range(Roles),
           [signal |-> "owner_changed", severity |-> "high"] \in OwnershipEvidence(R)
    PROVE  R = {"proxy_admin"}
<1> DEFINE isFirst(i) == Roles[i] \in R /\ \A j \in 1 .. (i - 1) : Roles[j] \notin R
           first == CHOOSE i \in 1 .. Len(Roles) : isFirst(i)
<1>1. Len(Roles) = 3 /\ Roles[1] = "governor" /\ Roles[2] = "owner" /\ Roles[3] = "proxy_admin"
  BY DEF Roles
<1>2. R # {} /\ R \subseteq {"governor", "owner", "proxy_admin"}
  BY RolesAre DEF OwnershipEvidence
<1>3. Roles[first] = "proxy_admin"
  BY <1>2 DEF OwnershipEvidence
<1>4. \E i \in 1 .. Len(Roles) : isFirst(i)
  <2>1. CASE "governor" \in R
    <3>1. isFirst(1) /\ 1 \in 1 .. Len(Roles)
      BY <1>1, <2>1
    <3> QED BY <3>1
  <2>2. CASE "governor" \notin R /\ "owner" \in R
    <3>1. isFirst(2) /\ 2 \in 1 .. Len(Roles)
      BY <1>1, <2>2
    <3> QED BY <3>1
  <2>3. CASE R = {"proxy_admin"}
    <3>1. isFirst(3) /\ 3 \in 1 .. Len(Roles)
      BY <1>1, <2>3
    <3> QED BY <3>1
  <2> QED BY <1>2, <2>1, <2>2, <2>3
<1>5. first \in 1 .. Len(Roles) /\ isFirst(first)
  BY <1>4
<1> HIDE DEF first
<1>6. first = 3
  BY <1>1, <1>3, <1>5
<1>7. "governor" \notin R /\ "owner" \notin R
  BY <1>1, <1>5, <1>6
<1> QED BY <1>2, <1>7

\* The highest severity of an authority is that of the proxy's admin alone.
LEMMA HighIsAdmins ==
    ASSUME RuntimeTyped, ReportStands, stage = "reported",
           [signal |-> "owner_changed", severity |-> "high"] \in report.state
    PROVE  \A r \in Range(Roles) : Changed(r) <=> r = "proxy_admin"
<1> DEFINE high == [signal |-> "owner_changed", severity |-> "high"]
<1>1. PICK listed :
          /\ Listable(before, world, listed)
          /\ report.state = StateEvidence(Diffs(before, world, listed), logs, frames)
  BY ReportMeans
<1>0. before \in Holdings /\ world \in Holdings /\ logs \in SUBSET Events
  BY DEF RuntimeTyped
<1> DEFINE D == Diffs(before, world, listed)
           R == RolesChanged(D, logs)
           others ==
               If(\E d \in StorageChanges(D) : d.slot = "implementation", "implementation_changed")
               \cup If(AllowancesGranted(D, logs), "unlimited_allowance_granted")
               \cup SupplySignals(D)
               \cup If(Failures(frames) = {}, "state_transition_observed")
<1>2. high \in OwnershipEvidence(R) \cup Graded(others)
  BY <1>1 DEF StateEvidence
<1>3. SupplySignals(D) \subseteq {"large_supply_inflation", "supply_mint", "supply_burn"}
  BY <1>0, <1>1, SupplyMeans DEF SupplySignal
<1>4. "owner_changed" \notin others
  BY <1>3 DEF If
<1>5. R = {r \in Range(Roles) : world[r] # before[r]}
  BY <1>0, <1>1, RolesMean
<1> HIDE DEF others, D, R
<1>6. high \notin Graded(others)
  BY <1>4 DEF Graded
<1>7. R = {"proxy_admin"}
  BY <1>2, <1>5, <1>6, FirstRole
<1> QED BY <1>5, <1>7 DEF Changed

\* The functions a privileged operation may be
Operations == Upgrades \cup Authorities \cup Abilities

LEMMA OperationIs ==
    ASSUME NEW sent
    PROVE  LET named == IF FunctionName(sent) = "burnFrom" THEN "burn" ELSE FunctionName(sent)
           IN  PrivilegedOperation(sent) =
                   IF sent.to # NoAddress /\ Decoded(sent) /\ named \in Operations THEN {named} ELSE {}
BY DEF PrivilegedOperation, Operations

\* What is told of a transaction: its operation, and whether it approves
LEMMA TransactionTells ==
    ASSUME NEW sent \in Transactions, Category(sent) \in DOMAIN Classified
    PROVE  LET told == TransactionSignals(sent)
           IN  /\ "upgrade_executed" \in told <=> PrivilegedOperation(sent) \cap Upgrades # {}
               /\ "privileged_mint" \in told <=> "mint" \in PrivilegedOperation(sent)
               /\ "privileged_burn" \in told <=> "burn" \in PrivilegedOperation(sent)
               /\ told \cap {"token_approval", "unlimited_approval"} # {} => Approves(sent)
<1> DEFINE Watched == {"upgrade_executed", "privileged_mint", "privileged_burn", "token_approval", "unlimited_approval"}
           asked == PrivilegedOperation(sent)
           operated == {IF o \in Upgrades THEN "upgrade_executed" ELSE Privileged[o] : o \in asked}
           granted == If(Approves(sent), IF UnlimitedApproval(sent) THEN "unlimited_approval" ELSE "token_approval")
           large == If(asked # {} /\ LargeTransfer(sent), "large_privileged_transfer")
<1>1. TransactionSignals(sent) = {Classified[Category(sent)]} \cup granted \cup operated \cup large
  BY DEF TransactionSignals
<1>2. Classified[Category(sent)] \notin Watched
  BY DEF Classified
<1>3. large \cap Watched = {}
  BY DEF If
<1>4. granted \subseteq {"token_approval", "unlimited_approval"} /\ (granted # {} => Approves(sent))
  BY DEF If
<1>5. asked \subseteq Operations
  BY OperationIs
<1>6. \A o \in Operations \ Upgrades :
          /\ Privileged[o] \notin {"upgrade_executed", "token_approval", "unlimited_approval"}
          /\ Privileged[o] = "privileged_mint" <=> o = "mint"
          /\ Privileged[o] = "privileged_burn" <=> o = "burn"
  BY DEF Operations, Upgrades, Authorities, Abilities, Privileged
<1>7. "mint" \notin Upgrades /\ "burn" \notin Upgrades
  BY DEF Upgrades
<1> HIDE DEF asked
<1>8. /\ "upgrade_executed" \in operated <=> asked \cap Upgrades # {}
      /\ "privileged_mint" \in operated <=> "mint" \in asked
      /\ "privileged_burn" \in operated <=> "burn" \in asked
      /\ operated \cap {"token_approval", "unlimited_approval"} = {}
  BY <1>5, <1>6, <1>7
<1> HIDE DEF operated, granted, large
<1> QED BY <1>1, <1>2, <1>3, <1>4, <1>8 DEF asked

\* The category is that of the operation, unless it is an approval.
LEMMA CategoryIs ==
    ASSUME NEW sent \in Transactions
    PROVE  /\ Category(sent) \in DOMAIN Classified
           /\ Category(sent) = "upgrade" <=> PrivilegedOperation(sent) \cap Upgrades # {}
           /\ Category(sent) = "mint" <=> "mint" \in PrivilegedOperation(sent)
           /\ Category(sent) = "burn" <=> "burn" \in PrivilegedOperation(sent)
           /\ Approves(sent) => Category(sent) = "approval"
<1> DEFINE asked == PrivilegedOperation(sent)
           named == IF FunctionName(sent) = "burnFrom" THEN "burn" ELSE FunctionName(sent)
           category == Category(sent)
<1>1. asked = IF sent.to # NoAddress /\ Decoded(sent) /\ named \in Operations THEN {named} ELSE {}
  BY OperationIs
<1>2. DOMAIN Classified = {"deployment", "approval", "upgrade", "governance", "mint", "burn", "transfer",
                           "swap", "liquidity", "bridge", "flash_loan", "unknown"}
  BY DEF Classified
<1>3. CASE sent.to = NoAddress
  <2>1. category = "deployment" /\ asked = {} /\ ~Approves(sent)
    BY <1>1, <1>3 DEF Category, Approves
  <2> HIDE DEF category, asked
  <2> QED BY <1>2, <2>1 DEF category, asked
<1>4. CASE sent.to # NoAddress /\ Approves(sent)
  <2>1. category = "approval"
    BY <1>4 DEF Category
  <2>2. sent.selector \in {"approve", "permit", "setApprovalForAll"}
    BY <1>4 DEF Approves
  <2>3. named = sent.selector
    BY <2>2 DEF FunctionName, Registry
  <2>4. asked = {}
    BY <1>1, <2>2, <2>3 DEF Operations, Upgrades, Authorities, Abilities
  <2> HIDE DEF category, asked
  <2> QED BY <1>2, <2>1, <2>4 DEF category, asked
<1>5. CASE sent.to # NoAddress /\ ~Approves(sent) /\ asked # {}
  <2>1. asked = {named} /\ named \in Operations
    BY <1>1, <1>5
  <2>2. category = IF asked \subseteq Upgrades THEN "upgrade"
                   ELSE IF asked \subseteq {"mint", "burn"} THEN CHOOSE o \in asked : TRUE ELSE "governance"
    BY <1>5 DEF Category
  <2> HIDE DEF category, asked, named
  <2>3. category = IF named \in Upgrades THEN "upgrade" ELSE IF named \in {"mint", "burn"} THEN named ELSE "governance"
    BY <2>1, <2>2
  <2> QED BY <1>2, <1>5, <2>1, <2>3 DEF category, asked, Operations, Upgrades, Authorities, Abilities
<1>6. CASE sent.to # NoAddress /\ ~Approves(sent) /\ asked = {}
  <2>1. category = IF sent.selector \in DOMAIN Registry THEN Registry[sent.selector]
                   ELSE IF FunctionName(sent) \in DOMAIN Unregistered /\ Decoded(sent) THEN Unregistered[FunctionName(sent)]
                   ELSE IF sent.value > 0 THEN "transfer" ELSE "unknown"
    BY <1>6 DEF Category
  <2>2. ASSUME sent.selector \in DOMAIN Registry
        PROVE  Registry[sent.selector] \in DOMAIN Classified \ {"upgrade", "mint", "burn"}
    <3>1. Decoded(sent) /\ FunctionName(sent) = sent.selector
      BY <2>2 DEF Decoded, FunctionName, Registry
    <3>2. named \notin Operations
      BY <1>1, <1>6, <3>1
    <3>3. sent.selector \notin Operations \cup {"burnFrom"}
      BY <3>1, <3>2 DEF Operations, Abilities
    <3> QED BY <1>2, <2>2, <3>3 DEF Registry, Operations, Upgrades, Authorities, Abilities
  <2>3. \A f \in DOMAIN Unregistered : Unregistered[f] \in DOMAIN Classified \ {"upgrade", "mint", "burn"}
    BY <1>2 DEF Unregistered
  <2> HIDE DEF category, asked
  <2>4. category \in DOMAIN Classified \ {"upgrade", "mint", "burn"}
    BY <1>2, <2>1, <2>2, <2>3
  <2> QED BY <1>6, <2>4 DEF category, asked
<1> QED BY <1>3, <1>4, <1>5, <1>6

\* Nothing is told that did not last: a write that was taken back or restored a
\* slot, or a slot only read, gives no evidence, but for an allowance that was
\* unlimited already and is listed (allowance_analyzer.py:21-22); and what emit_transaction_evidence
\* says of a transaction is what TransactionClassifier calls it.
THEOREM WhatIsToldIsTrue == RuntimeSpec => []ToldIsTrue
<1>1. ReportStands => CategoryIsBacked
  <2> SUFFICES ASSUME ReportStands, stage = "classified" PROVE CategoryIsBacked
    BY DEF CategoryIsBacked
  <2>1. PICK sent \in Transactions : report.category = Category(sent) /\ report.transaction = TransactionSignals(sent)
    BY DEF ReportStands
  <2> QED BY <2>1, CategoryIs, TransactionTells DEF CategoryIsBacked
<1>2. ASSUME RuntimeInv, stage = "reported" PROVE ToldIsTrue
  <2> DEFINE x == before["supply"]
             y == world["supply"]
  <2>0. ~(stage = "classified")
    BY <1>2
  <2>1. StateTold = NetSaid(report.listed)
    BY <1>2, StateToldIs DEF RuntimeInv
  <2>2. x \in Int /\ y \in Int
    BY <1>2, HoldingsAreFunctions DEF RuntimeInv, RuntimeTyped, Amounts
  <2>3. "state_transition_observed" \in StateTold => ~undone
    BY <1>2, <2>1 DEF RuntimeInv, TraceRemembers, NetSaid, If, SupplySignal
  <2>4. /\ "implementation_changed" \in StateTold => Changed("implementation")
        /\ "owner_changed" \in StateTold => \E r \in Range(Roles) : Changed(r)
        /\ "unlimited_allowance_granted" \in StateTold =>
               world["allowance"] >= Unlimited /\ (Changed("allowance") \/ OnlyRead("allowance"))
    BY <2>1 DEF NetSaid, If, SupplySignal, OnlyRead
  <2>5. StateTold \cap {"large_supply_inflation", "supply_mint"} # {} => y > x
    <3>1. ASSUME StateTold \cap {"large_supply_inflation", "supply_mint"} # {}
          PROVE  SupplySignal(y - x) # "supply_burn"
      BY <2>1, <3>1 DEF NetSaid, If
    <3> HIDE DEF x, y
    <3> QED BY <2>2, <3>1 DEF SupplySignal, LargeDelta
  <2>6. [signal |-> "owner_changed", severity |-> "high"] \in report.state =>
            \A r \in Range(Roles) : Changed(r) <=> r = "proxy_admin"
    BY <1>2, HighIsAdmins DEF RuntimeInv
  <2> QED BY <1>1, <1>2, <2>3, <2>4, <2>5, <2>6 DEF ToldIsTrue, RuntimeInv
<1>3. RuntimeInv => ToldIsTrue
  BY <1>1, <1>2 DEF RuntimeInv, ToldIsTrue
<1> QED BY <1>3, TransactionStands, PTL

------------------------------------------------------------------------------

LEMMA TwoFrames ==
    ASSUME NEW f, NEW g
    PROVE  DOMAIN (<<f>> \o <<g>>) = {1, 2} /\ (<<f>> \o <<g>>)[1] = f /\ (<<f>> \o <<g>>)[2] = g
<1>1. <<f>> \in Seq({f, g}) /\ <<g>> \in Seq({f, g}) /\ Len(<<f>>) = 1 /\ Len(<<g>>) = 1
  OBVIOUS
<1> QED BY <1>1, ConcatProperties

LEMMA OneFrame ==
    ASSUME NEW f
    PROVE  DOMAIN (<<f>> \o <<>>) = {1} /\ (<<f>> \o <<>>)[1] = f
<1>1. <<f>> \in Seq({f}) /\ <<>> \in Seq({f}) /\ Len(<<f>>) = 1 /\ Len(<<>>) = 0
  OBVIOUS
<1> QED BY <1>1, ConcatProperties

LEMMA PredictedFramesSucceed ==
    ASSUME NEW s \in Scenarios, NEW c
    PROVE  Failures(PredictedFrames(s, c)) = {}
<1> DEFINE root(selector) == Frame("CALL", c.actor, c.contract, selector, FALSE, 0, 0)
<1>1. \A type, from, to, selector, value, parent, depth :
          ~Frame(type, from, to, selector, value, parent, depth).failed
  BY DEF Frame
<1>2. \E f, g : /\ ~f.failed /\ ~g.failed
                /\ PredictedFrames(s, c) \in {<<f>> \o <<g>>, <<f>> \o <<>>}
  <2>1. CASE s = "proxy_upgrade"
    <3> DEFINE g == Frame("DELEGATECALL", c.contract, Or(c.newImplementation, Or(c.implementation, c.actor)),
                          "none", FALSE, 1, 1)
    <3>1. PredictedFrames(s, c) = <<root("upgradeTo")>> \o <<g>>
      BY <2>1 DEF PredictedFrames
    <3> QED BY <1>1, <3>1
  <2>2. CASE s = "governance_proposal_execution"
    <3> DEFINE g == Frame("CALL", c.contract, Or(c.recipient, c.contract), "none", FALSE, 1, 1)
    <3>1. PredictedFrames(s, c) = <<root("none")>> \o <<g>>
      BY <2>2 DEF PredictedFrames
    <3> QED BY <1>1, <3>1
  <2>3. CASE s \notin {"proxy_upgrade", "governance_proposal_execution"}
    <3>1. PredictedFrames(s, c) = <<root("none")>> \o <<>>
      BY <2>3 DEF PredictedFrames
    <3> QED BY <1>1, <3>1
  <2> QED BY <2>1, <2>2, <2>3
<1>3. PICK f, g : ~f.failed /\ ~g.failed /\ PredictedFrames(s, c) \in {<<f>> \o <<g>>, <<f>> \o <<>>}
  BY <1>2
<1>4. \A i \in DOMAIN PredictedFrames(s, c) : ~PredictedFrames(s, c)[i].failed
  BY <1>3, TwoFrames, OneFrame
<1> QED BY <1>4 DEF Failures

LEMMA RoleIsChanged ==
    ASSUME NEW D, NEW L, NEW r \in Range(Roles), \E d \in StorageChanges(D) : d.slot = r
    PROVE  r \in RolesChanged(D, L)
<1>1. PICK d \in StorageChanges(D) : d.slot = r
  OBVIOUS
<1>2. d \in {e \in StorageChanges(D) : e.slot \in Range(Roles)}
  BY <1>1
<1> QED BY <1>1, <1>2 DEF RolesChanged

\* The events that a template adds say no more than its diff, if that is a change.
LEMMA EventsAddNothing ==
    ASSUME NEW s \in Scenarios, NEW c, NEW L \in SUBSET Events,
           \A d \in PredictedDiffs(s, c) : d.before # d.after
    PROVE  /\ RolesChanged(PredictedDiffs(s, c), PredictedLogs(s, c)) # {} <=> RolesChanged(PredictedDiffs(s, c), L) # {}
           /\ AllowancesGranted(PredictedDiffs(s, c), PredictedLogs(s, c)) <=> AllowancesGranted(PredictedDiffs(s, c), L)
<1> DEFINE D == PredictedDiffs(s, c)
           E == PredictedLogs(s, c)
<1>1. Mapped(L) = {}
  BY NoneMapped
<1>2. CASE s = "ownership_transfer"
  <2>1. D = {Diff("owner", Owner(c), StoredOwner(c))}
    BY <1>2 DEF PredictedDiffs
  <2>2. E = {[topic |-> "constant", event |-> "OwnershipTransferred", value |-> 0]}
    BY <1>2 DEF PredictedLogs
  <2>3. \E d \in StorageChanges(D) : d.slot = "owner"
    <3>1. Diff("owner", Owner(c), StoredOwner(c)) \in StorageChanges(D)
      BY <2>1, RolesAre DEF StorageChanges, StorageSlots, Diff
    <3> QED BY <3>1 DEF Diff
  <2>4. "owner" \in Range(Roles)
    BY RolesAre
  <2> HIDE DEF D, E
  <2>5. "owner" \in RolesChanged(D, E) /\ "owner" \in RolesChanged(D, L)
    BY <2>3, <2>4, RoleIsChanged
  <2>6. \A l \in Mapped(E) : l.event # "Approval"
    BY <2>2 DEF Mapped
  <2>7. AllowancesGranted(D, E) <=> AllowancesGranted(D, L)
    BY <1>1, <2>6 DEF AllowancesGranted
  <2> QED BY <2>5, <2>7 DEF D, E
<1>3. CASE s = "unlimited_approval"
  <2>1. D = {Diff("allowance", 0, Unlimited)}
    BY <1>3 DEF PredictedDiffs
  <2>2. E = {[topic |-> "constant", event |-> "Approval", value |-> Unlimited]}
    BY <1>3 DEF PredictedLogs
  <2> HIDE DEF D, E
  <2>3. \E d \in D : d.slot = "allowance" /\ d.after >= Unlimited
    BY <2>1 DEF Diff, Unlimited
  <2>4. \A l \in Mapped(E) : l.event # "OwnershipTransferred"
    BY <2>2 DEF Mapped
  <2>5. RolesChanged(D, E) = RolesChanged(D, L)
    BY <1>1, <2>4 DEF RolesChanged, If
  <2> QED BY <2>3, <2>5 DEF AllowancesGranted, D, E
<1>4. CASE s \notin {"ownership_transfer", "unlimited_approval"}
  <2>1. E = {}
    BY <1>4 DEF PredictedLogs
  <2> HIDE DEF D, E
  <2>2. Mapped(E) = {}
    BY <2>1 DEF Mapped
  <2> QED BY <1>1, <2>2 DEF RolesChanged, AllowancesGranted, If, D, E
<1> QED BY <1>2, <1>3, <1>4

\* What a template predicts is what is told of a transaction with its net effect.
LEMMA EffectIsPredicted ==
    ASSUME RuntimeTyped, ReportStands, stage = "reported", Failures(frames) = {}, ~OnlyRead("allowance"),
           NEW s \in Scenarios, NEW c, Diffs(before, world, Net) = PredictedDiffs(s, c)
    PROVE  StateTold = PredictedState(s, c)
<1> DEFINE D == PredictedDiffs(s, c)
           E == PredictedLogs(s, c)
           F == PredictedFrames(s, c)
<1>1. logs \in SUBSET Events
  BY DEF RuntimeTyped
<1>2. Listable(before, world, Net)
  BY DEF Listable, Net, Changed
<1>3. StateTold = Said(D, logs, frames)
  <2>1. "allowance" \in report.listed <=> "allowance" \in Net
    BY StateToldIs DEF OnlyRead, Net, Slots
  <2>2. NetSaid(report.listed) = NetSaid(Net)
    BY <2>1 DEF NetSaid, If
  <2> QED BY <1>2, <2>2, StateToldIs, SaidIs
<1>4. PredictedState(s, c) = Said(D, E, F)
  BY StateSignals DEF PredictedState
<1>5. \A d \in D : d.before # d.after
  BY DiffsFields DEF Net, Changed
<1>6. /\ RolesChanged(D, E) # {} <=> RolesChanged(D, logs) # {}
      /\ AllowancesGranted(D, E) <=> AllowancesGranted(D, logs)
  BY <1>1, <1>5, EventsAddNothing
<1>7. Failures(F) = {}
  BY PredictedFramesSucceed
<1> HIDE DEF D, E, F
<1>8. If(RolesChanged(D, E) # {}, "owner_changed") = If(RolesChanged(D, logs) # {}, "owner_changed")
  BY <1>6 DEF If
<1>9. If(AllowancesGranted(D, E), "unlimited_allowance_granted") = If(AllowancesGranted(D, logs), "unlimited_allowance_granted")
  BY <1>6 DEF If
<1>10. If(Failures(F) = {}, "state_transition_observed") = If(Failures(frames) = {}, "state_transition_observed")
  BY <1>7 DEF If
<1> QED BY <1>3, <1>4, <1>8, <1>9, <1>10 DEF Said

------------------------------------------------------------------------------

LEMMA PredictedIsSaid ==
    ASSUME NEW s, NEW c
    PROVE  Predicted(s, c) = Said(PredictedDiffs(s, c), PredictedLogs(s, c), PredictedFrames(s, c))
               \cup TraceSignals(PredictedFrames(s, c), {}) \cup ScenarioSignals(s)
BY StateSignals DEF Predicted, PredictedState

\* What is Unmet is said neither of a trace nor of a scenario.
LEMMA NeverSaidOfATrace ==
    ASSUME NEW F, NEW s \in {"unlimited_mint", "timelock_reduction"}, NEW x \in Unmet
    PROVE  x \notin TraceSignals(F, {}) /\ x \notin ScenarioSignals(s)
<1>1. x \notin DelegatecallEvents(F)
  BY DEF DelegatecallEvents, If, Unmet
<1>2. x \notin TraceSignals(F, {})
  BY <1>1 DEF TraceSignals, If, Unmet
<1>3. x \notin ScenarioSignals(s)
  BY DEF ScenarioSignals, Unmet
<1> QED BY <1>2, <1>3

LEMMA UpgradeIsFound ==
    ASSUME NEW c, Complete(c)
    PROVE  {"implementation_changed", "proxy_execution"} \subseteq Predicted("proxy_upgrade", c)
<1> DEFINE D == PredictedDiffs("proxy_upgrade", c)
           E == PredictedLogs("proxy_upgrade", c)
           F == PredictedFrames("proxy_upgrade", c)
           f == Frame("CALL", c.actor, c.contract, "upgradeTo", FALSE, 0, 0)
           g == Frame("DELEGATECALL", c.contract, c.newImplementation, "none", FALSE, 1, 1)
<1>1. D = {Diff("implementation", c.implementation, c.newImplementation)}
  BY DEF PredictedDiffs, Complete, Or, NewImplementation
<1>2. F = <<f>> \o <<g>>
  BY DEF PredictedFrames, Complete, Or
<1>4. Diff("implementation", c.implementation, c.newImplementation) \in StorageChanges(D)
  BY <1>1 DEF StorageChanges, StorageSlots, Diff, Complete
<1>5. \E d \in StorageChanges(D) : d.slot = "implementation"
  BY <1>4 DEF Diff
<1>6. /\ g.type = "DELEGATECALL" /\ g.parent = 1 /\ f.to = c.contract /\ g.to = c.newImplementation
  BY DEF Frame
<1>7. NoAddress \notin {c.contract, c.newImplementation} /\ c.contract # c.newImplementation
  BY DEF Complete
<1> HIDE DEF D, E, F, f, g
<1>8. 2 \in DOMAIN F /\ F[2] = g /\ F[1] = f
  BY <1>2, TwoFrames
<1>9. 2 \in OfType(F, "DELEGATECALL")
  BY <1>6, <1>8 DEF OfType
<1>10. \E i \in OfType(F, "DELEGATECALL") :
           LET parent == F[i].parent
           IN  parent # 0 /\ NoAddress \notin {F[parent].to, F[i].to} /\ F[parent].to # F[i].to
  BY <1>6, <1>7, <1>8, <1>9
<1>11. "proxy_execution" \in DelegatecallEvents(F)
  BY <1>10 DEF DelegatecallEvents, If
<1>12. "proxy_execution" \in TraceSignals(F, {})
  BY <1>11 DEF TraceSignals
<1>13. "implementation_changed" \in Said(D, E, F)
  BY <1>5 DEF Said, If
<1> QED BY <1>12, <1>13, PredictedIsSaid DEF D, E, F

LEMMA OwnershipIsFound ==
    ASSUME NEW c, Complete(c)
    PROVE  "owner_changed" \in Predicted("ownership_transfer", c)
<1> DEFINE D == PredictedDiffs("ownership_transfer", c)
           E == PredictedLogs("ownership_transfer", c)
           F == PredictedFrames("ownership_transfer", c)
<1>1. D = {Diff("owner", c.owner, c.newOwner)}
  BY DEF PredictedDiffs, Complete, Or, Owner, StoredOwner
<1>2. Diff("owner", c.owner, c.newOwner) \in StorageChanges(D) /\ "owner" \in Range(Roles)
  BY <1>1, RolesAre DEF StorageChanges, StorageSlots, Diff, Complete
<1>5. \E d \in StorageChanges(D) : d.slot = "owner"
  BY <1>2 DEF Diff
<1> HIDE DEF D, E, F
<1>3. "owner" \in RolesChanged(D, E)
  BY <1>2, <1>5, RoleIsChanged
<1>4. "owner_changed" \in Said(D, E, F)
  BY <1>3 DEF Said, If
<1> QED BY <1>4, PredictedIsSaid DEF D, E, F

LEMMA ApprovalIsFound ==
    ASSUME NEW c
    PROVE  "unlimited_allowance_granted" \in Predicted("unlimited_approval", c)
<1> DEFINE D == PredictedDiffs("unlimited_approval", c)
           E == PredictedLogs("unlimited_approval", c)
           F == PredictedFrames("unlimited_approval", c)
<1>1. D = {Diff("allowance", 0, Unlimited)}
  BY DEF PredictedDiffs
<1> HIDE DEF D, E, F
<1>2. AllowancesGranted(D, E)
  BY <1>1 DEF AllowancesGranted, Diff, Unlimited
<1>3. "unlimited_allowance_granted" \in Said(D, E, F)
  BY <1>2 DEF Said, If
<1> QED BY <1>3, PredictedIsSaid DEF D, E, F

LEMMA MintIsFound ==
    ASSUME NEW c
    PROVE  /\ "large_supply_inflation" \in Predicted("unlimited_mint", c)
           /\ "supply_mint" \notin Predicted("unlimited_mint", c)
<1> DEFINE D == PredictedDiffs("unlimited_mint", c)
           E == PredictedLogs("unlimited_mint", c)
           F == PredictedFrames("unlimited_mint", c)
           d == Diff("supply", 0, LargeMint)
<1>1. D = {d}
  BY DEF PredictedDiffs
<1>2. d.slot = "supply" /\ d.before = 0 /\ d.after = 3
  BY DEF Diff, LargeMint
<1> HIDE DEF D, E, F, d
<1>3. SupplySignals(D) = {CASE d.after - d.before >= LargeDelta -> "large_supply_inflation"
           [] d.after - d.before \in 1 .. (LargeDelta - 1) -> "supply_mint"
           [] d.after < d.before -> "supply_burn"}
  <2>1. {e \in D : e.slot = "supply" /\ e.before # e.after} = {d}
    BY <1>1, <1>2
  <2> QED BY <2>1 DEF SupplySignals
<1>4. SupplySignals(D) = {"large_supply_inflation"}
  BY <1>2, <1>3 DEF LargeDelta
<1>5. "large_supply_inflation" \in Said(D, E, F) /\ "supply_mint" \notin Said(D, E, F)
  BY <1>4 DEF Said, If
<1>6. "supply_mint" \notin TraceSignals(F, {}) /\ "supply_mint" \notin ScenarioSignals("unlimited_mint")
  <2>1. "supply_mint" \in Unmet
    BY DEF Unmet
  <2> QED BY <2>1, NeverSaidOfATrace
<1>7. Predicted("unlimited_mint", c) = Said(D, E, F) \cup TraceSignals(F, {}) \cup ScenarioSignals("unlimited_mint")
  BY PredictedIsSaid DEF D, E, F
<1> QED BY <1>5, <1>6, <1>7

\* The oracle attack writes no supply, and no engine has a word for what it expects.
LEMMA OracleIsNotFound ==
    ASSUME NEW c
    PROVE  "simulated_oracle_manipulation" \notin Predicted("timelock_reduction", c)
<1> DEFINE D == PredictedDiffs("timelock_reduction", c)
           E == PredictedLogs("timelock_reduction", c)
           F == PredictedFrames("timelock_reduction", c)
<1>1. D = {Diff("governor", Day, NoAddress)}
  BY DEF PredictedDiffs
<1>2. {d \in D : d.slot = "supply" /\ d.before # d.after} = {}
  BY <1>1 DEF Diff
<1>3. SupplySignals(D) = {}
  BY <1>2 DEF SupplySignals
<1> HIDE DEF D, E, F
<1>4. "simulated_oracle_manipulation" \notin Said(D, E, F)
  BY <1>3 DEF Said, If
<1>5. /\ "simulated_oracle_manipulation" \notin TraceSignals(F, {})
      /\ "simulated_oracle_manipulation" \notin ScenarioSignals("timelock_reduction")
  <2>1. "simulated_oracle_manipulation" \in Unmet
    BY DEF Unmet
  <2> QED BY <2>1, NeverSaidOfATrace
<1>6. Predicted("timelock_reduction", c) = Said(D, E, F) \cup TraceSignals(F, {}) \cup ScenarioSignals("timelock_reduction")
  BY PredictedIsSaid DEF D, E, F
<1> QED BY <1>4, <1>5, <1>6

\* Of the evidence its definition expects, an attack misses what is Unmet, and only that.
LEMMA AttackIsFound ==
    ASSUME NEW attack \in DOMAIN Attacks, NEW c, Complete(c)
    PROVE  Expected[attack] \ Found(attack, c) = Expected[attack] \cap Unmet
<1>1. DOMAIN Attacks = {"upgrade", "governance_capture", "treasury_drain", "unlimited_mint",
                        "unlimited_approval", "oracle_manipulation", "bridge_compromise", "privilege_escalation"}
  BY DEF Attacks
<1>2. \A s \in Attacks[attack] : Predicted(s, c) \subseteq Found(attack, c)
  BY DEF Found
<1>3. "governance_execution" \in Predicted("governance_proposal_execution", c)
  BY DEF Predicted, ScenarioSignals
<1>4. CASE attack = "upgrade"
  BY <1>2, <1>4, UpgradeIsFound DEF Attacks, Expected, Unmet
<1>5. CASE attack \in {"governance_capture", "privilege_escalation"}
  BY <1>2, <1>3, <1>5, OwnershipIsFound DEF Attacks, Expected, Unmet
<1>6. CASE attack \in {"treasury_drain", "unlimited_approval"}
  BY <1>2, <1>6, ApprovalIsFound DEF Attacks, Expected, Unmet
<1>7. CASE attack = "bridge_compromise"
  BY <1>2, <1>7, MintIsFound DEF Attacks, Expected, Unmet
<1>8. CASE attack = "unlimited_mint"
  <2>1. Found(attack, c) = Predicted("unlimited_mint", c)
    BY <1>8 DEF Found, Attacks
  <2> QED BY <1>8, <2>1, MintIsFound DEF Expected, Unmet
<1>9. CASE attack = "oracle_manipulation"
  <2>1. Found(attack, c) = Predicted("timelock_reduction", c)
    BY <1>9 DEF Found, Attacks
  <2> QED BY <1>9, <2>1, OracleIsNotFound DEF Expected, Unmet
<1> QED BY <1>1, <1>4, <1>5, <1>6, <1>7, <1>8, <1>9

\* What SimulationEngine.simulate predicts of the state is what is told of a real
\* transaction with that net effect, unless an allowance that was only read is told
\* of too; and of the evidence it expects an attack of the library misses, in any
\* complete context, supply_mint (attack_library.py:182) and
\* simulated_oracle_manipulation (attack_library.py:242), and nothing else.
THEOREM ThePredictionsHold == RuntimeSpec => []PredictionsHold
<1>1. RuntimeInv => PredictionsHold
  <2> SUFFICES ASSUME RuntimeInv PROVE PredictionsHold
    OBVIOUS
  <2>1. ASSUME stage = "reported", Failures(frames) = {}, ~OnlyRead("allowance"), NEW s \in Scenarios, NEW c \in Contexts,
               {Diff(slot, before[slot], world[slot]) : slot \in Net} = PredictedDiffs(s, c)
        PROVE  StateTold = PredictedState(s, c)
    <3>1. Diffs(before, world, Net) = PredictedDiffs(s, c)
      BY <2>1 DEF Diffs
    <3> QED BY <2>1, <3>1, EffectIsPredicted DEF RuntimeInv
  <2>2. ASSUME stage = "simulated", Complete(report.context)
        PROVE  Expected[report.attack] \ report.found = Expected[report.attack] \cap Unmet
    BY <2>2, AttackIsFound DEF RuntimeInv, ReportStands
  <2> QED BY <2>1, <2>2 DEF PredictionsHold
<1> QED BY <1>1, TransactionStands, PTL
=============================================================================
