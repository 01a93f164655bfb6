-------------------------- MODULE TradeSimulation --------------------------
(***************************************************************************)
(* The trade simulations of concurrent scans (TradeSimulator.simulate): a  *)
(* round trip of buy, transfer and sale on an Anvil fork, whose outcome a  *)
(* scan reports as the honeypot verdict of its target.  Every scan builds  *)
(* its own provider, but without auto-start all of them talk to the one    *)
(* node at ANVIL_RPC_URL, and all of them trade from the same account,     *)
(* SIM_BUYER.  Each JSON-RPC call is awaited, so a step is one call and    *)
(* the other scans run between any two.                                    *)
(*                                                                         *)
(* The node is external and modelled by what the calls ask of it.  What a  *)
(* target does when traded is a fact of the forked chain, the same for     *)
(* every simulation; prices are one wei a token.                           *)
(*                                                                         *)
(* An operator named F_xxx is F with a bug, a mutant.                      *)
(***************************************************************************)
EXTENDS Integers

CONSTANTS
    Sims,           \* scans that simulate, one each
    SharedNode,     \* the node at ANVIL_RPC_URL
    Targets,        \* contracts, with what the chain does when they are traded
    Workloads,      \* which targets the scans are for
    EthAmount,      \* simulation_eth_amount_wei
    EthFunded,      \* what set_balance gives the buyer
    EthDefault,     \* what a fresh node gives a default account
    Gas             \* the fee of a transaction

TargetFacts ==
    [name : STRING,
     supported : BOOLEAN,   \* the provider's chain, and it has a DEX
     pair : BOOLEAN,        \* the factory knows a pair with WETH
     quotesBuy : BOOLEAN, quotesSell : BOOLEAN,
     buyable : BOOLEAN, movable : BOOLEAN,
     approves : BOOLEAN, sellable : BOOLEAN,
     got : Nat,             \* tokens the buyer receives for EthAmount
     keep : 0..4]           \* quarters of the sale that reach the seller

ASSUME TradeAssumption ==
    /\ SharedNode \notin Sims
    /\ Targets \subseteq TargetFacts
    /\ Workloads \subseteq [Sims -> Targets]
    /\ EthAmount \in Nat /\ EthFunded \in Nat /\ EthDefault \in Nat /\ Gas \in Nat

VARIABLES
    target,         \* the contract of each scan
    autoStart,      \* ANVIL_AUTO_START: each scan spawns a node of its own
    pc,             \* the next call of each simulation
    leg,            \* the transaction it is at
    legOk,          \* what wait_for_transaction returned, or "raise"
    actual,         \* actual_tokens
    moved,          \* transfer_ok, "untested" when not attempted
    sellable,       \* sellable_balance
    ethBefore,      \* eth_before
    result,         \* the simulation's result
    held,           \* node: the buyer's tokens
    approved,       \* node: tokens the router may take from the buyer
    eth,            \* node: the buyer's ETH
    tx,             \* node: the last transaction each simulation sent
    impersonated,   \* node: the buyer is impersonated
    abandoned,      \* history: nodes where opening or closing the impersonation failed
    disturbed,      \* history: another simulation changed the node meanwhile
    timedOut        \* history: a wait for a receipt gave up

progress == <<pc, leg, legOk>>
reading == <<actual, moved, sellable, ethBefore>>
chain == <<held, approved, eth>>
fixed == <<target, autoStart>>
history == <<disturbed, timedOut>>
vars == <<fixed, progress, reading, result, chain, tx, impersonated, abandoned, history>>

Nodes == Sims \cup {SharedNode}
NodeOf(s) == IF autoStart THEN s ELSE SharedNode

Legs == {"buy", "transfer", "approve", "sell"}
InLeg == {"send", "wait", "close"}
PCs == {"reset", "fund", "market", "open", "bought", "balance", "ethBefore",
        "ethAfter", "done"} \cup InLeg

NoTx == [state |-> "none", leg |-> "buy", amount |-> 0]
NoTax == -1
Answers == {"yes", "no", "untested"}
Results ==
    [status : {"not_run", "skipped", "completed"}, canBuy : Answers, canSell : Answers,
     canTransfer : Answers, buyTax : Int, sellTax : Int]

NotRun ==
    [status |-> "not_run", canBuy |-> "untested", canSell |-> "untested",
     canTransfer |-> "untested", buyTax |-> NoTax, sellTax |-> NoTax]

Verdict(buy, sell, transfer, buyTax, sellTax) ==
    [status |-> "completed", canBuy |-> buy, canSell |-> sell, canTransfer |-> transfer,
     buyTax |-> buyTax, sellTax |-> sellTax]

NoMarket(status) == [Verdict("no", "no", "untested", NoTax, NoTax) EXCEPT !.status = status]

\* compute_tax_bps
Tax(expected, received) ==
    CASE expected <= 0 -> NoTax
      [] expected > 0 /\ received >= expected -> 0
      [] OTHER -> ((expected - received) * 10000) \div expected

Received(gain) == IF gain > 0 THEN gain ELSE 0
Proceeds(t, amount) == (amount * t.keep) \div 4
SaleTax(t, amount, gain) == Tax(IF t.quotesSell THEN amount ELSE 0, Received(gain))

Init ==
    /\ target \in Workloads
    /\ autoStart \in BOOLEAN
    /\ pc = [s \in Sims |-> "reset"]
    /\ leg = [s \in Sims |-> "buy"]
    /\ legOk = [s \in Sims |-> "no"]
    /\ actual = [s \in Sims |-> 0]
    /\ moved = [s \in Sims |-> "untested"]
    /\ sellable = [s \in Sims |-> 0]
    /\ ethBefore = [s \in Sims |-> 0]
    /\ result = [s \in Sims |-> NotRun]
    /\ held = [n \in Nodes |-> [t \in Targets |-> 0]]
    /\ approved = [n \in Nodes |-> {}]
    /\ eth = [n \in Nodes |-> EthDefault]
    /\ tx = [s \in Sims |-> NoTx]
    /\ impersonated = [n \in Nodes |-> FALSE]
    /\ abandoned = {}
    /\ disturbed = [s \in Sims |-> FALSE]
    /\ timedOut = [s \in Sims |-> FALSE]

-----------------------------------------------------------------------------
GoTo(s, next) == pc' = [pc EXCEPT ![s] = next]

\* simulate returns: its locals go, and nobody asks for a receipt any more.
Finish(s, r) ==
    /\ GoTo(s, "done")
    /\ result' = [result EXCEPT ![s] = r]
    /\ leg' = [leg EXCEPT ![s] = "buy"]
    /\ legOk' = [legOk EXCEPT ![s] = "no"]
    /\ actual' = [actual EXCEPT ![s] = 0]
    /\ moved' = [moved EXCEPT ![s] = "untested"]
    /\ sellable' = [sellable EXCEPT ![s] = 0]
    /\ ethBefore' = [ethBefore EXCEPT ![s] = 0]
    /\ tx' = [tx EXCEPT ![s] = IF @.state = "pending" THEN @ ELSE NoTx]


\* Marks the simulations under way on the node that s has just changed.
Disturb(s) ==
    /\ disturbed' =
         [x \in Sims |-> \/ disturbed[x]
                         \/ x # s /\ NodeOf(x) = NodeOf(s) /\ pc[x] \notin {"reset", "done"}]
    /\ UNCHANGED timedOut

\* Another chain, no DEX on it, or no anvil binary to start: nothing is run.
NotSimulated(s) ==
    /\ pc[s] = "reset"
    /\ ~target[s].supported \/ autoStart
    /\ Finish(s, NotRun)
    /\ UNCHANGED <<fixed, chain, impersonated, abandoned, history>>

\* A fresh fork: no transaction sent before is known to it any more.
ResetFork(s) ==
    /\ pc[s] = "reset"
    /\ target[s].supported
    /\ held' = [held EXCEPT ![NodeOf(s)] = [t \in Targets |-> 0]]
    /\ approved' = [approved EXCEPT ![NodeOf(s)] = {}]
    /\ eth' = [eth EXCEPT ![NodeOf(s)] = EthDefault]
    /\ tx' = [x \in Sims |-> IF NodeOf(x) = NodeOf(s) THEN NoTx ELSE tx[x]]
    /\ GoTo(s, "fund")
    /\ Disturb(s)
    /\ UNCHANGED <<fixed, leg, legOk, reading, result, impersonated, abandoned>>

Fund(s) ==
    /\ pc[s] = "fund"
    /\ eth' = [eth EXCEPT ![NodeOf(s)] = EthFunded]
    /\ GoTo(s, "market")
    /\ Disturb(s)
    /\ UNCHANGED <<fixed, leg, legOk, reading, result, held, approved, tx, impersonated, abandoned>>

FindMarket(s) ==
    /\ pc[s] = "market"
    /\ \/ ~target[s].pair /\ Finish(s, NoMarket("skipped"))
       \/ target[s].pair /\ ~target[s].quotesBuy /\ Finish(s, NoMarket("completed"))
       \/ /\ target[s].pair /\ target[s].quotesBuy
          /\ GoTo(s, "open")
          /\ UNCHANGED <<leg, legOk, reading, result, tx>>
    /\ UNCHANGED <<fixed, chain, impersonated, abandoned, history>>

\* actual_tokens: a quarter of them is to be transferred
ReadBought(s) ==
    /\ pc[s] = "bought"
    /\ actual' = [actual EXCEPT ![s] = held[NodeOf(s)][target[s]]]
    /\ IF actual'[s] \div 4 > 0
          THEN GoTo(s, "open") /\ leg' = [leg EXCEPT ![s] = "transfer"]
          ELSE GoTo(s, "balance") /\ UNCHANGED leg
    /\ UNCHANGED <<fixed, legOk, moved, sellable, ethBefore, result, chain, tx, impersonated,
                   abandoned, history>>

BuyTax(s) == Tax(EthAmount, actual[s])

\* Sells the amount bought instead of what is left after the transfer.
F_ReadSellable(s) ==
    /\ pc[s] = "balance"
    /\ \/ /\ actual[s] = 0 \/ moved[s] = "no"
          /\ Finish(s, Verdict("yes", "no", moved[s], BuyTax(s), NoTax))
       \/ /\ actual[s] # 0 /\ moved[s] # "no"
          /\ sellable' = [sellable EXCEPT ![s] = actual[s]]
          /\ GoTo(s, "ethBefore")
          /\ UNCHANGED <<leg, legOk, actual, moved, ethBefore, result, tx>>
    /\ UNCHANGED <<fixed, chain, impersonated, abandoned, history>>

ReadSellable(s) ==
    LET balance == held[NodeOf(s)][target[s]] IN
    /\ pc[s] = "balance"
    /\ \/ /\ balance = 0 \/ moved[s] = "no"
          /\ Finish(s, Verdict("yes", "no", moved[s], BuyTax(s), NoTax))
       \/ /\ balance # 0 /\ moved[s] # "no"
          /\ sellable' = [sellable EXCEPT ![s] = balance]
          /\ GoTo(s, "ethBefore")
          /\ UNCHANGED <<leg, legOk, actual, moved, ethBefore, result, tx>>
    /\ UNCHANGED <<fixed, chain, impersonated, abandoned, history>>

ReadEthBefore(s) ==
    /\ pc[s] = "ethBefore"
    /\ ethBefore' = [ethBefore EXCEPT ![s] = eth[NodeOf(s)]]
    /\ GoTo(s, "open")
    /\ leg' = [leg EXCEPT ![s] = "approve"]
    /\ UNCHANGED <<fixed, legOk, actual, moved, sellable, result, chain, tx, impersonated,
                   abandoned, history>>

ReadEthAfter(s) ==
    /\ pc[s] = "ethAfter"
    /\ Finish(s, Verdict("yes", legOk[s], moved[s], BuyTax(s),
                         SaleTax(target[s], sellable[s], eth[NodeOf(s)] - ethBefore[s])))
    /\ UNCHANGED <<fixed, chain, impersonated, abandoned, history>>

\* Any call outside the legs may raise: simulate catches it, the result is dropped.
CallFails(s) ==
    /\ pc[s] \in {"reset", "fund", "market", "bought", "balance", "ethBefore", "ethAfter"}
    /\ Finish(s, NotRun)
    /\ UNCHANGED <<fixed, chain, impersonated, abandoned, history>>

-----------------------------------------------------------------------------
(***************************************************************************)
(* A leg: impersonate, then send and wait under a finally that stops the   *)
(* impersonation.  The sale is two transactions under one impersonation.   *)
(***************************************************************************)

Open(s) ==
    /\ pc[s] = "open"
    /\ impersonated' = [impersonated EXCEPT ![NodeOf(s)] = TRUE]
    /\ GoTo(s, "send")
    /\ UNCHANGED <<fixed, leg, legOk, reading, result, chain, tx, abandoned, history>>

\* The call raises before the try: the node may have heard it all the same.
OpenFails(s) ==
    /\ pc[s] = "open"
    /\ \/ /\ impersonated' = [impersonated EXCEPT ![NodeOf(s)] = TRUE]
          /\ abandoned' = abandoned \cup {NodeOf(s)}
       \/ UNCHANGED <<impersonated, abandoned>>
    /\ Finish(s, NotRun)
    /\ UNCHANGED <<fixed, chain, history>>

Amount(s) ==
    CASE leg[s] = "transfer" -> actual[s] \div 4
      [] leg[s] = "sell" -> sellable[s]
      [] OTHER -> 0

Send(s) ==
    /\ pc[s] = "send"
    /\ tx' = [tx EXCEPT ![s] = [state |-> "pending", leg |-> leg[s], amount |-> Amount(s)]]
    /\ GoTo(s, "wait")
    /\ UNCHANGED <<fixed, leg, legOk, reading, result, chain, impersonated, abandoned, history>>

CloseWith(s, ok) ==
    /\ GoTo(s, "close")
    /\ legOk' = [legOk EXCEPT ![s] = ok]
    /\ UNCHANGED leg

\* wait_for_transaction returns the receipt's status
Receipt(s) ==
    /\ pc[s] = "wait"
    /\ \/ tx[s].state = "ok" /\ leg[s] # "approve" /\ CloseWith(s, "yes")
       \/ tx[s].state = "reverted" /\ CloseWith(s, "no")
       \/ /\ tx[s].state = "ok" /\ leg[s] = "approve"
          /\ GoTo(s, "send")
          /\ leg' = [leg EXCEPT ![s] = "sell"]
          /\ UNCHANGED legOk
    /\ UNCHANGED <<fixed, reading, result, chain, tx, impersonated, abandoned, history>>

\* Takes a transaction without a receipt for a successful one.
F_WaitTimeout(s) ==
    /\ pc[s] = "wait"
    /\ CloseWith(s, "yes")
    /\ timedOut' = [timedOut EXCEPT ![s] = TRUE]
    /\ UNCHANGED <<fixed, reading, result, chain, tx, impersonated, abandoned, disturbed>>

\* No deadline: polls for as long as there is no receipt.
F_WaitForever(s) == FALSE /\ UNCHANGED vars

\* The deadline passes: False, as for a revert.  The transaction may have been
\* mined since the last poll.
WaitTimeout(s) ==
    /\ pc[s] = "wait"
    /\ CloseWith(s, "no")
    /\ timedOut' = [timedOut EXCEPT ![s] = TRUE]
    /\ UNCHANGED <<fixed, reading, result, chain, tx, impersonated, abandoned, disturbed>>

\* No finally around the send and the wait.
F_Raise(s) ==
    /\ pc[s] \in {"send", "wait"}
    /\ Finish(s, NotRun)
    /\ UNCHANGED <<fixed, chain, impersonated, abandoned, history>>

Raise(s) ==
    /\ pc[s] \in {"send", "wait"}
    /\ CloseWith(s, "raise")
    /\ UNCHANGED <<fixed, reading, result, chain, tx, impersonated, abandoned, history>>

\* Goes on with the outcome of a leg that raised.
F_Close(s) ==
    /\ pc[s] = "close"
    /\ impersonated' = [impersonated EXCEPT ![NodeOf(s)] = FALSE]
    /\ abandoned' = abandoned \ {NodeOf(s)}
    /\ \/ legOk[s] # "yes" /\ leg[s] = "buy" /\ Finish(s, NoMarket("completed"))
       \/ /\ legOk[s] = "yes" \/ leg[s] # "buy"
          /\ GoTo(s, CASE leg[s] = "buy" -> "bought"
                       [] leg[s] = "transfer" -> "balance"
                       [] OTHER -> "ethAfter")
          /\ moved' = IF leg[s] = "transfer" THEN [moved EXCEPT ![s] = legOk[s]] ELSE moved
          /\ UNCHANGED <<leg, legOk, actual, sellable, ethBefore, result, tx>>
    /\ UNCHANGED <<fixed, chain, history>>

\* The finally block, then what simulate does with the leg's outcome.
Close(s) ==
    /\ pc[s] = "close"
    /\ impersonated' = [impersonated EXCEPT ![NodeOf(s)] = FALSE]
    /\ abandoned' = abandoned \ {NodeOf(s)}
    /\ \/ legOk[s] = "raise" /\ Finish(s, NotRun)
       \/ legOk[s] = "no" /\ leg[s] = "buy" /\ Finish(s, NoMarket("completed"))
       \/ /\ legOk[s] = "yes" \/ (legOk[s] = "no" /\ leg[s] # "buy")
          /\ GoTo(s, CASE leg[s] = "buy" -> "bought"
                       [] leg[s] = "transfer" -> "balance"
                       [] OTHER -> "ethAfter")
          /\ moved' = IF leg[s] = "transfer" THEN [moved EXCEPT ![s] = legOk[s]] ELSE moved
          /\ UNCHANGED <<leg, legOk, actual, sellable, ethBefore, result, tx>>
    /\ UNCHANGED <<fixed, chain, history>>

CloseFails(s) ==
    /\ pc[s] = "close"
    /\ \/ /\ impersonated' = [impersonated EXCEPT ![NodeOf(s)] = FALSE]
          /\ abandoned' = abandoned \ {NodeOf(s)}
       \/ /\ abandoned' = abandoned \cup {NodeOf(s)}
          /\ UNCHANGED impersonated
    /\ Finish(s, NotRun)
    /\ UNCHANGED <<fixed, chain, history>>

-----------------------------------------------------------------------------
(***************************************************************************)
(* The node executes a transaction when it mines it, on the state it then  *)
(* has.                                                                    *)
(***************************************************************************)

Succeeds(s) ==
    LET n == NodeOf(s)
        t == target[s]
        l == tx[s].leg
    IN  \/ l = "buy" /\ t.buyable
        \/ l = "transfer" /\ t.movable /\ held[n][t] >= tx[s].amount
        \/ l = "approve" /\ t.approves
        \/ l = "sell" /\ t.sellable /\ t \in approved[n] /\ held[n][t] >= tx[s].amount

TokensAfter(s) ==
    LET balance == held[NodeOf(s)][target[s]] IN
    CASE tx[s].leg = "buy" -> balance + target[s].got
      [] tx[s].leg = "approve" -> balance
      [] OTHER -> balance - tx[s].amount

EthAfter(s) ==
    eth[NodeOf(s)] - Gas +
        CASE tx[s].leg = "buy" -> -EthAmount
          [] tx[s].leg = "sell" -> Proceeds(target[s], tx[s].amount)
          [] OTHER -> 0

Mine(s) ==
    LET n == NodeOf(s) IN
    /\ tx[s].state = "pending"
    /\ \/ /\ Succeeds(s)
          /\ tx' = [tx EXCEPT ![s].state = "ok"]
          /\ held' = [held EXCEPT ![n][target[s]] = TokensAfter(s)]
          /\ eth' = [eth EXCEPT ![n] = EthAfter(s)]
          /\ approved' = IF tx[s].leg = "approve"
                            THEN [approved EXCEPT ![n] = @ \cup {target[s]}]
                            ELSE approved
       \/ /\ ~Succeeds(s)
          /\ tx' = [tx EXCEPT ![s].state = "reverted"]
          /\ eth' = [eth EXCEPT ![n] = @ - Gas]
          /\ UNCHANGED <<held, approved>>
    /\ Disturb(s)
    /\ UNCHANGED <<fixed, progress, reading, result, impersonated, abandoned>>

Proceed(s) ==
    \/ NotSimulated(s) \/ ResetFork(s) \/ Fund(s) \/ FindMarket(s)
    \/ ReadBought(s) \/ ReadSellable(s) \/ ReadEthBefore(s) \/ ReadEthAfter(s)
    \/ Open(s) \/ Send(s) \/ Receipt(s) \/ WaitTimeout(s) \/ Close(s)

Fail(s) == CallFails(s) \/ OpenFails(s) \/ Raise(s) \/ CloseFails(s)

Finished == (\A s \in Sims : pc[s] = "done") /\ UNCHANGED vars

Next == Finished \/ \E s \in Sims : Proceed(s) \/ Fail(s) \/ Mine(s)

\* The event loop runs every scan and every call is answered: no help from a
\* failing call, and none from the node, which may never mine.
Fairness == \A s \in Sims : WF_vars(Proceed(s))

Spec == Init /\ [][Next]_vars /\ Fairness

-----------------------------------------------------------------------------
\* Every variable keeps its type.
SimulationTypes ==
    /\ target \in [Sims -> Targets] /\ autoStart \in BOOLEAN
    /\ pc \in [Sims -> PCs] /\ leg \in [Sims -> Legs]
    /\ legOk \in [Sims -> {"yes", "no", "raise"}]
    /\ actual \in [Sims -> Nat] /\ sellable \in [Sims -> Nat] /\ ethBefore \in [Sims -> Int]
    /\ moved \in [Sims -> Answers] /\ result \in [Sims -> Results]
    /\ held \in [Nodes -> [Targets -> Nat]]
    /\ approved \in [Nodes -> SUBSET Targets]
    /\ eth \in [Nodes -> Int]
    /\ tx \in [Sims -> [state : {"none", "pending", "ok", "reverted"}, leg : Legs, amount : Nat]]
    /\ impersonated \in [Nodes -> BOOLEAN] /\ abandoned \subseteq Nodes
    /\ disturbed \in [Sims -> BOOLEAN] /\ timedOut \in [Sims -> BOOLEAN]

\* However the scans interleave on the node, and whatever fails or times out,
\* a "yes" of a verdict is true of the target: it was bought, moved, sold
\* (simulate's can_buy, can_transfer and can_sell).
YesMeansItHappened ==
    \A s \in Sims :
        LET r == result[s]
            t == target[s]
        IN  /\ r.canBuy = "yes" => t.pair /\ t.quotesBuy /\ t.buyable
            /\ r.canTransfer = "yes" => t.movable
            /\ r.canSell = "yes" => t.approves /\ t.sellable /\ r.canTransfer # "no"

\* What a round trip with nobody else on the node finds.
CanBuy(t) == t.pair /\ t.quotesBuy /\ t.buyable
CanTransfer(t) ==
    CASE ~CanBuy(t) \/ t.got < 4 -> "untested"
      [] CanBuy(t) /\ t.got >= 4 -> IF t.movable THEN "yes" ELSE "no"
CanSell(t) == CanBuy(t) /\ t.got > 0 /\ CanTransfer(t) # "no" /\ t.approves /\ t.sellable
Kept(t) == t.got - t.got \div 4
AloneVerdict(t, r) ==
    /\ (r.canBuy = "yes") = CanBuy(t)
    /\ (r.canSell = "yes") = CanSell(t)
    /\ r.canTransfer = CanTransfer(t)
    /\ r.buyTax = IF CanBuy(t) THEN Tax(EthAmount, t.got) ELSE NoTax
    /\ CanSell(t) => r.sellTax = SaleTax(t, Kept(t), Proceeds(t, Kept(t)) - 2 * Gas)
    /\ (r.status = "skipped") = ~t.pair

\* A simulation that no other disturbed and whose receipts all came gives the
\* verdict, transfer probe and taxes of its target (the sale's tax with the gas
\* of the approval and of the swap in it); a scan with a node of its own is
\* never disturbed.
UndisturbedVerdict ==
    \A s \in Sims :
        /\ result[s].status # "not_run" /\ ~disturbed[s] /\ ~timedOut[s]
              => AloneVerdict(target[s], result[s])
        /\ autoStart => ~disturbed[s]

\* The finally blocks: the buyer stays impersonated only while some simulation
\* is in a leg on that node, or when a call to open or close it failed.
ImpersonationClosed ==
    \A n \in Nodes :
        impersonated[n] => n \in abandoned \/ \E s \in Sims : NodeOf(s) = n /\ pc[s] \in InLeg

\* Every simulation ends, also when another scan's reset has taken away the
\* transaction it waits for (wait_for_transaction's deadline).
EverySimulationEnds == \A s \in Sims : pc[s] # "done" ~> pc[s] = "done"
=============================================================================
