------------------------- MODULE MCTradeSimulation -------------------------
(* Two concurrent scans: one of any target and the other of a contract without a
   pair; one of a few tokens and the other of one that cannot be bought; both of
   the same token, too little of which is bought for a transfer.  EthAmount buys
   8 of the fair token. *)
EXTENDS TradeSimulation

CONSTANTS s1, s2

Fair ==
    [name |-> "fair", supported |-> TRUE, pair |-> TRUE, quotesBuy |-> TRUE, quotesSell |-> TRUE,
     buyable |-> TRUE, movable |-> TRUE, approves |-> TRUE, sellable |-> TRUE, got |-> 8, keep |-> 4]

MCSims == {s1, s2}
MCTargets ==
    {Fair,
     [Fair EXCEPT !.name = "elsewhere", !.supported = FALSE],
     [Fair EXCEPT !.name = "proxied", !.pair = FALSE],
     [Fair EXCEPT !.name = "drained", !.quotesBuy = FALSE],
     [Fair EXCEPT !.name = "closed", !.buyable = FALSE],
     [Fair EXCEPT !.name = "swallowed", !.got = 0],
     [Fair EXCEPT !.name = "tiny", !.got = 3, !.movable = FALSE],
     [Fair EXCEPT !.name = "frozen", !.got = 4, !.movable = FALSE],
     [Fair EXCEPT !.name = "stubborn", !.approves = FALSE],
     [Fair EXCEPT !.name = "honeypot", !.sellable = FALSE],
     [Fair EXCEPT !.name = "taxed", !.keep = 1],
     [Fair EXCEPT !.name = "unquoted", !.quotesSell = FALSE]}

Named(name) == CHOOSE t \in MCTargets : t.name = name

With(t, name) == [s \in MCSims |-> IF s = s1 THEN t ELSE Named(name)]

MCWorkloads ==
    {With(t, "proxied") : t \in MCTargets}
    \cup {With(Named(name), "closed") : name \in {"fair", "frozen", "stubborn"}}
    \cup {With(Named("tiny"), "tiny")}
=============================================================================
