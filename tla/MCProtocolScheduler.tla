------------------------- MODULE MCProtocolScheduler -------------------------
(***************************************************************************)
(* ProtocolScheduler on every graph of three nodes without self loops (the *)
(* validator refuses those), with two nodes that wait for nothing and      *)
(* queue for the workers, and on graphs of more: a diamond, two roots that *)
(* join, a cycle with a tail, a chain, and a chain that is given up over   *)
(* two rounds because another one goes on.                                 *)
(***************************************************************************)
EXTENDS ProtocolScheduler

Addresses == 1 .. 5

SmallGraphs == SUBSET {e \in (1 .. 3) \X (1 .. 3) : e[1] # e[2]}

ShapedGraphs == {
    {<<1, 2>>, <<1, 3>>, <<2, 4>>, <<3, 4>>},
    {<<4, 1>>, <<3, 1>>, <<1, 2>>},
    {<<1, 2>>, <<2, 3>>, <<3, 2>>, <<3, 4>>},
    {<<2, 1>>, <<4, 2>>, <<3, 4>>},
    {<<1, 2>>, <<2, 3>>, <<4, 5>>}}

MCGraphs == SmallGraphs \cup ShapedGraphs
=============================================================================
