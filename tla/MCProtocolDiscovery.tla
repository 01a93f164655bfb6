------------------------- MODULE MCProtocolDiscovery -------------------------
\* The root 2, three contracts around it and a pool.  The deployments: none, a
\* registered root or neighbour of each kind, a factory whose router is not one
\* of the contracts found, and a governor with a timelock.
EXTENDS GraphTraversal, TLC

MCAddresses == 1 .. 4
MCRoot == 2
MCPools == {5}
MCDeployments ==
    {<<>>, 2 :> <<"vault", "yearn">>, 3 :> <<"vault", "yearn">>,
     2 :> <<"factory", "uniswap">> @@ 3 :> <<"router", "uniswap">>,
     3 :> <<"factory", "sushi">> @@ 6 :> <<"router", "sushi">>,
     2 :> <<"core", "wormhole">> @@ 1 :> <<"messenger", "wormhole">>,
     1 :> <<"governor", "compound">> @@ 4 :> <<"timelock", "compound">>}
MCLinks == {{}, MCAddresses}
MCSigns == {"vault", "oracle", "governance", "timelock"}
MCScores == {55, 95, 97}
MCLevels == {45, 85}
=============================================================================
