------------------------- MODULE MCRuntimeAnalysis -------------------------
EXTENDS RuntimeAnalysis

CONSTANTS proxy, logic, newLogic, vault, alice, mallory

AsCall(type, to, selector, value) == [type |-> type, to |-> to, selector |-> selector, value |-> value]

\* An upgrade, a deployment, a wallet that executes through another contract,
\* and a path as deep as deep_execution_path asks for
MCEntrances ==
    {<<AsCall("CALL", proxy, "upgradeTo", FALSE)>>,
     <<AsCall("CREATE", vault, "none", FALSE)>>,
     <<AsCall("CALL", alice, "execute", FALSE), AsCall("CALL", mallory, "execute", FALSE),
       AsCall("CALL", vault, "burn", FALSE)>>,
     [i \in 1 .. 5 |-> AsCall("CALL", IF i % 2 = 1 THEN vault ELSE proxy, "none", FALSE)]}

MCCalls ==
    {AsCall("CALL", vault, "burn", FALSE), AsCall("DELEGATECALL", logic, "upgradeTo", FALSE),
     AsCall("STATICCALL", vault, "none", FALSE), AsCall("CALL", mallory, "none", TRUE),
     AsCall("SELFDESTRUCT", mallory, "none", FALSE)}

World(implementation, owner, paused, allowance, supply) ==
    [implementation |-> implementation, owner |-> owner, governor |-> Day, proxy_admin |-> alice,
     paused |-> paused, allowance |-> allowance, supply |-> supply]
MCWorlds == {World(logic, alice, 0, 0, 0), World(logic, mallory, 1, Unlimited, 2)}

AsWrite(slot, value) == [slot |-> slot, value |-> value]
MCWrites ==
    {AsWrite("implementation", newLogic), AsWrite("owner", mallory), AsWrite("owner", alice),
     AsWrite("governor", NoAddress), AsWrite("proxy_admin", mallory), AsWrite("paused", 1),
     AsWrite("paused", 0), AsWrite("allowance", Unlimited), AsWrite("allowance", 1),
     AsWrite("supply", LargeMint), AsWrite("supply", 1)}

Context(newImplementation, owner, newOwner, recipient) ==
    [actor |-> mallory, contract |-> proxy, implementation |-> logic, newImplementation |-> newImplementation,
     owner |-> owner, newOwner |-> newOwner, spender |-> mallory, recipient |-> recipient]
MCContexts ==
    {Context(newLogic, alice, mallory, alice), Context(newLogic, mallory, alice, alice),
     Context(NoAddress, alice, NoAddress, NoAddress)}
=============================================================================
