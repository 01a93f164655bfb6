SPECIFICATION RuntimeSpec
CONSTANTS
    NoAddress = NoAddress
    Day = Day
    proxy = proxy
    logic = logic
    newLogic = newLogic
    vault = vault
    alice = alice
    mallory = mallory
    Entrances <- MCEntrances
    Calls <- MCCalls
    Worlds <- MCWorlds
    Writes <- MCWrites
    Contexts <- MCContexts
    MaxFrames = 3
    MaxWrites = 2
    MaxFailures = 2
INVARIANTS ChangesAreTold ToldIsTrue PredictionsHold
CHECK_DEADLOCK FALSE
