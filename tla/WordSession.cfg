SPECIFICATION FairSpec
CONSTANTS
    Players <- MCPlayers
    TotalTurns = 3
    r1 = r1
    r2 = r2
    r3 = r3
    Requests <- MCRequests
INVARIANTS NoLostUpdate TimersMatchTurns FinishedOnce
PROPERTIES ImplementsTurnOrder ClocksRunOut
