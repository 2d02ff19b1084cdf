SPECIFICATION Spec
CONSTANTS
    Players <- MCPlayers
    TotalTurns = 3
    r1 = r1
    r2 = r2
    r3 = r3
    Requests <- MCRequests
PROPERTIES StaleTimerIsNoOp
