SPECIFICATION PageSpec
CONSTANTS
    ann = ann
    bob = bob
    cat = cat
    c1 = c1
    c2 = c2
    Users <- MCUsers
    MaxPlayers = 2
    Calls <- MCCalls
    Players = {"ann", "bob"}
    Movers = {"bob"}
    MaxGames = 2
    MaxActions = 1
    MaxConnections = 3
    MaxJobs = 2
SYMMETRY MCSymmetry
INVARIANTS EmptyRoomsClose OverbookingBounded HostOrClosed BansKept ScreenRight
CHECK_DEADLOCK FALSE
