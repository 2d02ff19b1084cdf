SPECIFICATION Spec
CONSTANTS
    ann = ann
    bob = bob
    c1 = c1
    c2 = c2
    c3 = c3
    Users <- MCUsers
    MinPlayers = 2
    MaxActions = 1
    MaxSessions = 2
    Calls <- MCCalls
    Removals <- MCRemovals
INVARIANTS NobodyIsMissedAtAll
CHECK_DEADLOCK FALSE
