SPECIFICATION ServicesSpec
CONSTANTS
    Callers = {"a", "b", "c"}
    Clients = {"a", "b"}
    Max = 2
    MaxHits = 4
    Emails = {"e1", "e2"}
    Passwords = {"p"}
    Identities = {"bare", "mailed"}
    Mail <- MCMail
    Null = "null"
    MaxAccounts = 3
    MaxSignIns = 3
    Pair = {"ann", "bob"}
    MaxRows = 2
    MaxCalls = 3
    MaxLosses = 1
INVARIANTS LockIsSafe LimitHolds AccountsRight FriendsRight
PROPERTIES EveryCallReturns
CHECK_DEADLOCK FALSE
