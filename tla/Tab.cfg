SPECIFICATION TabSpec
CONSTANTS
    Users = {"guest", "ann"}
    Guests = {"guest"}
    NoOne = "nobody"
    Calls = {"c1", "c2"}
    PageCalls = {"c1"}
    PageUsers = {"ann"}
    Rooms = {"r1"}
    NoRoom = "none"
    MaxSockets = 2
    MaxTroubles = 1
    MaxPushes = 1
    Filters = {"all", "free"}
    NoList = "none"
    MaxFailures = 2
    MaxFlight = 2
    MaxRuns = 2
    MaxAsks = 3
INVARIANTS SessionRight ConnectionRight ListIsCurrent VoiceRight
PROPERTIES JoinsEnd
CHECK_DEADLOCK FALSE
