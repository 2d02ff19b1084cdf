SPECIFICATION Spec
CONSTANTS
    Users = {"ann", "bob"}
    Creator = "ann"
    MaxSockets = 3
    MaxTasks = 2
    MaxAsks = 2
    MaxEvents = 4
INVARIANTS CountdownMeansAway RoomIsTold
PROPERTIES AwayAreEvicted
CHECK_DEADLOCK FALSE
