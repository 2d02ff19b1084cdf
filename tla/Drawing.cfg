SPECIFICATION DrawingSpec
CONSTANTS
    Players <- MCTable
    TeamCount = 3
    TotalRounds = 1
    RoundMs = 1
    DeckSize = 1
    SkipPoints = 0
    PaysGuesser = TRUE
    MaxTime = 1
    LogLimit = 1
    Host = "bob"
    Busy = {"ann", "bob"}
    MaxStrokes = 2
    MaxTasks = 2
    MaxJoins = 1
VIEW MCView
INVARIANTS CanvasRight CleanSlate
CHECK_DEADLOCK FALSE
