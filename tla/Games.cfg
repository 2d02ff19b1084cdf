SPECIFICATION GamesSpec
CONSTANTS
    Players <- MCTable
    TeamCount = 2
    TotalRounds = 2
    RoundMs = 2
    DeckSize = 4
    SkipPoints <- MCSkipPoints
    PaysGuesser = FALSE
    MaxTime = 6
    Pack <- MCPack
    Shuffles <- MCShuffles
    Tables <- MCTables
    HandSize = 2
    MaxAttacks = 2
VIEW MCView
INVARIANTS ClockRight FairTurns ScoreMatchesHistory NoWordTwice WordScreenRight CardsOnce GameGoesOn PlacesRight ScreenMatchesRules
PROPERTIES ImplementsTurnOrder
CHECK_DEADLOCK FALSE
