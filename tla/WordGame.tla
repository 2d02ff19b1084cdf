------------------------------ MODULE WordGame ------------------------------
(***************************************************************************)
(* One session of a word game (Alias, Hat, Crocodile): the rules of        *)
(* engines/word-engine.ts with the reducers of games/alias.ts and          *)
(* games/crocodile.ts, the 'round' timer that the runtime arms and clears  *)
(* for them, and the pause and resume that follow the explainer's          *)
(* disconnect and reconnect.  Operations are delivered one at a time, as   *)
(* the room lock serialises them; WordSession models how they arrive.      *)
(*                                                                         *)
(* A word is its position in the deck, which the caller shuffled before    *)
(* init.  Teams are numbered from 0, as activeTeamIndex is.  Time is       *)
(* discrete.  A timer never fires before its deadline and may fire late.   *)
(***************************************************************************)
EXTENDS Integers, Sequences, FiniteSetsExt

CONSTANTS
    Players,      \* the session's playerIds, in room order: a sequence
    TeamCount,    \* 2 for Alias and Hat, Len(Players) for Crocodile
    TotalRounds,  \* how often every team explains
    RoundMs,      \* the time budget of one turn
    DeckSize,     \* how many words the shuffled deck holds
    SkipPoints,   \* what a skipped word is worth: -1 in Alias, else 0
    PaysGuesser,  \* TRUE in Crocodile: a correct word pays the guesser too
    MaxTime       \* bound: the session is followed up to this time

ASSUME EngineAssumption ==
    /\ Players \in Seq(STRING)
    /\ TeamCount \in 1..Len(Players)
    /\ TotalRounds \in Nat \ {0}
    /\ RoundMs \in Nat \ {0}
    /\ DeckSize \in Nat
    /\ SkipPoints \in {-1, 0}
    /\ PaysGuesser \in BOOLEAN
    /\ MaxTime \in Nat

VARIABLES
    turn,       \* turns taken so far, all teams together, plus one
    active,     \* activeTeamIndex
    explained,  \* explainerIndexByTeam: turns each team has explained
    started,    \* the active team's turn is in progress
    finished,   \* the turn budget is used up
    endsAt,     \* roundEndsAt
    banked,     \* pausedRemainingMs
    cursor,     \* deckCursor: words drawn
    word,       \* currentWord, 0 for null
    results,    \* roundResults
    score,      \* the teams' scores
    now,        \* Date.now()
    timer,      \* the deadline of the armed 'round' timer, or Null
    ran         \* history: how long the current turn's clock has been running

rotation == <<turn, active, explained, started, finished>>
clock == <<endsAt, banked, timer, ran>>
words == <<cursor, word>>
board == <<results, score>>
vars == <<rotation, clock, words, board, now>>

Null == -1
Teams == 0 .. (TeamCount - 1)
PlayerSet == {Players[i] : i \in DOMAIN Players}
TotalTurns == TotalRounds * TeamCount
Greater(a, b) == IF a > b THEN a ELSE b

\* buildTeams deals the players round-robin: player i joins team i % count.
Members(t) ==
    [k \in 1 .. ((Len(Players) - t + TeamCount - 1) \div TeamCount) |->
        Players[(k - 1) * TeamCount + t + 1]]

TeamOf(p) == CHOOSE t \in Teams : \E k \in DOMAIN Members(t) : Members(t)[k] = p

Explainer ==
    LET team == Members(active)
    IN  team[(explained[active] % Len(team)) + 1]

Init ==
    /\ turn = 1
    /\ active = 0
    /\ explained = [t \in Teams |-> 0]
    /\ started = FALSE
    /\ finished = (1 > TotalTurns)
    /\ endsAt = Null
    /\ banked = Null
    /\ cursor = 0
    /\ word = 0
    /\ results = << >>
    /\ score = [t \in Teams |-> 0]
    /\ now = 0
    /\ timer = Null
    /\ ran = 0

-----------------------------------------------------------------------------
\* Deviation: the deck wraps around.
DrawWordAgain ==
    /\ cursor' = IF cursor < DeckSize THEN cursor + 1 ELSE 1
    /\ word' = cursor'

\* An exhausted deck leaves no word in play instead of wrapping around.
DrawWord ==
    /\ cursor' = IF cursor < DeckSize THEN cursor + 1 ELSE cursor
    /\ word' = IF cursor < DeckSize THEN cursor + 1 ELSE 0

MayStart(p) == ~finished /\ Explainer = p /\ ~started

\* word/start_round
StartRound(p) ==
    /\ MayStart(p)
    /\ DrawWord
    /\ started' = TRUE
    /\ endsAt' = now + RoundMs
    /\ banked' = Null
    /\ timer' = now + RoundMs
    /\ ran' = 0
    /\ UNCHANGED <<turn, active, explained, finished, board, now>>

WordInPlay(p) == ~finished /\ Explainer = p /\ started /\ word # 0

ScoreWord(guessed) ==
    /\ results' = Append(results, [word |-> word, guessed |-> guessed, turn |-> turn])
    /\ DrawWord
    /\ UNCHANGED <<rotation, clock, now>>

\* What a correct word earns team t: a point for the team that explains and, in
\* Crocodile, one for the player who is named as the guesser.
Earned(t, guesser) ==
    (IF t = active THEN 1 ELSE 0) + (IF PaysGuesser /\ t = TeamOf(guesser) THEN 1 ELSE 0)

\* In Crocodile the explainer names another player; in Alias and Hat nobody is
\* named, and guesser stands for anybody.
MayCredit(p, guesser) == WordInPlay(p) /\ (PaysGuesser => guesser # p)

\* word/correct
Correct(p, guesser) ==
    /\ MayCredit(p, guesser)
    /\ score' = [t \in Teams |-> score[t] + Earned(t, guesser)]
    /\ ScoreWord(TRUE)

\* Deviation: skipping costs nothing.
SkipForFree(p) == WordInPlay(p) /\ UNCHANGED score /\ ScoreWord(FALSE)

\* word/skip
Skip(p) ==
    /\ WordInPlay(p)
    /\ score' = [score EXCEPT ![active] = @ + SkipPoints]
    /\ ScoreWord(FALSE)

\* Deviation: the turn is counted for the next team.
FinishTurnForNext ==
    /\ active' = (active + 1) % TeamCount
    /\ explained' = [explained EXCEPT ![active'] = @ + 1]
    /\ turn' = turn + 1
    /\ word' = 0
    /\ endsAt' = Null
    /\ started' = FALSE
    /\ finished' = (turn + 1 > TotalTurns)
    /\ timer' = Null
    /\ UNCHANGED <<banked, ran, cursor, board, now>>

\* finishWordTurn.  A paused turn that ends keeps its banked time until the
\* next StartRound overwrites it.
FinishTurn ==
    /\ explained' = [explained EXCEPT ![active] = @ + 1]
    /\ active' = (active + 1) % TeamCount
    /\ turn' = turn + 1
    /\ word' = 0
    /\ endsAt' = Null
    /\ started' = FALSE
    /\ finished' = (turn + 1 > TotalTurns)
    /\ timer' = Null
    /\ UNCHANGED <<banked, ran, cursor, board, now>>

\* Deviation: a turn may end that has not begun.
EndRoundEarly(p) == ~finished /\ Explainer = p /\ FinishTurn

MayEnd(p) == ~finished /\ Explainer = p /\ started

\* word/end_round
EndRound(p) == MayEnd(p) /\ FinishTurn

\* The timer leaves the map as it fires, and onTimer ends the turn.
TimerFires ==
    /\ timer # Null
    /\ now >= timer
    /\ IF ~finished /\ started
       THEN FinishTurn
       ELSE timer' = Null /\ UNCHANGED <<rotation, endsAt, banked, ran, words, board, now>>

-----------------------------------------------------------------------------
\* Only the player the game waits on stops and restarts the clock.
WaitingOn(p) == ~finished /\ started /\ Explainer = p

\* pauseForDisconnect(p): the timer is cleared even when the clock stands
\* already, the banked time of an earlier pause is kept.
Pause(p) ==
    /\ WaitingOn(p)
    /\ banked' = IF endsAt = Null THEN banked ELSE Greater(0, endsAt - now)
    /\ endsAt' = Null
    /\ timer' = Null
    /\ UNCHANGED <<rotation, words, board, now, ran>>

\* Deviation: a resumed turn gets a fresh budget.
ResumeAfresh(p) ==
    /\ WaitingOn(p)
    /\ banked # Null
    /\ endsAt' = now + RoundMs
    /\ banked' = Null
    /\ timer' = endsAt'
    /\ UNCHANGED <<rotation, words, board, now, ran>>

\* resumeAfterReconnect(p): with nothing banked there is nothing to resume.
Resume(p) ==
    /\ WaitingOn(p)
    /\ banked # Null
    /\ endsAt' = IF endsAt = Null THEN now + banked ELSE endsAt
    /\ banked' = IF endsAt = Null THEN Null ELSE banked
    /\ timer' = endsAt'
    /\ UNCHANGED <<rotation, words, board, now, ran>>

Tick ==
    /\ now < MaxTime
    /\ now' = now + 1
    /\ ran' = IF endsAt # Null THEN ran + 1 ELSE ran
    /\ UNCHANGED <<rotation, endsAt, banked, timer, words, board>>

Next ==
    \/ \E p \in PlayerSet : StartRound(p)
    \/ \E p, guesser \in PlayerSet : Correct(p, guesser)
    \/ \E p \in PlayerSet : Skip(p)
    \/ \E p \in PlayerSet : EndRound(p)
    \/ \E p \in PlayerSet : Pause(p)
    \/ \E p \in PlayerSet : Resume(p)
    \/ TimerFires
    \/ Tick

Spec == Init /\ [][Next]_vars

-----------------------------------------------------------------------------
Entry == [word : 1..DeckSize, guessed : BOOLEAN, turn : 1..TotalTurns]

\* Every variable stays within its type; the deck is never overdrawn.
TypeOK ==
    /\ turn \in 1..(TotalTurns + 1)
    /\ active \in Teams
    /\ explained \in [Teams -> Nat]
    /\ started \in BOOLEAN
    /\ finished \in BOOLEAN
    /\ endsAt \in Nat \cup {Null}
    /\ banked \in Nat \cup {Null}
    /\ cursor \in 0..DeckSize
    /\ word \in 0..DeckSize
    /\ results \in Seq(Entry)
    /\ score \in [Teams -> Int]
    /\ now \in Nat
    /\ timer \in Nat \cup {Null}
    /\ ran \in Nat

Remaining == IF endsAt # Null THEN Greater(0, endsAt - now) ELSE banked

\* Pausing and resuming, however often and however late, neither gives a turn
\* time nor takes any: what is left of a started turn is its budget less the
\* time its clock has run (pauseRound, resumeRound, startRound).
ClockBudget == started => Remaining = Greater(0, RoundMs - ran)

\* The timer is armed exactly while a turn's clock runs, for that clock's own
\* deadline: no running turn without an end, no timer left over from a turn
\* that ended or was frozen (the set and clear operations the reducers emit).
TimerFollowsClock == timer = (IF started THEN endsAt ELSE Null)

\* What is left of a turn is right, and so is the timer that ends it.
ClockRight == ClockBudget /\ TimerFollowsClock

\* Teams explain in rotation: the teams before the active one have explained
\* exactly one turn more than the others, nobody is ever two ahead
\* (advanceTurn).
BalancedTurns ==
    \A t \in Teams : explained[t] = explained[active] + (IF t < active THEN 1 ELSE 0)

\* A finished game gave every team exactly its TotalRounds turns, and a game
\* that gave them all is finished (isWordGameOver, totalTurns).
FinishedMeansPlayedOut == finished <=> \A t \in Teams : explained[t] = TotalRounds

\* Every team has its turns, in rotation and to the end.
FairTurns == BalancedTurns /\ FinishedMeansPlayedOut

Worth(i) == IF results[i].guessed THEN 1 ELSE SkipPoints
EntriesOf(t) == {i \in DOMAIN results : (results[i].turn - 1) % TeamCount = t}

\* The scoreboard is what the word history says: in Alias and Hat each team's
\* score is the sum over the words of its own turns (scoreWord, scoreTeamAt).
\* The history of Crocodile does not name the player who is paid for a guess.
ScoreMatchesHistory ==
    ~PaysGuesser => \A t \in Teams : score[t] = MapThenSumSet(Worth, EntriesOf(t))

\* No word is scored twice and the word in play is fresh: words are served in
\* deck order across turns, skips and pauses (drawWord, and the reset of
\* currentWord when a turn ends).
NoWordTwice ==
    /\ \A i, j \in DOMAIN results : i < j => results[i].word < results[j].word
    /\ word # 0 =>
          /\ word = cursor
          /\ \A i \in DOMAIN results : results[i].word < word

Phase ==
    IF finished THEN "over" ELSE IF ~started THEN "waiting"
    ELSE IF endsAt # Null THEN "running" ELSE "frozen"

Order == INSTANCE TurnOrder WITH phase <- Phase

\* The rules keep the order of turns that TurnOrder promises.
ImplementsTurnOrder == Order!Spec
=============================================================================
