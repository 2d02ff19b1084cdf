----------------------------- MODULE GameProofs -----------------------------
(***************************************************************************)
(* Proofs about the games: WordGame, for every table, deck, budget and     *)
(* clock bound; Drawing over it, for any log limit and any number of       *)
(* strokes and requests in progress; the card games and their screen, for  *)
(* every pack, shuffle and table; and the screen of a word game.           *)
(***************************************************************************)
EXTENDS Drawing, WordScreen, CardScreen, Sums, SequenceTheorems

\* The clock is set only in a started turn; a started turn whose clock stands
\* has its remaining time banked; a finished game has no turn in progress.
ClockShape ==
    /\ ~started => endsAt = Null
    /\ started /\ endsAt = Null => banked # Null
    /\ started /\ endsAt # Null => banked = Null
    /\ finished => ~started

\* The turn counter says where the rotation is.
TurnCount ==
    /\ turn = explained[active] * TeamCount + active + 1
    /\ finished <=> turn > TotalTurns

LEMMA TotalTurnsNat == TotalTurns \in Nat \ {0}
BY EngineAssumption DEF TotalTurns

LEMMA TeamsFact == TeamCount \in Nat \ {0} /\ 0 \in Teams
BY EngineAssumption DEF Teams

LEMMA NextTeam == \A t \in Teams : (t + 1) % TeamCount = IF t + 1 = TeamCount THEN 0 ELSE t + 1
BY TeamsFact DEF Teams

-----------------------------------------------------------------------------
\* Type correctness needs TurnCount: a turn in progress is within the turn
\* budget, so that the counter and the history entries stay in range.

LEMMA DrawType ==
    ASSUME TypeOK, DrawWord
    PROVE  cursor' \in 0..DeckSize /\ word' \in 0..DeckSize
BY EngineAssumption DEF TypeOK, DrawWord

LEMMA AppendType ==
    ASSUME TypeOK, TurnCount, ~finished, word # 0, NEW guessed \in BOOLEAN
    PROVE  Append(results, [word |-> word, guessed |-> guessed, turn |-> turn]) \in Seq(Entry)
<1>1. turn \in 1..TotalTurns
    BY TotalTurnsNat DEF TypeOK, TurnCount
<1>2. [word |-> word, guessed |-> guessed, turn |-> turn] \in Entry
    BY <1>1, EngineAssumption DEF TypeOK, Entry
<1> QED
    BY <1>2 DEF TypeOK

LEMMA FinishTurnType ==
    ASSUME TypeOK, TurnCount, ~finished, FinishTurn
    PROVE  TypeOK'
<1>1. active' \in Teams
    BY TeamsFact, NextTeam DEF TypeOK, FinishTurn, Teams
<1>2. turn' \in 1..(TotalTurns + 1)
    BY TotalTurnsNat DEF TypeOK, FinishTurn, TurnCount
<1>3. explained' \in [Teams -> Nat]
    BY DEF TypeOK, FinishTurn
<1>4. finished' \in BOOLEAN
    <2>1. finished' = (turn + 1 > TotalTurns)
        BY DEF FinishTurn
    <2>2. (turn + 1 > TotalTurns) \in BOOLEAN
        BY TotalTurnsNat DEF TypeOK
    <2> QED
        BY <2>1, <2>2
<1>5. started' \in BOOLEAN
    BY DEF FinishTurn
<1> QED
    BY <1>1, <1>2, <1>3, <1>4, <1>5, EngineAssumption DEF TypeOK, FinishTurn, board, Null

LEMMA TypeStep == TypeOK /\ TurnCount /\ [Next]_vars => TypeOK'
<1> SUFFICES ASSUME TypeOK, TurnCount, [Next]_vars PROVE TypeOK'
    OBVIOUS
<1>1. CASE \E p \in PlayerSet : StartRound(p)
    <2> PICK p \in PlayerSet : StartRound(p)
        BY <1>1
    <2>1. cursor' \in 0..DeckSize /\ word' \in 0..DeckSize
        BY DrawType DEF StartRound, MayStart
    <2> QED
        BY <2>1, EngineAssumption DEF TypeOK, StartRound, MayStart, board, Null
<1>2. CASE \E p, guesser \in PlayerSet : Correct(p, guesser)
    <2> PICK p \in PlayerSet, guesser \in PlayerSet : Correct(p, guesser)
        BY <1>2
    <2>1. cursor' \in 0..DeckSize /\ word' \in 0..DeckSize /\ results' \in Seq(Entry)
        BY DrawType, AppendType DEF Correct, MayCredit, ScoreWord, WordInPlay
    <2>2. score' \in [Teams -> Int]
        BY DEF TypeOK, Correct, MayCredit, Earned
    <2> QED
        BY <2>1, <2>2 DEF TypeOK, Correct, MayCredit, ScoreWord, rotation, clock
<1>3. CASE \E p \in PlayerSet : Skip(p)
    <2> PICK p \in PlayerSet : Skip(p)
        BY <1>3
    <2>1. cursor' \in 0..DeckSize /\ word' \in 0..DeckSize /\ results' \in Seq(Entry)
        BY DrawType, AppendType DEF Skip, ScoreWord, WordInPlay
    <2>2. score' \in [Teams -> Int]
        BY EngineAssumption DEF TypeOK, Skip
    <2> QED
        BY <2>1, <2>2 DEF TypeOK, Skip, ScoreWord, rotation, clock
<1>4. CASE \E p \in PlayerSet : EndRound(p)
    BY <1>4, FinishTurnType DEF EndRound, MayEnd
<1>5. CASE \E p \in PlayerSet : Pause(p)
    BY <1>5 DEF Pause, TypeOK, Greater, Null, rotation, words, board
<1>6. CASE \E p \in PlayerSet : Resume(p)
    BY <1>6 DEF Resume, TypeOK, Null, rotation, words, board
<1>7. CASE TimerFires
    <2>1. CASE ~finished /\ started
        BY <1>7, <2>1, FinishTurnType DEF TimerFires
    <2>2. CASE ~(~finished /\ started)
        BY <1>7, <2>2 DEF TimerFires, TypeOK, rotation, words, board, Null
    <2> QED
        BY <2>1, <2>2
<1>8. CASE Tick
    BY <1>8 DEF Tick, TypeOK, rotation, words, board
<1>9. CASE UNCHANGED vars
    BY <1>9 DEF vars, TypeOK, rotation, clock, words, board
<1> QED
    BY <1>1, <1>2, <1>3, <1>4, <1>5, <1>6, <1>7, <1>8, <1>9 DEF Next

-----------------------------------------------------------------------------
\* The rotation: each action either leaves the turn counter, the active team
\* and the explained counts alone, or is the end of a turn.
LEMMA RotationStep ==
    ASSUME [Next]_vars
    PROVE  \/ UNCHANGED <<turn, active, explained, finished>>
           \/ ~finished /\ started /\ FinishTurn
<1>1. ASSUME NEW p \in PlayerSet, EndRound(p)
      PROVE  ~finished /\ started /\ FinishTurn
    BY <1>1 DEF EndRound, MayEnd
<1>2. ASSUME TimerFires
      PROVE  UNCHANGED <<turn, active, explained, finished>> \/ (~finished /\ started /\ FinishTurn)
    BY <1>2 DEF TimerFires, rotation
<1> QED
    BY <1>1, <1>2 DEF Next, vars, StartRound, MayStart, Correct, MayCredit, Skip, ScoreWord,
                      Pause, Resume, Tick, rotation

LEMMA BalancedStep == TypeOK /\ BalancedTurns /\ [Next]_vars => BalancedTurns'
<1> SUFFICES ASSUME TypeOK, BalancedTurns, [Next]_vars PROVE BalancedTurns'
    OBVIOUS
<1>1. CASE UNCHANGED <<turn, active, explained, finished>>
    BY <1>1 DEF BalancedTurns
<1>2. CASE ~finished /\ started /\ FinishTurn
    <2>1. active' = IF active + 1 = TeamCount THEN 0 ELSE active + 1
        BY <1>2, NextTeam DEF TypeOK, FinishTurn
    <2>2. active \in Teams /\ active' \in Teams
        BY <2>1, TeamsFact DEF TypeOK, Teams
    <2>3. \A t \in Teams : explained'[t] = explained[t] + (IF t = active THEN 1 ELSE 0)
        BY <1>2, <2>2, SMTT(40) DEF TypeOK, FinishTurn
    <2>4. SUFFICES ASSUME NEW t \in Teams
                   PROVE  explained'[t] = explained'[active'] + (IF t < active' THEN 1 ELSE 0)
        BY DEF BalancedTurns
    <2>5. explained[t] = explained[active] + (IF t < active THEN 1 ELSE 0)
        BY DEF BalancedTurns
    <2>6. explained[active'] = explained[active] + (IF active' < active THEN 1 ELSE 0)
        BY <2>2 DEF BalancedTurns
    <2>7. explained[t] \in Nat /\ explained[active] \in Nat /\ explained[active'] \in Nat
        BY <2>2 DEF TypeOK
    <2> QED
        BY <2>1, <2>2, <2>3, <2>5, <2>6, <2>7, TeamsFact DEF Teams
<1> QED
    BY <1>1, <1>2, RotationStep

LEMMA TurnCountStep == TypeOK /\ BalancedTurns /\ TurnCount /\ [Next]_vars => TurnCount'
<1> SUFFICES ASSUME TypeOK, BalancedTurns, TurnCount, [Next]_vars PROVE TurnCount'
    OBVIOUS
<1>1. CASE UNCHANGED <<turn, active, explained, finished>>
    BY <1>1 DEF TurnCount
<1>2. CASE ~finished /\ started /\ FinishTurn
    <2>1. turn' = turn + 1 /\ (finished' <=> turn + 1 > TotalTurns)
        BY <1>2 DEF FinishTurn
    <2>2. active' = IF active + 1 = TeamCount THEN 0 ELSE active + 1
        BY <1>2, NextTeam DEF TypeOK, FinishTurn
    <2>3. active \in Teams /\ explained[active] \in Nat
        BY DEF TypeOK
    <2>4. CASE active + 1 = TeamCount
        <3>1. CASE active = 0
            <4>1. explained'[0] = explained[active] + 1
                BY <1>2, <3>1, <2>3 DEF TypeOK, FinishTurn
            <4> QED
                BY <4>1, <3>1, <2>1, <2>2, <2>3, <2>4, TeamsFact DEF TurnCount
        <3>2. CASE active # 0
            <4>1. explained'[0] = explained[0]
                BY <1>2, <3>2, TeamsFact DEF TypeOK, FinishTurn
            <4>2. explained[0] = explained[active] + 1
                BY <3>2, <2>3, TeamsFact DEF BalancedTurns, Teams
            <4>3. (explained[active] + 1) * TeamCount = explained[active] * TeamCount + TeamCount
                BY <2>3, TeamsFact
            <4> QED
                BY <4>1, <4>2, <4>3, <2>1, <2>2, <2>3, <2>4, TeamsFact DEF TurnCount, Teams
        <3> QED
            BY <3>1, <3>2
    <2>5. CASE active + 1 # TeamCount
        <3>1. active + 1 \in Teams
            BY <2>3, <2>5, TeamsFact DEF Teams
        <3>2. explained[active + 1] = explained[active]
            BY <3>1, <2>3 DEF BalancedTurns, TypeOK, Teams
        <3>3. explained'[active + 1] = explained[active + 1]
            BY <1>2, <3>1, <2>3 DEF TypeOK, FinishTurn, Teams
        <3> QED
            BY <3>2, <3>3, <2>1, <2>2, <2>3, <2>5, TeamsFact DEF TurnCount, Teams
    <2> QED
        BY <2>4, <2>5
<1> QED
    BY <1>1, <1>2, RotationStep

LEMMA PlayedOut == TypeOK /\ BalancedTurns /\ TurnCount => FinishedMeansPlayedOut
<1> SUFFICES ASSUME TypeOK, BalancedTurns, TurnCount PROVE FinishedMeansPlayedOut
    OBVIOUS
<1> DEFINE k == explained[active]
<1>1. k \in Nat /\ active \in Nat /\ active < TeamCount /\ TotalRounds \in Nat
    BY EngineAssumption DEF TypeOK, Teams
<1>2. turn = k * TeamCount + active + 1 /\ turn <= TotalRounds * TeamCount + 1
    BY TotalTurnsNat DEF TypeOK, TurnCount, TotalTurns
<1>3. finished <=> turn > TotalRounds * TeamCount
    BY DEF TurnCount, TotalTurns
<1> HIDE DEF k
<1>4. k < TotalRounds => k * TeamCount + active < TotalRounds * TeamCount
    <2> SUFFICES ASSUME k < TotalRounds PROVE k * TeamCount + active < TotalRounds * TeamCount
        OBVIOUS
    <2>1. PICK d \in Nat : TotalRounds = k + 1 + d
        BY <1>1, TotalRounds - k - 1 \in Nat
    <2>2. TotalRounds * TeamCount = k * TeamCount + TeamCount + d * TeamCount
        BY <2>1, <1>1, TeamsFact
    <2>3. d * TeamCount \in Nat
        BY TeamsFact
    <2> QED
        BY <2>2, <2>3, <1>1, TeamsFact
<1>5. k > TotalRounds => k * TeamCount > TotalRounds * TeamCount
    <2> SUFFICES ASSUME k > TotalRounds PROVE k * TeamCount > TotalRounds * TeamCount
        OBVIOUS
    <2>1. PICK d \in Nat : k = TotalRounds + 1 + d
        BY <1>1, k - TotalRounds - 1 \in Nat
    <2>2. k * TeamCount = TotalRounds * TeamCount + TeamCount + d * TeamCount
        BY <2>1, <1>1, TeamsFact
    <2>3. d * TeamCount \in Nat /\ TotalRounds * TeamCount \in Nat
        BY TeamsFact, <1>1
    <2> QED
        BY <2>2, <2>3, <1>1, TeamsFact
<1>6. k * TeamCount \in Nat /\ TotalRounds * TeamCount \in Nat
    BY <1>1, TeamsFact
<1>7. finished => k = TotalRounds /\ active = 0
    BY <1>1, <1>2, <1>3, <1>4, <1>5, <1>6
<1>8. k = TotalRounds => finished
    BY <1>1, <1>2, <1>3, <1>6
<1>9. active \in Teams
    BY DEF TypeOK
<1>10. finished => \A t \in Teams : explained[t] = TotalRounds
    BY <1>7, <1>1 DEF BalancedTurns, k, Teams, TypeOK
<1>11. (\A t \in Teams : explained[t] = TotalRounds) => finished
    BY <1>8, <1>9 DEF k
<1> QED
    BY <1>10, <1>11 DEF FinishedMeansPlayedOut

-----------------------------------------------------------------------------
\* The clock.  Only Tick moves time; it takes from a running clock what it adds
\* to the time the clock has run.
ClockInv == ClockShape /\ ClockBudget /\ TimerFollowsClock

LEMMA ClockInit == Init => ClockInv
BY EngineAssumption, TotalTurnsNat
   DEF Init, ClockInv, ClockShape, ClockBudget, TimerFollowsClock, Null

LEMMA ClockStep == TypeOK /\ ClockInv /\ [Next]_vars => ClockInv'
<1> SUFFICES ASSUME TypeOK, ClockInv, [Next]_vars PROVE ClockInv'
    OBVIOUS
<1> USE EngineAssumption
    DEF TypeOK, ClockInv, ClockShape, ClockBudget, TimerFollowsClock, Remaining, Greater, Null
<1>1. ASSUME NEW p \in PlayerSet, StartRound(p) PROVE ClockInv'
    BY <1>1 DEF StartRound, MayStart, DrawWord
<1>2. ASSUME UNCHANGED <<rotation, clock, now>>, DrawWord PROVE ClockInv'
    BY <1>2 DEF rotation, clock, DrawWord
<1>3. ASSUME NEW p \in PlayerSet, NEW q \in PlayerSet, Correct(p, q) \/ Skip(p)
      PROVE  ClockInv'
    BY <1>2, <1>3 DEF Correct, MayCredit, Skip, ScoreWord
<1>4. ASSUME FinishTurn PROVE ClockInv'
    BY <1>4 DEF FinishTurn
<1>5. ASSUME NEW p \in PlayerSet, Pause(p) PROVE ClockInv'
    BY <1>5 DEF Pause, WaitingOn, rotation, words
<1>6. ASSUME NEW p \in PlayerSet, Resume(p) PROVE ClockInv'
    BY <1>6 DEF Resume, WaitingOn, rotation, words
<1>7. ASSUME TimerFires PROVE ClockInv'
    BY <1>4, <1>7 DEF TimerFires, rotation, words
<1>8. ASSUME Tick PROVE ClockInv'
    BY <1>8 DEF Tick, rotation, words
<1>9. ASSUME UNCHANGED vars PROVE ClockInv'
    BY <1>9 DEF vars, rotation, clock, words
<1> QED
    BY <1>1, <1>3, <1>4, <1>5, <1>6, <1>7, <1>8, <1>9 DEF Next, EndRound, MayEnd

-----------------------------------------------------------------------------
IInv == TypeOK /\ BalancedTurns /\ TurnCount /\ ClockInv

LEMMA InitIInv == Init => IInv
<1> SUFFICES ASSUME Init PROVE IInv
    OBVIOUS
<1>1. TypeOK
    <2>1. finished \in BOOLEAN
        <3>1. finished = (1 > TotalTurns)
            BY Zenon DEF Init
        <3>2. (1 > TotalTurns) \in BOOLEAN
            BY TotalTurnsNat
        <3> QED
            BY <3>1, <3>2
    <2>2. results \in Seq(Entry)
        BY DEF Init
    <2>3. turn \in 1..(TotalTurns + 1) /\ cursor \in 0..DeckSize /\ word \in 0..DeckSize
        BY EngineAssumption, TotalTurnsNat DEF Init
    <2>4. explained \in [Teams -> Nat] /\ score \in [Teams -> Int] /\ active \in Teams
        BY TeamsFact DEF Init
    <2> QED
        BY <2>1, <2>2, <2>3, <2>4 DEF Init, TypeOK, Null
<1>2. BalancedTurns
    BY TeamsFact DEF Init, BalancedTurns, Teams
<1>3. TurnCount
    BY TotalTurnsNat, TeamsFact DEF Init, TurnCount
<1> QED
    BY <1>1, <1>2, <1>3, ClockInit DEF IInv

LEMMA InductiveIInv == Spec => []IInv
<1>1. IInv /\ [Next]_vars => IInv'
    BY TypeStep, BalancedStep, TurnCountStep, ClockStep DEF IInv
<1> QED
    BY InitIInv, <1>1, PTL DEF Spec

\* A session of a word game keeps its types: the turn counter never passes the
\* turn budget and the deck is never overdrawn, whatever the players do.
THEOREM TypeCorrect == Spec => []TypeOK
<1>1. IInv => TypeOK
    BY DEF IInv
<1> QED
    BY InductiveIInv, <1>1, PTL

\* However often and however late a turn is paused and resumed, what is left
\* of it is its budget less the time its clock has run.
THEOREM ClockBudgetCorrect == Spec => []ClockBudget
<1>1. IInv => ClockBudget
    BY DEF IInv, ClockInv
<1> QED
    BY InductiveIInv, <1>1, PTL

\* The 'round' timer is armed exactly while a turn's clock runs, for the
\* deadline of that clock.
THEOREM TimerFollowsClockCorrect == Spec => []TimerFollowsClock
<1>1. IInv => TimerFollowsClock
    BY DEF IInv, ClockInv
<1> QED
    BY InductiveIInv, <1>1, PTL

\* Whatever is left of a turn is right, and so is the timer that ends it.
THEOREM ClockRightCorrect == Spec => []ClockRight
<1>1. ClockBudget /\ TimerFollowsClock => ClockRight
    BY DEF ClockRight
<1> QED
    BY <1>1, ClockBudgetCorrect, TimerFollowsClockCorrect, PTL

\* No team ever explains two turns more than another.
THEOREM BalancedTurnsCorrect == Spec => []BalancedTurns
<1>1. IInv => BalancedTurns
    BY DEF IInv
<1> QED
    BY InductiveIInv, <1>1, PTL

\* A game is finished exactly when every team has explained its TotalRounds
\* turns: no team ends with more turns or fewer.
THEOREM FinishedMeansPlayedOutCorrect == Spec => []FinishedMeansPlayedOut
<1>1. IInv => FinishedMeansPlayedOut
    BY PlayedOut DEF IInv
<1> QED
    BY InductiveIInv, <1>1, PTL

\* Every team has its turns, in rotation and to the end of the game.
THEOREM FairTurnsCorrect == Spec => []FairTurns
<1>1. BalancedTurns /\ FinishedMeansPlayedOut => FairTurns
    BY DEF FairTurns
<1> QED
    BY <1>1, BalancedTurnsCorrect, FinishedMeansPlayedOutCorrect, PTL

\* The rules keep the order of turns: every step of a session is a step of
\* TurnOrder or changes nothing it speaks about.
THEOREM TurnOrderImplemented == Spec => ImplementsTurnOrder
<1>1. Init => Order!Init
    <2> SUFFICES ASSUME Init PROVE Order!Init
        OBVIOUS
    <2>1. finished = (1 > TotalTurns) /\ ~started /\ turn = 1
        BY DEF Init
    <2>2. (1 > TotalTurns) = FALSE
        BY TotalTurnsNat
    <2>3. ~finished
        BY <2>1, <2>2, Zenon
    <2> QED
        BY <2>1, <2>3, Zenon DEF Order!Init, Phase
<1>2. IInv /\ [Next]_vars => [Order!Next]_Order!vars
    <2> SUFFICES ASSUME IInv, [Next]_vars PROVE [Order!Next]_Order!vars
        OBVIOUS
    <2> USE DEF IInv, TypeOK, Phase, Null
    <2>1. ASSUME NEW p \in PlayerSet, StartRound(p) PROVE Order!Begin
        BY <2>1, EngineAssumption DEF StartRound, MayStart, Order!Begin
    <2>2. ASSUME FinishTurn, ~finished, started PROVE Order!End
        BY <2>2 DEF FinishTurn, Order!End
    <2>3. ASSUME NEW p \in PlayerSet, EndRound(p) PROVE Order!End
        BY <2>2, <2>3 DEF EndRound, MayEnd
    <2>4. ASSUME NEW p \in PlayerSet, Pause(p) PROVE Order!Freeze \/ UNCHANGED Order!vars
        BY <2>4 DEF Pause, WaitingOn, rotation, Order!Freeze, Order!vars
    <2>5. ASSUME NEW p \in PlayerSet, Resume(p) PROVE Order!Thaw \/ UNCHANGED Order!vars
        BY <2>5 DEF Resume, WaitingOn, rotation, Order!Thaw, Order!vars
    <2>6. ASSUME TimerFires PROVE Order!End \/ UNCHANGED Order!vars
        BY <2>2, <2>6 DEF TimerFires, rotation, Order!vars
    <2>7. ASSUME UNCHANGED <<rotation, endsAt>> PROVE UNCHANGED Order!vars
        BY <2>7 DEF rotation, Order!vars
    <2>8. ASSUME NEW p \in PlayerSet, NEW q \in PlayerSet,
                 Correct(p, q) \/ Skip(p)
          PROVE  UNCHANGED Order!vars
        BY <2>7, <2>8 DEF Correct, MayCredit, Skip, ScoreWord, clock
    <2>9. ASSUME Tick \/ UNCHANGED vars PROVE UNCHANGED Order!vars
        BY <2>7, <2>9 DEF Tick, vars, clock
    <2> QED
        BY <2>1, <2>3, <2>4, <2>5, <2>6, <2>8, <2>9 DEF Next, Order!Next
<1> QED
    BY <1>1, <1>2, InductiveIInv, PTL DEF Spec, ImplementsTurnOrder, Order!Spec

-----------------------------------------------------------------------------
\* NoWordTwice with what makes it inductive: no word of the history lies
\* beyond the cursor.
WordsInOrder ==
    /\ NoWordTwice
    /\ \A i \in DOMAIN results : results[i].word <= cursor

LEMMA EntryWord ==
    ASSUME TypeOK
    PROVE  \A i \in DOMAIN results : results[i].word \in Nat
<1> SUFFICES ASSUME NEW i \in DOMAIN results PROVE results[i].word \in Nat
    OBVIOUS
<1>1. results[i] \in Entry
    BY DEF TypeOK
<1>2. \A e \in Entry : e.word \in 1..DeckSize
    BY DEF Entry
<1> QED
    BY <1>1, <1>2, EngineAssumption

LEMMA WordsInit == Init => WordsInOrder
BY DEF Init, WordsInOrder, NoWordTwice

\* Scoring the word in play appends the newest word and draws the next.
LEMMA ScoreKeepsOrder ==
    ASSUME TypeOK, WordsInOrder, word # 0, NEW guessed \in BOOLEAN, ScoreWord(guessed)
    PROVE  WordsInOrder'
<1> DEFINE entry == [word |-> word, guessed |-> guessed, turn |-> turn]
<1>1. results' = Append(results, entry) /\ entry.word = word
    BY DEF ScoreWord
<1>2. word = cursor /\ cursor \in Nat /\ results \in Seq(Entry) /\ DeckSize \in Nat
    BY EngineAssumption DEF WordsInOrder, NoWordTwice, TypeOK
<1>3. /\ DOMAIN results' = 1 .. (Len(results) + 1)
      /\ \A i \in 1 .. Len(results) : results'[i] = results[i]
      /\ results'[Len(results) + 1] = entry
    BY <1>1, <1>2
<1>4. \/ cursor < DeckSize /\ cursor' = cursor + 1 /\ word' = cursor + 1
      \/ cursor' = cursor /\ word' = 0
    BY <1>2 DEF ScoreWord, DrawWord
<1>5. \A i \in 1 .. Len(results) :
          /\ results[i].word \in Nat
          /\ results[i].word < word
          /\ \A j \in 1 .. Len(results) : i < j => results[i].word < results[j].word
    <2>1. DOMAIN results = 1 .. Len(results)
        BY <1>2
    <2> QED
        BY <1>2, <2>1, EntryWord DEF WordsInOrder, NoWordTwice
<1>6. \A i \in DOMAIN results' : results'[i].word <= word
    BY <1>1, <1>2, <1>3, <1>5
<1>7. \A i, j \in DOMAIN results' : i < j => results'[i].word < results'[j].word
    <2> SUFFICES ASSUME NEW i \in 1 .. (Len(results) + 1), NEW j \in 1 .. (Len(results) + 1), i < j
                 PROVE  results'[i].word < results'[j].word
        BY <1>3
    <2>1. Len(results) \in Nat
        BY <1>2
    <2>2. i \in 1 .. Len(results)
        BY <2>1
    <2>3. CASE j \in 1 .. Len(results)
        BY <2>2, <2>3, <1>3, <1>5
    <2>4. CASE j = Len(results) + 1
        BY <2>2, <2>4, <1>1, <1>3, <1>5
    <2> QED
        BY <2>1, <2>3, <2>4
<1>8. \A i \in DOMAIN results' : results'[i].word \in Nat
    BY <1>1, <1>2, <1>3, <1>5
<1> QED
    BY <1>2, <1>4, <1>6, <1>7, <1>8 DEF WordsInOrder, NoWordTwice

LEMMA WordsStep == TypeOK /\ WordsInOrder /\ [Next]_vars => WordsInOrder'
<1> SUFFICES ASSUME TypeOK, WordsInOrder, [Next]_vars PROVE WordsInOrder'
    OBVIOUS
<1>1. ASSUME NEW p \in PlayerSet, NEW q \in PlayerSet, Correct(p, q) \/ Skip(p)
      PROVE  WordsInOrder'
    BY <1>1, ScoreKeepsOrder DEF Correct, MayCredit, Skip, WordInPlay
<1>2. ASSUME UNCHANGED <<cursor, results>>, word' \in {0, word} PROVE WordsInOrder'
    BY <1>2 DEF WordsInOrder, NoWordTwice
<1>3. ASSUME NEW p \in PlayerSet, StartRound(p) PROVE WordsInOrder'
    <2>1. results' = results /\ DrawWord
        BY <1>3 DEF StartRound, MayStart, board
    <2>2. cursor \in Nat /\ cursor' \in Nat /\ cursor' >= cursor
          /\ (word' # 0 => word' = cursor' /\ cursor' = cursor + 1)
        BY <2>1, EngineAssumption DEF TypeOK, DrawWord
    <2>3. \A i \in DOMAIN results : results[i].word \in Nat /\ results[i].word <= cursor
        BY EntryWord DEF WordsInOrder
    <2>4. \A i \in DOMAIN results : results[i].word <= cursor' /\ (word' # 0 => results[i].word < word')
        BY <2>2, <2>3
    <2>5. \A i, j \in DOMAIN results : i < j => results[i].word < results[j].word
        BY DEF WordsInOrder, NoWordTwice
    <2> QED
        BY <2>1, <2>2, <2>4, <2>5 DEF WordsInOrder, NoWordTwice
<1>4. ASSUME FinishTurn PROVE WordsInOrder'
    BY <1>2, <1>4 DEF FinishTurn, board
<1>5. ASSUME NEW p \in PlayerSet, Pause(p) \/ Resume(p) PROVE WordsInOrder'
    BY <1>2, <1>5 DEF Pause, Resume, words, board
<1>6. ASSUME TimerFires PROVE WordsInOrder'
    BY <1>2, <1>4, <1>6 DEF TimerFires, words, board
<1>7. ASSUME Tick \/ UNCHANGED vars PROVE WordsInOrder'
    BY <1>2, <1>7 DEF Tick, vars, words, board
<1> QED
    BY <1>1, <1>3, <1>4, <1>5, <1>6, <1>7 DEF Next, EndRound, MayEnd

\* No word of the deck is ever scored twice, and the word in play has not
\* been scored before.
THEOREM NoWordTwiceCorrect == Spec => []NoWordTwice
<1>1. WordsInOrder => NoWordTwice
    BY DEF WordsInOrder
<1> QED
    BY WordsInit, WordsStep, TypeCorrect, <1>1, PTL DEF Spec

-----------------------------------------------------------------------------
\* The score of a team is the sum of what its words are worth.
\* What the entries of a history are worth together.
WorthIn(rs, i) == IF rs[i].guessed THEN 1 ELSE SkipPoints
Balance(rs, E) == MapThenSumSet(LAMBDA i : WorthIn(rs, i), E)

LEMMA BalanceIsSum ==
    ASSUME NEW rs, NEW E, IsFiniteSet(E), NEW f, \A i \in E : f[i] = WorthIn(rs, i) /\ f[i] \in Int
    PROVE  Balance(rs, E) = SumOver(f, E)
<1> DEFINE it == CHOOSE it : it = [s \in SUBSET E |-> IF s = {} THEN 0
                                      ELSE WorthIn(rs, Pick(s)) + it[s \ {Pick(s)}]]
<1>1. Balance(rs, E) = it[E]
    BY DEF Balance, MapThenSumSet, MapThenFoldSet, Pick
<1>2. PICK a \in [SUBSET E -> Int] : IsSum(a, f, E) /\ SumOver(f, E) = a[E]
    BY SumUnfolds
<1>3. \A s \in SUBSET E : s # {} => f[Pick(s)] = WorthIn(rs, Pick(s))
    BY PickIsIn
<1>4. a = [s \in SUBSET E |-> IF s = {} THEN 0
                                      ELSE WorthIn(rs, Pick(s)) + a[s \ {Pick(s)}]]
    BY <1>2, <1>3 DEF IsSum
<1>5. it = [s \in SUBSET E |-> IF s = {} THEN 0
                                      ELSE WorthIn(rs, Pick(s)) + it[s \ {Pick(s)}]]
    BY <1>4
<1> HIDE DEF it
<1>6. IsSum(it, f, E)
    BY <1>3, <1>5 DEF IsSum
<1>7. it[E] = a[E]
    BY <1>2, <1>6, SumsAgree
<1> QED
    BY <1>1, <1>2, <1>7

EntriesIn(rs, t) == {i \in DOMAIN rs : (rs[i].turn - 1) % TeamCount = t}

LEMMA ScoreIsBalance ==
    ScoreMatchesHistory <=>
        (~PaysGuesser => \A t \in Teams : score[t] = Balance(results, EntriesIn(results, t)))
BY DEF ScoreMatchesHistory, Balance, WorthIn, Worth, EntriesOf, EntriesIn

LEMMA ScoreIsBalanceNext ==
    ScoreMatchesHistory' <=>
        (~PaysGuesser => \A t \in Teams : score'[t] = Balance(results', EntriesIn(results', t)))
<1>1. (ScoreMatchesHistory <=>
         (~PaysGuesser => \A t \in Teams : score[t] = Balance(results, EntriesIn(results, t))))'
    BY ScoreIsBalance, PTL
<1> QED
    BY <1>1

\* Division with a remainder leaves one remainder.
LEMMA OneRemainder ==
    ASSUME NEW n \in Nat \ {0}, NEW k \in Nat, NEW a \in 0 .. n - 1
    PROVE  (k * n + a) % n = a
<1> DEFINE x == k * n + a
           q == x \div n
           r == x % n
<1>1. x \in Nat /\ k * n \in Nat
    OBVIOUS
<1>2. x = n * q + r /\ r \in 0 .. n - 1 /\ q \in Nat
    <2> HIDE DEF x
    <2> QED
        BY <1>1
<1>3. x = k * n + a
    OBVIOUS
<1> HIDE DEF x, q, r
<1>4. ASSUME k < q PROVE FALSE
    <2>1. PICK d \in Nat : q = k + 1 + d
        BY <1>2, <1>4, q - k - 1 \in Nat
    <2>2. n * q = k * n + n + d * n /\ d * n \in Nat
        BY <2>1
    <2> QED
        BY <1>1, <1>2, <1>3, <2>2
<1>5. ASSUME k > q PROVE FALSE
    <2>1. PICK d \in Nat : k = q + 1 + d
        BY <1>2, <1>5, k - q - 1 \in Nat
    <2>2. k * n = n * q + n + d * n /\ d * n \in Nat /\ n * q \in Nat
        BY <1>2, <2>1
    <2> QED
        BY <1>1, <1>2, <1>3, <2>2
<1>6. k = q
    BY <1>2, <1>4, <1>5
<1>7. r = a
    <2>1. n * q = k * n
        BY <1>2, <1>6
    <2> QED
        BY <1>1, <1>2, <1>3, <2>1
<1> QED
    BY <1>7 DEF r, x

\* The turn counter says whose turn it is.
LEMMA WhoseTurn == TypeOK /\ TurnCount => (turn - 1) % TeamCount = active
<1> SUFFICES ASSUME TypeOK, TurnCount PROVE (turn - 1) % TeamCount = active
    OBVIOUS
<1>1. explained[active] \in Nat /\ active \in 0 .. TeamCount - 1
         /\ explained[active] * TeamCount \in Nat
    BY TeamsFact DEF TypeOK, Teams
<1>2. turn - 1 = explained[active] * TeamCount + active
    BY <1>1 DEF TurnCount
<1> QED
    BY <1>1, <1>2, TeamsFact, OneRemainder

\* How the history grows: a word the active team got, or skipped.
Scores(guessed) ==
    /\ results' = Append(results, [word |-> word, guessed |-> guessed, turn |-> turn])
    /\ score' = [score EXCEPT ![active] = @ + IF guessed THEN 1 ELSE SkipPoints]

LEMMA HistoryMoves ==
    ASSUME TypeOK, [Next]_vars, ~PaysGuesser
    PROVE  \/ UNCHANGED board
           \/ ~finished /\ word # 0 /\ \E guessed \in BOOLEAN : Scores(guessed)
<1>1. ASSUME NEW p \in PlayerSet, NEW guesser \in PlayerSet, Correct(p, guesser)
      PROVE  ~finished /\ word # 0 /\ Scores(TRUE)
    <2>1. \A t \in Teams : Earned(t, guesser) = IF t = active THEN 1 ELSE 0
        BY EngineAssumption DEF Earned
    <2>2. score' = [t \in Teams |-> score[t] + Earned(t, guesser)]
        BY <1>1 DEF Correct, MayCredit
    <2>3. score' = [score EXCEPT ![active] = @ + 1]
        <3>1. score' = [t \in Teams |-> score[t] + IF t = active THEN 1 ELSE 0]
            BY <2>1, <2>2
        <3>2. score \in [Teams -> Int] /\ active \in Teams
            BY DEF TypeOK
        <3>3. \A t \in Teams : score'[t] = [score EXCEPT ![active] = @ + 1][t]
            BY <3>1, <3>2
        <3> QED
            BY <3>1, <3>2, <3>3
    <2> QED
        BY <1>1, <2>3 DEF Correct, MayCredit, ScoreWord, WordInPlay, Scores
<1>2. ASSUME NEW p \in PlayerSet, Skip(p)
      PROVE  ~finished /\ word # 0 /\ Scores(FALSE)
    BY <1>2 DEF Skip, ScoreWord, WordInPlay, Scores
<1>3. ASSUME NEW p \in PlayerSet, StartRound(p) \/ EndRound(p) \/ Pause(p) \/ Resume(p)
      PROVE  UNCHANGED board
    BY <1>3 DEF StartRound, MayStart, EndRound, MayEnd, FinishTurn, Pause, Resume
<1>4. TimerFires \/ Tick => UNCHANGED board
    BY DEF TimerFires, FinishTurn, Tick
<1> QED
    BY <1>1, <1>2, <1>3, <1>4 DEF Next, vars

LEMMA EntryAdded ==
    ASSUME TypeOK, TurnCount, ~finished, word # 0, NEW guessed \in BOOLEAN,
           results' = Append(results, [word |-> word, guessed |-> guessed, turn |-> turn])
    PROVE  /\ EntriesIn(results', active) = EntriesIn(results, active) \cup {Len(results) + 1}
           /\ Len(results) + 1 \notin EntriesIn(results, active)
           /\ \A t \in Teams : t # active => EntriesIn(results', t) = EntriesIn(results, t)
           /\ \A i \in DOMAIN results : WorthIn(results', i) = WorthIn(results, i)
           /\ WorthIn(results', Len(results) + 1) = IF guessed THEN 1 ELSE SkipPoints
<1> DEFINE r == [word |-> word, guessed |-> guessed, turn |-> turn]
           n == Len(results) + 1
<1>1. r \in Entry
    <2>1. turn \in 1..TotalTurns
        BY TotalTurnsNat DEF TypeOK, TurnCount
    <2> QED
        BY <2>1, EngineAssumption DEF TypeOK, Entry
<1>2. r.turn = turn /\ (r.guessed <=> guessed)
    OBVIOUS
<1> HIDE DEF r
<1>3. /\ results \in Seq(Entry) /\ n \in Nat \ {0} /\ DOMAIN results = 1..(n - 1)
      /\ DOMAIN results' = 1..n
      /\ results'[n] = r /\ \A i \in DOMAIN results : results'[i] = results[i]
    BY <1>1 DEF TypeOK, r
<1> HIDE DEF n
<1>4. n \notin DOMAIN results /\ DOMAIN results' = DOMAIN results \cup {n}
    BY <1>3
<1>5. (results'[n].turn - 1) % TeamCount = active
    BY <1>2, <1>3, WhoseTurn
<1>6. ASSUME NEW t \in Teams
      PROVE  EntriesIn(results', t) = EntriesIn(results, t) \cup IF t = active THEN {n} ELSE {}
    BY <1>3, <1>4, <1>5 DEF EntriesIn
<1>7. n \notin EntriesIn(results, active)
    BY <1>4 DEF EntriesIn
<1>8. active \in Teams
    BY DEF TypeOK
<1>9. WorthIn(results', n) = IF guessed THEN 1 ELSE SkipPoints
    BY <1>2, <1>3 DEF WorthIn
<1>10. \A i \in DOMAIN results : WorthIn(results', i) = WorthIn(results, i)
    BY <1>3 DEF WorthIn
<1>11. EntriesIn(results', active) = EntriesIn(results, active) \cup {n}
    BY <1>6, <1>8
<1>12. \A t \in Teams : t # active => EntriesIn(results', t) = EntriesIn(results, t)
    BY <1>6
<1> QED
    BY <1>7, <1>9, <1>10, <1>11, <1>12 DEF n

LEMMA EntriesFinite ==
    ASSUME TypeOK, NEW t
    PROVE  IsFiniteSet(EntriesIn(results, t)) /\ EntriesIn(results, t) \subseteq DOMAIN results
<1>1. DOMAIN results = 1..Len(results) /\ Len(results) \in Nat
    BY DEF TypeOK
<1>2. EntriesIn(results, t) \subseteq DOMAIN results
    BY DEF EntriesIn
<1>3. IsFiniteSet(1..Len(results))
    BY <1>1, FS_Interval
<1> QED
    BY <1>1, <1>2, <1>3, FS_Subset

LEMMA ScoreStep == TypeOK /\ TurnCount /\ ScoreMatchesHistory /\ [Next]_vars => ScoreMatchesHistory'
<1> SUFFICES ASSUME TypeOK, TurnCount, ScoreMatchesHistory, [Next]_vars, ~PaysGuesser, NEW t \in Teams
             PROVE  score'[t] = Balance(results', EntriesIn(results', t))
    BY ScoreIsBalanceNext
<1>1. \A u \in Teams : score[u] = Balance(results, EntriesIn(results, u))
    BY ScoreIsBalance
<1>2. CASE UNCHANGED board
    BY <1>1, <1>2 DEF board
<1>3. ASSUME ~finished, word # 0, NEW guessed \in BOOLEAN, Scores(guessed)
      PROVE  score'[t] = Balance(results', EntriesIn(results', t))
    <2> DEFINE E == EntriesIn(results, t)
               F == EntriesIn(results', t)
               n == Len(results) + 1
               f == [i \in DOMAIN results' |-> WorthIn(results', i)]
               gain == IF guessed THEN 1 ELSE SkipPoints
    <2>1. /\ EntriesIn(results', active) = EntriesIn(results, active) \cup {n}
          /\ n \notin EntriesIn(results, active)
          /\ \A u \in Teams : u # active => EntriesIn(results', u) = EntriesIn(results, u)
          /\ \A i \in DOMAIN results : WorthIn(results', i) = WorthIn(results, i)
          /\ WorthIn(results', n) = gain
        BY <1>3, EntryAdded DEF Scores
    <2>2. IsFiniteSet(E) /\ E \subseteq DOMAIN results
        BY EntriesFinite
    <2>3. DOMAIN results' = DOMAIN results \cup {n}
        BY <1>3 DEF Scores, TypeOK
    <2>4. score' = [score EXCEPT ![active] = @ + gain]
        BY <1>3 DEF Scores
    <2>5. score \in [Teams -> Int] /\ active \in Teams
        BY DEF TypeOK
    <2>6. \A i \in DOMAIN results' : f[i] = WorthIn(results', i) /\ f[i] \in Int
        BY EngineAssumption DEF WorthIn
    <2> HIDE DEF E, F, n, f, gain
    <2>7. \A i \in E : f[i] = WorthIn(results, i) /\ f[i] \in Int
        BY <2>1, <2>2, <2>3, <2>6
    <2>8. score[t] = SumOver(f, E)
        BY <1>1, <2>2, <2>7, BalanceIsSum DEF E
    <2>9. CASE t # active
        <3>1. F = E /\ score'[t] = score[t]
            BY <2>1, <2>4, <2>5, <2>9 DEF E, F
        <3>2. \A i \in E : f[i] = WorthIn(results', i)
            BY <2>2, <2>3, <2>6
        <3>3. Balance(results', E) = SumOver(f, E)
            BY <2>2, <2>7, <3>2, BalanceIsSum
        <3> QED
            BY <2>8, <3>1, <3>3 DEF F
    <2>10. CASE t = active
        <3>1. F = E \cup {n} /\ n \notin E /\ F \ {n} = E
            BY <2>1, <2>10 DEF E, F
        <3>2. IsFiniteSet(F) /\ F \subseteq DOMAIN results'
            BY <2>2, <2>3, <3>1, FS_AddElement
        <3>3. \A i \in F : f[i] = WorthIn(results', i) /\ f[i] \in Int
            BY <2>6, <3>2
        <3>4. Balance(results', F) = SumOver(f, F)
            BY <3>2, <3>3, BalanceIsSum
        <3>5. SumOver(f, F) = SumOver(f, E) + f[n]
            BY <3>1, <3>2, <3>3, SumAdds
        <3>6. f[n] = gain
            BY <2>1, <3>1, <3>3
        <3>7. score'[t] = score[t] + gain
            BY <2>4, <2>5, <2>10
        <3> QED
            BY <2>8, <3>4, <3>5, <3>6, <3>7 DEF F
    <2> QED
        BY <2>9, <2>10 DEF F
<1> QED
    BY <1>2, <1>3, HistoryMoves

LEMMA ScoreInit == Init => ScoreMatchesHistory
<1> SUFFICES ASSUME Init, NEW t \in Teams
             PROVE  score[t] = Balance(results, EntriesIn(results, t))
    BY ScoreIsBalance
<1>1. results = << >> /\ score[t] = 0
    BY DEF Init
<1>2. EntriesIn(results, t) = {}
    BY <1>1 DEF EntriesIn
<1>3. PICK f : f = [i \in {} |-> 0]
    OBVIOUS
<1>4. Balance(results, {}) = SumOver(f, {})
    BY FS_EmptySet, BalanceIsSum
<1> QED
    BY <1>1, <1>2, <1>4, SumEmpty

\* The score of each team is what its words are worth, in every state of a
\* game of Alias or Hat (scoreWord, scoreTeamAt).
THEOREM ScoreMatchesHistoryCorrect == Spec => []ScoreMatchesHistory
<1>1. IInv /\ ScoreMatchesHistory /\ [Next]_vars => ScoreMatchesHistory'
    BY ScoreStep DEF IInv
<1> QED
    BY <1>1, ScoreInit, InductiveIInv, PTL DEF Spec

-----------------------------------------------------------------------------
Made == [by : Busy, turn : Nat]
Kinds == {"stroke", "clear", "sync"}
Callers == PlayerSet \cup {"runtime"}
Steps == {"sent", "allowed", "pushed", "trimmed", "granted", "deleted", "asked", "read"}
Requests == [kind : Kinds, by : Callers, id : Nat, at : Steps, read : SUBSET Nat]

\* Where a request of each kind can be.
AtItsStep(t) ==
    \/ t.kind = "stroke" /\ t.at \in {"sent", "allowed", "pushed", "trimmed"}
    \/ t.kind = "clear" /\ t.at \in {"sent", "granted", "deleted"}
    \/ t.kind = "sync" /\ t.at \in {"asked", "read"}

\* A request to store a stroke is about one that was drawn, by its drawer, and
\* no other request is about the same stroke.
OneRequestEach ==
    /\ \A t \in tasks : t.kind = "stroke" => t.id \in DOMAIN made /\ made[t.id].by = t.by
    /\ \A s, t \in tasks : s.kind = "stroke" /\ t.kind = "stroke" /\ s.id = t.id => s = t

RequestsTyped ==
    IsFiniteSet(tasks) /\ tasks \subseteq Requests /\ \A t \in tasks : AtItsStep(t)

ChannelTyped ==
    /\ made \in Seq(Made)
    /\ log \in Seq(Nat)
    /\ StoredStrokes \subseteq DOMAIN made
    /\ canvas \in [PlayerSet -> SUBSET Nat]
    /\ RequestsTyped

\* Until the round's own clear has emptied it the log holds the round before;
\* from then on it holds what was drawn in this one.
NoClearDue == \A t \in tasks : ~(t.kind = "clear" /\ t.by = "runtime" /\ t.at = "granted")
StoredInTurn ==
    NoClearDue /\ InRound /\ ~late => \A n \in StoredStrokes : made[n].turn = turn

OnTheWay == {t.id : t \in Strokes({"pushed", "trimmed"})}
CatchesUp(p) == \E t \in tasks : t.kind = "sync" /\ t.by = p
Emptying == Clears({"deleted"}) # {}

\* The log that was emptied stays empty until everybody is told.
ToldInOrder ==
    Emptying => StoredStrokes = {} /\ OnTheWay = {} /\ Syncs({"read"}) = {}

\* What is about to be told has been stored.
ToldIsStored ==
    /\ OnTheWay \subseteq StoredStrokes \cup trimmed
    /\ \A t \in Syncs({"read"}) :
          StoredStrokes \subseteq t.read /\ t.read \subseteq StoredStrokes \cup trimmed

\* Who is in the room and not about to catch up misses only what is on its way,
\* and sees too much only until the empty picture comes.
MissesNothing ==
    \A p \in PlayerSet \cap here : ~CatchesUp(p) =>
        StoredStrokes \subseteq canvas[p] \cup Of(p) \cup OnTheWay
SeesNoMore ==
    \A p \in PlayerSet \cap here : ~CatchesUp(p) =>
        Emptying \/ canvas[p] \subseteq StoredStrokes \cup trimmed \cup Of(p)

PicturesFollow ==
    ~crossed /\ ~finished => ToldInOrder /\ ToldIsStored /\ MissesNothing /\ SeesNoMore

DrawingInv ==
    ChannelTyped /\ OneRequestEach /\ StoredInTurn /\ LogWithinLimit /\ PicturesFollow

-----------------------------------------------------------------------------
\* How a request goes on: it is the same request at its next step.
GoesOn(t, u) ==
    /\ tasks' = (tasks \ {t}) \cup {u}
    /\ u \in Requests /\ u.kind = t.kind /\ u.by = t.by /\ u.id = t.id

LEMMA PlayersCall == Busy \subseteq Callers /\ PlayerSet \subseteq Callers
BY DrawingAssumption DEF Callers

LEMMA NewRequest ==
    ASSUME NEW kind \in Kinds, NEW by \in Callers, NEW id \in Nat, NEW at \in Steps
    PROVE  \E u \in Requests :
              /\ u = Task(kind, by, id, at)
              /\ u.kind = kind /\ u.by = by /\ u.id = id /\ u.at = at
<1>1. PICK none : none = {}
    OBVIOUS
<1>2. PICK u : u = [kind |-> kind, by |-> by, id |-> id, at |-> at, read |-> none]
    OBVIOUS
<1>3. none \in SUBSET Nat
    BY <1>1
<1>4. u \in Requests /\ u.kind = kind /\ u.by = by /\ u.id = id /\ u.at = at
    BY <1>2, <1>3 DEF Requests
<1>5. u = Task(kind, by, id, at)
    BY <1>1, <1>2, Zenon DEF Task
<1> QED
    BY <1>4, <1>5

LEMMA RequestMoves ==
    ASSUME NEW t \in Requests, NEW at \in Steps, Moves(t, at)
    PROVE  \E u : GoesOn(t, u) /\ u.at = at /\ u.read = t.read
<1>1. PICK u : u = [t EXCEPT !.at = at]
    OBVIOUS
<1>2. u \in Requests /\ u.kind = t.kind /\ u.by = t.by /\ u.id = t.id /\ u.at = at /\ u.read = t.read
    BY <1>1 DEF Requests
<1>3. tasks' = (tasks \ {t}) \cup {u}
    BY <1>1 DEF Moves
<1> QED
    BY <1>2, <1>3 DEF GoesOn

\* The strokes drawn so far keep their drawers.
KeepsDrawers == \A n \in DOMAIN made : n \in DOMAIN made' /\ made'[n].by = made[n].by

LEMMA StrokeAdded ==
    ASSUME made \in Seq(Made), NEW r \in Made, made' = Append(made, r)
    PROVE  /\ made' \in Seq(Made) /\ KeepsDrawers
           /\ Len(made') = Len(made) + 1 /\ Len(made') \in Nat
           /\ Len(made') \in DOMAIN made' /\ Len(made') \notin DOMAIN made
           /\ made'[Len(made')] = r
           /\ \A n \in DOMAIN made : made'[n] = made[n]
           /\ DOMAIN made' = DOMAIN made \cup {Len(made')}
<1>1. made' \in Seq(Made) /\ Len(made') = Len(made) + 1 /\ Len(made) \in Nat
    BY AppendProperties, LenProperties
<1>2. DOMAIN made = 1..Len(made) /\ DOMAIN made' = 1..Len(made')
    BY <1>1, LenProperties
<1>3. \A n \in 1..Len(made) : made'[n] = made[n]
    BY AppendProperties
<1>4. made'[Len(made) + 1] = r
    BY AppendProperties
<1> QED
    BY <1>1, <1>2, <1>3, <1>4 DEF KeepsDrawers

LEMMA StrokeAllowed ==
    ASSUME made \in Seq(Made), NEW n \in DOMAIN made, NEW at \in Nat,
           made' = [made EXCEPT ![n].turn = at]
    PROVE  /\ made' \in Seq(Made) /\ KeepsDrawers /\ DOMAIN made' = DOMAIN made
           /\ made'[n].turn = at
           /\ \A m \in DOMAIN made : m = n \/ made'[m] = made[m]
<1>1. DOMAIN made = 1..Len(made) /\ Len(made) \in Nat /\ made \in [1..Len(made) -> Made]
    BY LenProperties
<1>2. made[n] \in Made
    BY <1>1
<1>3. PICK r : r = [made[n] EXCEPT !.turn = at]
    OBVIOUS
<1>4. r \in Made /\ r.by = made[n].by /\ r.turn = at
    BY <1>2, <1>3 DEF Made
<1>5. made' = [made EXCEPT ![n] = r]
    BY <1>3, Zenon
<1>6. made' \in [1..Len(made) -> Made] /\ DOMAIN made' = DOMAIN made
    BY <1>1, <1>4, <1>5
<1>7. made'[n] = r /\ \A m \in DOMAIN made : m = n \/ made'[m] = made[m]
    BY <1>5
<1>8. made' \in Seq(Made)
    BY <1>6, <1>1
<1>9. KeepsDrawers
    BY <1>6, <1>7, <1>4 DEF KeepsDrawers
<1> QED
    BY <1>4, <1>6, <1>7, <1>8, <1>9

-----------------------------------------------------------------------------
\* The requests in progress.
LEMMA RequestsGoOn ==
    ASSUME RequestsTyped, OneRequestEach, KeepsDrawers,
           NEW t \in tasks, NEW u, GoesOn(t, u), AtItsStep(u)
    PROVE  RequestsTyped' /\ OneRequestEach'
<1>1. IsFiniteSet(tasks')
    <2>1. IsFiniteSet(tasks \ {t})
        BY FS_Difference DEF RequestsTyped
    <2> QED
        BY <2>1, FS_AddElement DEF GoesOn
<1>2. tasks' \subseteq Requests /\ \A s \in tasks' : AtItsStep(s)
    BY DEF GoesOn, RequestsTyped
<1>3. RequestsTyped'
    BY <1>1, <1>2 DEF RequestsTyped, AtItsStep
<1>4. ASSUME NEW s \in tasks', s.kind = "stroke"
      PROVE  s.id \in DOMAIN made' /\ made'[s.id].by = s.by
    BY <1>4 DEF GoesOn, OneRequestEach, KeepsDrawers
<1>5. ASSUME NEW r \in tasks', NEW s \in tasks', r.kind = "stroke", s.kind = "stroke", r.id = s.id
      PROVE  r = s
    BY <1>5 DEF GoesOn, OneRequestEach
<1> QED
    BY <1>3, <1>4, <1>5 DEF OneRequestEach

LEMMA RequestEnds ==
    ASSUME RequestsTyped, OneRequestEach, KeepsDrawers, NEW t \in tasks, Ends(t)
    PROVE  RequestsTyped' /\ OneRequestEach'
<1>1. IsFiniteSet(tasks')
    BY FS_Difference DEF RequestsTyped, Ends
<1>2. RequestsTyped'
    BY <1>1 DEF RequestsTyped, AtItsStep, Ends
<1> QED
    BY <1>2 DEF OneRequestEach, KeepsDrawers, Ends

LEMMA RequestComes ==
    ASSUME RequestsTyped, OneRequestEach, KeepsDrawers,
           NEW u \in Requests, tasks' = tasks \cup {u}, AtItsStep(u),
           u.kind = "stroke" =>
              u.id \in DOMAIN made' \ DOMAIN made /\ made'[u.id].by = u.by
    PROVE  RequestsTyped' /\ OneRequestEach'
<1>1. IsFiniteSet(tasks')
    BY FS_AddElement DEF RequestsTyped
<1>2. RequestsTyped'
    BY <1>1 DEF RequestsTyped, AtItsStep
<1> QED
    BY <1>2 DEF OneRequestEach, KeepsDrawers

LEMMA RequestsStay ==
    ASSUME RequestsTyped, OneRequestEach, KeepsDrawers, tasks' = tasks
    PROVE  RequestsTyped' /\ OneRequestEach'
BY DEF RequestsTyped, AtItsStep, OneRequestEach, KeepsDrawers

-----------------------------------------------------------------------------
\* The log.
LEMMA LogGrows ==
    ASSUME log \in Seq(Nat), NEW n \in Nat, log' = Append(log, n)
    PROVE  /\ log' \in Seq(Nat) /\ Len(log') = Len(log) + 1
           /\ StoredStrokes' = StoredStrokes \cup {n}
<1>1. log' \in Seq(Nat) /\ Len(log') = Len(log) + 1 /\ Len(log) \in Nat
    BY AppendProperties, LenProperties
<1>2. DOMAIN log = 1..Len(log) /\ DOMAIN log' = 1..Len(log')
    BY <1>1, LenProperties
<1>3. (\A i \in 1..Len(log) : log'[i] = log[i]) /\ log'[Len(log) + 1] = n
    BY AppendProperties
<1> QED
    BY <1>1, <1>2, <1>3 DEF StoredStrokes

LEMMA LogIsCut ==
    ASSUME log \in Seq(Nat), NEW t, Trim(t)
    PROVE  /\ log' \in Seq(Nat) /\ Len(log') <= LogLimit
           /\ StoredStrokes' \subseteq StoredStrokes
           /\ StoredStrokes' \cup trimmed' = StoredStrokes \cup trimmed
<1>1. PICK n \in Nat : n = Len(log)
    BY LenProperties
<1>2. PICK cut : cut = Greater(0, n - LogLimit)
    OBVIOUS
<1>3. cut \in Nat /\ cut <= n /\ n - cut <= LogLimit /\ LogLimit \in Nat
    BY <1>1, <1>2, DrawingAssumption DEF Greater
<1>4. log' = SubSeq(log, cut + 1, n) /\ trimmed' = trimmed \cup {log[i] : i \in 1..cut}
    BY <1>1, <1>2 DEF Trim
<1>5. DOMAIN log = 1..n
    BY <1>1, LenProperties
<1>6. /\ log' \in Seq(Nat) /\ Len(log') = n - cut
      /\ \A i \in 1..(n - cut) : log'[i] = log[cut + i]
    BY <1>1, <1>3, <1>4, SubSeqProperties
<1>7. DOMAIN log' = 1..(n - cut)
    BY <1>6, LenProperties
<1>8. \A i \in 1..(n - cut) : cut + i \in 1..n /\ log'[i] = log[cut + i]
    BY <1>3, <1>6, SMTT(40)
<1>9. \A i \in 1..n : i \in 1..cut \/ (i - cut \in 1..(n - cut) /\ log'[i - cut] = log[i])
    BY <1>3, <1>6
<1>10. \A i \in 1..cut : i \in 1..n
    BY <1>3
<1>11. StoredStrokes' \subseteq StoredStrokes
    BY <1>5, <1>7, <1>8 DEF StoredStrokes
<1>12. StoredStrokes \subseteq StoredStrokes' \cup {log[i] : i \in 1..cut}
    BY <1>5, <1>7, <1>9 DEF StoredStrokes
<1>13. {log[i] : i \in 1..cut} \subseteq StoredStrokes
    BY <1>5, <1>10 DEF StoredStrokes
<1> QED
    BY <1>3, <1>4, <1>6, <1>11, <1>12, <1>13

LEMMA LogEmptied ==
    ASSUME log' = << >>
    PROVE  log' \in Seq(Nat) /\ Len(log') = 0 /\ StoredStrokes' = {}
BY DEF StoredStrokes

LEMMA LogStays ==
    ASSUME log' = log
    PROVE  StoredStrokes' = StoredStrokes
BY DEF StoredStrokes

\* The pictures.
LEMMA PicturesTold ==
    ASSUME canvas \in [PlayerSet -> SUBSET Nat], NEW players, NEW strokes \in SUBSET Nat,
           Tell(players, strokes)
    PROVE  /\ canvas' \in [PlayerSet -> SUBSET Nat]
           /\ \A p \in PlayerSet : p \in players \cap here => canvas'[p] = canvas[p] \cup strokes
           /\ \A p \in PlayerSet : p \notin players \cap here => canvas'[p] = canvas[p]
BY DEF Tell

LEMMA PicturesShown ==
    ASSUME canvas \in [PlayerSet -> SUBSET Nat], NEW players, NEW strokes \in SUBSET Nat,
           Show(players, strokes)
    PROVE  /\ canvas' \in [PlayerSet -> SUBSET Nat]
           /\ \A p \in PlayerSet : p \in players \cap here => canvas'[p] = strokes
           /\ \A p \in PlayerSet : p \notin players \cap here => canvas'[p] = canvas[p]
BY DEF Show

-----------------------------------------------------------------------------
\* Types: each step keeps its variables in them.  What a step does to the
\* requests is one of the four changes above.
Sound == ChannelTyped /\ OneRequestEach

LEMMA ChannelKept ==
    ASSUME ChannelTyped, made' \in Seq(Made), KeepsDrawers, RequestsTyped' /\ OneRequestEach',
           log' \in Seq(Nat), StoredStrokes' \subseteq DOMAIN made',
           canvas' \in [PlayerSet -> SUBSET Nat]
    PROVE  Sound'
BY DEF ChannelTyped, Sound

LEMMA LogAsBefore ==
    ASSUME ChannelTyped, KeepsDrawers, log' = log
    PROVE  log' \in Seq(Nat) /\ StoredStrokes' \subseteq DOMAIN made'
BY LogStays DEF ChannelTyped, KeepsDrawers

LEMMA DrawersAsBefore ==
    ASSUME ChannelTyped, made' = made
    PROVE  made' \in Seq(Made) /\ KeepsDrawers
BY DEF ChannelTyped, KeepsDrawers

LEMMA DrawIsSound ==
    ASSUME Sound, NEW p \in Busy, Draw(p)
    PROVE  Sound'
<1>1. PICK r : r = [by |-> p, turn |-> 0]
    OBVIOUS
<1>2. r \in Made /\ r.by = p
    BY <1>1 DEF Made
<1>3. made \in Seq(Made) /\ made' = Append(made, r) /\ RequestsTyped /\ OneRequestEach
    BY <1>1 DEF Draw, ChannelTyped, Sound
<1>4. PICK n : n = Len(made')
    OBVIOUS
<1>5. /\ made' \in Seq(Made) /\ KeepsDrawers /\ n \in Nat
      /\ n \in DOMAIN made' \ DOMAIN made /\ made'[n].by = p
    BY <1>2, <1>3, <1>4, StrokeAdded
<1>6. canvas' \in [PlayerSet -> SUBSET Nat]
    <2>1. canvas' = [canvas EXCEPT ![p] = @ \cup {n}] /\ canvas \in [PlayerSet -> SUBSET Nat]
        BY <1>4 DEF Draw, ChannelTyped, Sound
    <2> QED
        BY <2>1, <1>5
<1>7. RequestsTyped' /\ OneRequestEach'
    <2>1. CASE p \notin here
        BY <2>1, <1>3, <1>5, RequestsStay DEF Draw
    <2>2. CASE p \in here
        <3>1. PICK u \in Requests :
                u = Task("stroke", p, n, "sent") /\ u.kind = "stroke" /\ u.by = p /\ u.id = n /\ u.at = "sent"
            BY <1>5, PlayersCall, NewRequest DEF Kinds, Steps
        <3>2. tasks' = tasks \cup {u}
            BY <3>1, <2>2, <1>4 DEF Draw
        <3>3. AtItsStep(u)
            BY <3>1 DEF AtItsStep
        <3> QED
            BY <3>1, <3>2, <3>3, <1>3, <1>5, RequestComes
    <2> QED
        BY <2>1, <2>2
<1>8. log' = log /\ ChannelTyped
    BY DEF Draw, redis, Sound
<1> QED
    BY <1>5, <1>6, <1>7, <1>8, LogAsBefore, ChannelKept

\* A request that goes on, while strokes and pictures stay.
LEMMA StepIsSound ==
    ASSUME Sound, NEW t \in tasks, NEW u, GoesOn(t, u), AtItsStep(u), UNCHANGED <<made, canvas>>,
           log' \in Seq(Nat), StoredStrokes' \subseteq DOMAIN made
    PROVE  Sound'
<1>1. made' \in Seq(Made) /\ KeepsDrawers /\ ChannelTyped
    BY DrawersAsBefore DEF Sound
<1>2. RequestsTyped' /\ OneRequestEach'
    BY <1>1, RequestsGoOn DEF Sound, ChannelTyped
<1>3. canvas' \in [PlayerSet -> SUBSET Nat] /\ StoredStrokes' \subseteq DOMAIN made'
    BY DEF Sound, ChannelTyped
<1> QED
    BY <1>1, <1>2, <1>3, ChannelKept

\* A request that ends, while strokes and log stay.
LEMMA EndIsSound ==
    ASSUME Sound, NEW t \in tasks, Ends(t), UNCHANGED <<made, log>>,
           canvas' \in [PlayerSet -> SUBSET Nat]
    PROVE  Sound'
<1>1. made' \in Seq(Made) /\ KeepsDrawers /\ ChannelTyped
    BY DrawersAsBefore DEF Sound
<1>2. RequestsTyped' /\ OneRequestEach'
    BY <1>1, RequestEnds DEF Sound, ChannelTyped
<1> QED
    BY <1>1, <1>2, LogAsBefore, ChannelKept

\* A request that comes, about no stroke, or none at all.
LEMMA CallIsSound ==
    ASSUME Sound, UNCHANGED <<made, log, canvas>>,
           \/ tasks' = tasks
           \/ \E u \in Requests : tasks' = tasks \cup {u} /\ u.kind # "stroke" /\ AtItsStep(u)
    PROVE  Sound'
<1>1. made' \in Seq(Made) /\ KeepsDrawers /\ ChannelTyped /\ RequestsTyped /\ OneRequestEach
    BY DrawersAsBefore DEF Sound, ChannelTyped
<1>2. RequestsTyped' /\ OneRequestEach'
    <2>1. CASE tasks' = tasks
        BY <2>1, <1>1, RequestsStay
    <2>2. ASSUME NEW u \in Requests, tasks' = tasks \cup {u}, u.kind # "stroke", AtItsStep(u)
          PROVE  RequestsTyped' /\ OneRequestEach'
        BY <2>2, <1>1, RequestComes
    <2> QED
        BY <2>1, <2>2
<1>3. canvas' \in [PlayerSet -> SUBSET Nat]
    BY DEF Sound, ChannelTyped
<1> QED
    BY <1>1, <1>2, <1>3, LogAsBefore, ChannelKept

\* What a request of each kind does next.
LEMMA TaskOf ==
    ASSUME Sound, NEW t \in tasks
    PROVE  t \in Requests /\ AtItsStep(t) /\ RequestsTyped /\ OneRequestEach
BY DEF Sound, ChannelTyped, RequestsTyped

LEMMA AllowIsSound ==
    ASSUME Sound, turn \in Nat, NEW t \in tasks, Allow(t)
    PROVE  Sound'
<1>1. t \in Requests /\ RequestsTyped /\ OneRequestEach /\ ChannelTyped /\ made \in Seq(Made)
    BY TaskOf DEF Sound, ChannelTyped
<1>2. t.id \in DOMAIN made
    BY <1>1 DEF Allow, OneRequestEach
<1>3. made' = [made EXCEPT ![t.id].turn = turn] /\ Moves(t, "allowed") /\ t.kind = "stroke"
    BY DEF Allow
<1>4. made' \in Seq(Made) /\ KeepsDrawers
    BY <1>1, <1>2, <1>3, StrokeAllowed
<1>5. PICK u : GoesOn(t, u) /\ u.at = "allowed"
    BY <1>1, <1>3, RequestMoves DEF Steps
<1>6. AtItsStep(u)
    BY <1>3, <1>5 DEF GoesOn, AtItsStep
<1>7. RequestsTyped' /\ OneRequestEach'
    BY <1>1, <1>4, <1>5, <1>6, RequestsGoOn
<1>8. log' = log /\ canvas' \in [PlayerSet -> SUBSET Nat]
    BY <1>1 DEF Allow, redis, screens, ChannelTyped
<1> QED
    BY <1>1, <1>4, <1>7, <1>8, LogAsBefore, ChannelKept

LEMMA PushIsSound ==
    ASSUME Sound, NEW t \in tasks, Push(t)
    PROVE  Sound'
<1>1. t \in Requests /\ t.kind = "stroke" /\ log \in Seq(Nat) /\ t.id \in DOMAIN made /\ t.id \in Nat
    BY TaskOf DEF Push, OneRequestEach, Sound, ChannelTyped, Requests
<1>2. PICK u : GoesOn(t, u) /\ u.at = "pushed"
    BY <1>1, RequestMoves DEF Steps, Push
<1>3. AtItsStep(u)
    BY <1>1, <1>2 DEF GoesOn, AtItsStep
<1>4. log' \in Seq(Nat) /\ StoredStrokes' = StoredStrokes \cup {t.id}
    BY <1>1, LogGrows DEF Push
<1>5. StoredStrokes' \subseteq DOMAIN made
    BY <1>1, <1>4 DEF Sound, ChannelTyped
<1> QED
    BY <1>2, <1>3, <1>4, <1>5, StepIsSound DEF Push, screens

LEMMA TrimIsSound ==
    ASSUME Sound, NEW t \in tasks, Trim(t)
    PROVE  Sound'
<1>1. t \in Requests /\ t.kind = "stroke" /\ log \in Seq(Nat)
    BY TaskOf DEF Trim, Sound, ChannelTyped
<1>2. PICK u : GoesOn(t, u) /\ u.at = "trimmed"
    BY <1>1, RequestMoves DEF Steps, Trim
<1>3. AtItsStep(u)
    BY <1>1, <1>2 DEF GoesOn, AtItsStep
<1>4. log' \in Seq(Nat) /\ StoredStrokes' \subseteq StoredStrokes
    BY <1>1, LogIsCut
<1>5. StoredStrokes' \subseteq DOMAIN made
    BY <1>4 DEF Sound, ChannelTyped
<1> QED
    BY <1>2, <1>3, <1>4, <1>5, StepIsSound DEF Trim, screens

LEMMA GrantIsSound ==
    ASSUME Sound, NEW t \in tasks, Grant(t)
    PROVE  Sound'
<1>1. t \in Requests /\ t.kind = "clear" /\ log \in Seq(Nat)
    BY TaskOf DEF Grant, Sound, ChannelTyped
<1>2. PICK u : GoesOn(t, u) /\ u.at = "granted"
    BY <1>1, RequestMoves DEF Steps, Grant
<1>3. AtItsStep(u)
    BY <1>1, <1>2 DEF GoesOn, AtItsStep
<1>4. log' \in Seq(Nat) /\ StoredStrokes' \subseteq DOMAIN made
    BY <1>1, LogStays DEF Grant, redis, Sound, ChannelTyped
<1> QED
    BY <1>2, <1>3, <1>4, StepIsSound DEF Grant, screens

LEMMA DeleteIsSound ==
    ASSUME Sound, NEW t \in tasks, Delete(t)
    PROVE  Sound'
<1>1. t \in Requests /\ t.kind = "clear"
    BY TaskOf DEF Delete
<1>2. PICK u : GoesOn(t, u) /\ u.at = "deleted"
    BY <1>1, RequestMoves DEF Steps, Delete
<1>3. AtItsStep(u)
    BY <1>1, <1>2 DEF GoesOn, AtItsStep
<1>4. log' \in Seq(Nat) /\ StoredStrokes' = {}
    BY LogEmptied DEF Delete
<1> QED
    BY <1>2, <1>3, <1>4, StepIsSound DEF Delete, screens

LEMMA LogIsRead ==
    ASSUME Sound, NEW t \in tasks, ReadLog(t)
    PROVE  \E u : GoesOn(t, u) /\ u.at = "read" /\ u.read = StoredStrokes
<1>1. t \in Requests
    BY TaskOf
<1>2. PICK strokes : strokes = StoredStrokes
    OBVIOUS
<1>3. PICK u : u = [t EXCEPT !.at = "read", !.read = strokes]
    OBVIOUS
<1>4. strokes \in SUBSET Nat
    <2>1. DOMAIN made = 1..Len(made) /\ Len(made) \in Nat
        BY LenProperties DEF Sound, ChannelTyped
    <2> QED
        BY <2>1, <1>2 DEF Sound, ChannelTyped
<1>5. u \in Requests /\ u.kind = t.kind /\ u.by = t.by /\ u.id = t.id /\ u.at = "read"
         /\ u.read = strokes
    BY <1>1, <1>3, <1>4 DEF Requests, Steps
<1>6. tasks' = (tasks \ {t}) \cup {u}
    BY <1>2, <1>3 DEF ReadLog
<1> QED
    BY <1>2, <1>5, <1>6 DEF GoesOn

LEMMA ReadIsSound ==
    ASSUME Sound, NEW t \in tasks, ReadLog(t)
    PROVE  Sound'
<1>1. t.kind = "sync" /\ log \in Seq(Nat)
    BY DEF ReadLog, Sound, ChannelTyped
<1>2. PICK u : GoesOn(t, u) /\ u.at = "read"
    BY LogIsRead
<1>3. AtItsStep(u)
    BY <1>1, <1>2 DEF GoesOn, AtItsStep
<1>4. log' \in Seq(Nat) /\ StoredStrokes' \subseteq DOMAIN made
    BY <1>1, LogStays DEF ReadLog, redis, Sound, ChannelTyped
<1> QED
    BY <1>2, <1>3, <1>4, StepIsSound DEF ReadLog, screens

LEMMA EndsAreSound ==
    ASSUME Sound, NEW t \in tasks,
           Reject(t) \/ Broadcast(t) \/ ShowEmpty(t) \/ SendLog(t)
    PROVE  Sound'
<1>1. canvas \in [PlayerSet -> SUBSET Nat] /\ t \in Requests
    BY TaskOf DEF Sound, ChannelTyped
<1>2. t.id \in Nat /\ t.read \in SUBSET Nat
    BY <1>1 DEF Requests
<1>3. canvas' \in [PlayerSet -> SUBSET Nat]
    <2>1. CASE Reject(t)
        BY <2>1, <1>1 DEF Reject, screens
    <2>2. CASE Broadcast(t)
        <3>1. {t.id} \in SUBSET Nat /\ Tell(PlayerSet \ {t.by}, {t.id})
            BY <2>2, <1>2 DEF Broadcast
        <3> QED
            BY <3>1, <1>1, PicturesTold
    <2>3. CASE ShowEmpty(t)
        <3>1. PICK none \in SUBSET Nat : none = {}
            OBVIOUS
        <3>2. Show(PlayerSet, none)
            BY <3>1, <2>3 DEF ShowEmpty
        <3> QED
            BY <3>2, <1>1, PicturesShown
    <2>4. CASE SendLog(t)
        BY <2>4, <1>1, <1>2, PicturesShown DEF SendLog
    <2> QED
        BY <2>1, <2>2, <2>3, <2>4
<1>4. Ends(t) /\ UNCHANGED <<made, log>>
    BY DEF Reject, Broadcast, ShowEmpty, SendLog, redis
<1> QED
    BY <1>3, <1>4, EndIsSound

LEMMA CallsAreSound ==
    ASSUME Sound,
           \/ \E p \in Busy : Look(p) \/ AskToClear(p) \/ DropOut(p) \/ ComeBack(p)
           \/ \E p \in PlayerSet : BeginRound(p)
           \/ UNCHANGED channel
    PROVE  Sound'
<1>1. UNCHANGED <<made, log, canvas>>
    BY DEF Look, AskToClear, DropOut, ComeBack, BeginRound, redis, screens, channel
<1>2. \/ tasks' = tasks
      \/ \E u \in Requests : tasks' = tasks \cup {u} /\ u.kind # "stroke" /\ AtItsStep(u)
    <2>1. ASSUME NEW p \in Busy, Look(p) \/ DropOut(p) PROVE tasks' = tasks
        BY <2>1 DEF Look, DropOut
    <2>2. ASSUME NEW p \in Busy, AskToClear(p)
          PROVE  \E u \in Requests : tasks' = tasks \cup {u} /\ u.kind # "stroke" /\ AtItsStep(u)
        <3>1. tasks' = tasks \cup {Task("clear", p, 0, "sent")} /\ p \in Callers
            BY <2>2, PlayersCall DEF AskToClear
        <3>2. PICK u \in Requests : u = Task("clear", p, 0, "sent") /\ u.kind = "clear" /\ u.at = "sent"
            BY <3>1, NewRequest DEF Kinds, Steps
        <3>3. AtItsStep(u)
            BY <3>2 DEF AtItsStep
        <3> QED
            BY <3>1, <3>2, <3>3
    <2>3. ASSUME NEW p \in Busy, ComeBack(p)
          PROVE  \/ tasks' = tasks
                 \/ \E u \in Requests : tasks' = tasks \cup {u} /\ u.kind # "stroke" /\ AtItsStep(u)
        <3>1. p \in Callers /\ (tasks' = tasks \/ tasks' = tasks \cup {Task("sync", p, 0, "asked")})
            BY <2>3, PlayersCall DEF ComeBack
        <3>2. PICK u \in Requests : u = Task("sync", p, 0, "asked") /\ u.kind = "sync" /\ u.at = "asked"
            BY <3>1, NewRequest DEF Kinds, Steps
        <3>3. AtItsStep(u)
            BY <3>2 DEF AtItsStep
        <3> QED
            BY <3>1, <3>2, <3>3
    <2>4. ASSUME NEW p \in PlayerSet, BeginRound(p)
          PROVE  \E u \in Requests : tasks' = tasks \cup {u} /\ u.kind # "stroke" /\ AtItsStep(u)
        <3>1. "runtime" \in Callers /\ tasks' = tasks \cup {Task("clear", "runtime", 0, "granted")}
            BY <2>4 DEF BeginRound, Callers
        <3>2. PICK u \in Requests : u = Task("clear", "runtime", 0, "granted") /\ u.kind = "clear" /\ u.at = "granted"
            BY <3>1, NewRequest DEF Kinds, Steps
        <3>3. AtItsStep(u)
            BY <3>2 DEF AtItsStep
        <3> QED
            BY <3>1, <3>2, <3>3
    <2>5. CASE UNCHANGED channel
        BY <2>5 DEF channel
    <2> QED
        BY <2>1, <2>2, <2>3, <2>4, <2>5
<1> QED
    BY <1>1, <1>2, CallIsSound

-----------------------------------------------------------------------------
\* What the channel notices of a step of the game.
LEMMA GameStays ==
    ASSUME UNCHANGED vars
    PROVE  turn' = turn /\ (InRound' => InRound) /\ (~finished' => ~finished)
BY DEF vars, rotation, InRound

LEMMA WordsGoOn ==
    ASSUME Play \/ Tick
    PROVE  (InRound' => InRound /\ turn' = turn) /\ (~finished' => ~finished)
<1>1. ASSUME UNCHANGED rotation
      PROVE  (InRound' => InRound /\ turn' = turn) /\ (~finished' => ~finished)
    BY <1>1 DEF rotation, InRound
<1>2. ASSUME ~finished, FinishTurn
      PROVE  (InRound' => InRound /\ turn' = turn) /\ (~finished' => ~finished)
    <2>1. ~started'
        BY <1>2 DEF FinishTurn
    <2> QED
        BY <1>2, <2>1, Zenon DEF InRound
<1>3. UNCHANGED rotation \/ (~finished /\ FinishTurn)
    <2>1. ASSUME NEW p \in PlayerSet, NEW g \in PlayerSet, Correct(p, g) \/ Skip(p)
          PROVE  UNCHANGED rotation
        BY <2>1 DEF Correct, MayCredit, Skip, ScoreWord
    <2>2. ASSUME NEW p \in PlayerSet, EndRound(p)
          PROVE  ~finished /\ FinishTurn
        BY <2>2 DEF EndRound, MayEnd
    <2>3. ASSUME TimerFires
          PROVE  UNCHANGED rotation \/ (~finished /\ FinishTurn)
        BY <2>3 DEF TimerFires
    <2>4. ASSUME Tick
          PROVE  UNCHANGED rotation
        BY <2>4 DEF Tick
    <2> QED
        BY <2>1, <2>2, <2>3, <2>4 DEF Play
<1> QED
    BY <1>1, <1>2, <1>3

-----------------------------------------------------------------------------
\* The picture of a round.
LEMMA TurnKept ==
    ASSUME Sound, StoredInTurn, NoClearDue' => NoClearDue, InRound' => InRound /\ turn' = turn,
           ~late' => ~late, StoredStrokes' \subseteq StoredStrokes,
           \A n \in DOMAIN made : made'[n].turn = made[n].turn
    PROVE  StoredInTurn'
<1>1. \A n \in StoredStrokes : n \in DOMAIN made
    BY DEF Sound, ChannelTyped
<1> QED
    BY <1>1, Zenon DEF StoredInTurn

LEMMA DueStays ==
    ASSUME NEW t \in tasks, Ends(t) \/ \E u : GoesOn(t, u), ~(t.kind = "clear" /\ t.at = "granted")
    PROVE  NoClearDue' => NoClearDue
BY DEF Ends, GoesOn, NoClearDue

LEMMA CallsKeepTurn ==
    ASSUME Sound, StoredInTurn, UNCHANGED <<vars, log, late>>, \A t \in tasks : t \in tasks',
           \A n \in DOMAIN made : made'[n].turn = made[n].turn
    PROVE  StoredInTurn'
<1>1. turn' = turn /\ (InRound' => InRound)
    BY GameStays
<1>2. NoClearDue' => NoClearDue
    BY DEF NoClearDue
<1>3. StoredStrokes' \subseteq StoredStrokes /\ (~late' => ~late)
    BY LogStays
<1> QED
    BY <1>1, <1>2, <1>3, TurnKept

LEMMA StepsKeepTurn ==
    ASSUME Sound, StoredInTurn, UNCHANGED <<vars, late, made>>, NEW t \in tasks,
           Ends(t) \/ \E u : GoesOn(t, u), ~(t.kind = "clear" /\ t.at = "granted"),
           StoredStrokes' \subseteq StoredStrokes
    PROVE  StoredInTurn'
<1>1. turn' = turn /\ (InRound' => InRound)
    BY GameStays
<1>2. NoClearDue' => NoClearDue
    BY DueStays
<1>3. (~late' => ~late) /\ \A n \in DOMAIN made : made'[n].turn = made[n].turn
    OBVIOUS
<1> QED
    BY <1>1, <1>2, <1>3, TurnKept

LEMMA AllowKeepsTurn ==
    ASSUME Sound, StoredInTurn, turn \in Nat, NEW t \in tasks, Allow(t)
    PROVE  StoredInTurn'
<1>1. t.id \in DOMAIN made /\ made \in Seq(Made) /\ made' = [made EXCEPT ![t.id].turn = turn]
    BY DEF Allow, Sound, OneRequestEach, ChannelTyped
<1>2. made'[t.id].turn = turn /\ \A m \in DOMAIN made : m = t.id \/ made'[m] = made[m]
    BY <1>1, StrokeAllowed
<1>3. turn' = turn /\ (InRound' => InRound)
    BY GameStays DEF Allow
<1>4. PICK u : GoesOn(t, u)
    BY TaskOf, RequestMoves DEF Allow, Steps
<1>5. NoClearDue' => NoClearDue
    BY <1>4, DueStays DEF Allow
<1>6. StoredStrokes' = StoredStrokes /\ late' = late
    BY LogStays DEF Allow, redis, races
<1>7. \A n \in StoredStrokes : n \in DOMAIN made
    BY DEF Sound, ChannelTyped
<1> QED
    BY <1>2, <1>3, <1>5, <1>6, <1>7, Zenon DEF StoredInTurn

LEMMA PushKeepsTurn ==
    ASSUME Sound, StoredInTurn, NEW t \in tasks, Push(t)
    PROVE  StoredInTurn'
<1>1. t \in Requests /\ log \in Seq(Nat) /\ log' = Append(log, t.id) /\ Moves(t, "pushed")
    BY TaskOf DEF Push, Sound, ChannelTyped
<1>2. t.id \in Nat
    BY <1>1 DEF Requests
<1>3. StoredStrokes' = StoredStrokes \cup {t.id}
    BY <1>1, <1>2, LogGrows
<1>4. ~late' => ~late /\ made[t.id].turn = turn
    <2>1. late' = (late \/ made[t.id].turn # turn)
        BY DEF Push
    <2> QED
        BY <2>1, Zenon
<1>5. made' = made /\ turn' = turn /\ (InRound' => InRound)
    BY GameStays DEF Push
<1>6. PICK u : GoesOn(t, u)
    BY <1>1, RequestMoves DEF Steps
<1>7. NoClearDue' => NoClearDue
    BY <1>6, DueStays DEF Push
<1> QED
    BY <1>3, <1>4, <1>5, <1>7, Zenon DEF StoredInTurn

-----------------------------------------------------------------------------
\* The requests that matter to the pictures and to the log's length.
Matters(t) ==
    \/ t.kind = "stroke" /\ t.at \in {"pushed", "trimmed"}
    \/ t.kind = "clear" /\ t.at = "deleted"
    \/ t.kind = "sync"

LEMMA NothingMatters ==
    ASSUME \A t \in tasks : Matters(t) => t \in tasks',
           \A t \in tasks' : Matters(t) => t \in tasks \/ t.at = "asked"
    PROVE  /\ Strokes({"pushed"})' = Strokes({"pushed"})
           /\ OnTheWay' = OnTheWay
           /\ (Emptying' <=> Emptying)
           /\ Syncs({"read"})' = Syncs({"read"})
           /\ \A p : CatchesUp(p) => CatchesUp(p)'
<1>1. Strokes({"pushed"})' = Strokes({"pushed"})
    BY DEF Strokes, Matters
<1>2. Strokes({"pushed", "trimmed"})' = Strokes({"pushed", "trimmed"})
    BY DEF Strokes, Matters
<1>3. OnTheWay' = OnTheWay
    BY <1>2, Zenon DEF OnTheWay
<1>4. Clears({"deleted"})' = Clears({"deleted"})
    BY DEF Clears, Matters
<1>5. Emptying' <=> Emptying
    BY <1>4, Zenon DEF Emptying
<1>6. Syncs({"read"})' = Syncs({"read"})
    BY DEF Syncs, Matters
<1>7. \A p : CatchesUp(p) => CatchesUp(p)'
    BY DEF CatchesUp, Matters
<1> QED
    BY <1>1, <1>3, <1>5, <1>6, <1>7

LEMMA PicturesStay ==
    ASSUME PicturesFollow, ~crossed' => ~crossed, ~finished' => ~finished,
           log' = log, trimmed' = trimmed,
           OnTheWay' = OnTheWay, Emptying' <=> Emptying, Syncs({"read"})' = Syncs({"read"}),
           \A p \in PlayerSet : p \in here' /\ ~CatchesUp(p)' => p \in here /\ ~CatchesUp(p),
           \A p \in PlayerSet : Of(p) \subseteq Of(p)',
           \A p \in PlayerSet :
              canvas[p] \subseteq canvas'[p] /\ canvas'[p] \subseteq canvas[p] \cup Of(p)'
    PROVE  PicturesFollow'
<1> SUFFICES ASSUME ~crossed', ~finished'
             PROVE  ToldInOrder' /\ ToldIsStored' /\ MissesNothing' /\ SeesNoMore'
    BY DEF PicturesFollow
<1>1. ToldInOrder /\ ToldIsStored /\ MissesNothing /\ SeesNoMore
    BY DEF PicturesFollow
<1>2. StoredStrokes' = StoredStrokes
    BY LogStays
<1>3. ToldInOrder'
    BY <1>1, <1>2 DEF ToldInOrder
<1>4. ToldIsStored'
    BY <1>1, <1>2 DEF ToldIsStored
<1>5. MissesNothing'
    BY <1>1, <1>2 DEF MissesNothing
<1>6. SeesNoMore'
    BY <1>1, <1>2 DEF SeesNoMore
<1> QED
    BY <1>3, <1>4, <1>5, <1>6

LEMMA LimitStays ==
    ASSUME LogWithinLimit, log' = log, Strokes({"pushed"})' = Strokes({"pushed"})
    PROVE  LogWithinLimit'
BY DEF LogWithinLimit

LEMMA QuietStep ==
    ASSUME LogWithinLimit, PicturesFollow, crossed' = crossed, ~finished' => ~finished,
           log' = log, trimmed' = trimmed,
           \A t \in tasks : Matters(t) => t \in tasks',
           \A t \in tasks' : Matters(t) => t \in tasks \/ t.at = "asked",
           \A p \in PlayerSet : p \in here' /\ ~CatchesUp(p)' => p \in here,
           \A p \in PlayerSet : Of(p) \subseteq Of(p)',
           \A p \in PlayerSet :
              canvas[p] \subseteq canvas'[p] /\ canvas'[p] \subseteq canvas[p] \cup Of(p)'
    PROVE  LogWithinLimit' /\ PicturesFollow'
<1>1. /\ Strokes({"pushed"})' = Strokes({"pushed"})
      /\ OnTheWay' = OnTheWay
      /\ (Emptying' <=> Emptying)
      /\ Syncs({"read"})' = Syncs({"read"})
      /\ \A p : CatchesUp(p) => CatchesUp(p)'
    BY NothingMatters
<1>2. LogWithinLimit'
    BY <1>1, LimitStays
<1>3. \A p \in PlayerSet : p \in here' /\ ~CatchesUp(p)' => p \in here /\ ~CatchesUp(p)
    BY <1>1
<1>4. ~crossed' => ~crossed
    OBVIOUS
<1>5. PicturesFollow'
    BY <1>1, <1>3, <1>4, PicturesStay
<1> QED
    BY <1>2, <1>5

LEMMA OfStays ==
    ASSUME made \in Seq(Made), KeepsDrawers
    PROVE  \A p \in PlayerSet : Of(p) \subseteq Of(p)'
BY DEF Of, KeepsDrawers

\* A step of the game, or of a player who looks, asks, goes or comes.
LEMMA CallsAreQuiet ==
    ASSUME Sound, LogWithinLimit, PicturesFollow, ~finished' => ~finished,
           \/ \E p \in Busy : Look(p) \/ AskToClear(p) \/ DropOut(p) \/ ComeBack(p)
           \/ \E p \in PlayerSet : BeginRound(p)
           \/ UNCHANGED channel
    PROVE  LogWithinLimit' /\ PicturesFollow'
<1>1. /\ crossed' = crossed /\ log' = log /\ trimmed' = trimmed
      /\ made' = made /\ canvas' = canvas
    BY DEF Look, AskToClear, DropOut, ComeBack, BeginRound, redis, screens, races, channel
<1>2. \A p \in PlayerSet :
         /\ Of(p) \subseteq Of(p)'
         /\ canvas[p] \subseteq canvas'[p] /\ canvas'[p] \subseteq canvas[p] \cup Of(p)'
    BY <1>1 DEF Of
<1>3. ASSUME tasks' = tasks
      PROVE  /\ \A t \in tasks : Matters(t) => t \in tasks'
             /\ \A t \in tasks' : Matters(t) => t \in tasks \/ t.at = "asked"
    BY <1>3
<1>4. ASSUME NEW p, NEW at, at \in {"sent", "granted"}, tasks' = tasks \cup {Task("clear", p, 0, at)}
      PROVE  /\ \A t \in tasks : Matters(t) => t \in tasks'
             /\ \A t \in tasks' : Matters(t) => t \in tasks \/ t.at = "asked"
    <2>1. PICK u : u = Task("clear", p, 0, at)
        OBVIOUS
    <2>2. u.kind = "clear" /\ u.at = at
        BY <2>1 DEF Task
    <2>3. ~Matters(u)
        BY <2>2, <1>4 DEF Matters
    <2> QED
        BY <2>1, <2>3, <1>4
<1>5. ASSUME NEW p, tasks' = tasks \cup {Task("sync", p, 0, "asked")}
      PROVE  /\ \A t \in tasks : Matters(t) => t \in tasks'
             /\ \A t \in tasks' : Matters(t) => t \in tasks \/ t.at = "asked"
             /\ CatchesUp(p)'
    <2>1. PICK u : u = Task("sync", p, 0, "asked")
        OBVIOUS
    <2>2. u.kind = "sync" /\ u.by = p /\ u.at = "asked"
        BY <2>1 DEF Task
    <2> QED
        BY <2>1, <2>2, <1>5 DEF CatchesUp
<1>6. ASSUME NEW p \in Busy, Look(p) \/ DropOut(p)
      PROVE  LogWithinLimit' /\ PicturesFollow'
    <2>1. tasks' = tasks /\ here' \subseteq here
        BY <1>6 DEF Look, DropOut
    <2> QED
        BY <2>1, <1>1, <1>2, <1>3, QuietStep
<1>7. ASSUME NEW p \in Busy, AskToClear(p)
      PROVE  LogWithinLimit' /\ PicturesFollow'
    <2>1. tasks' = tasks \cup {Task("clear", p, 0, "sent")} /\ here' = here
        BY <1>7 DEF AskToClear, screens
    <2>2. /\ \A t \in tasks : Matters(t) => t \in tasks'
          /\ \A t \in tasks' : Matters(t) => t \in tasks \/ t.at = "asked"
        BY <2>1, <1>4
    <2> QED
        BY <2>1, <2>2, <1>1, <1>2, QuietStep
<1>8. ASSUME NEW p \in Busy, ComeBack(p)
      PROVE  LogWithinLimit' /\ PicturesFollow'
    <2>1. CASE finished
        <3>1. finished' /\ tasks' = tasks
            BY <1>8, <2>1 DEF ComeBack, vars, rotation
        <3>2. LogWithinLimit'
            BY <3>1, <1>1, LimitStays DEF Strokes
        <3> QED
            BY <3>1, <3>2 DEF PicturesFollow
    <2>2. CASE ~finished
        <3>1. tasks' = tasks \cup {Task("sync", p, 0, "asked")} /\ here' = here \cup {p}
            BY <1>8, <2>2 DEF ComeBack
        <3>2. /\ \A t \in tasks : Matters(t) => t \in tasks'
              /\ \A t \in tasks' : Matters(t) => t \in tasks \/ t.at = "asked"
              /\ CatchesUp(p)'
            BY <3>1, <1>5
        <3>3. \A q \in PlayerSet : q \in here' /\ ~CatchesUp(q)' => q \in here
            BY <3>1, <3>2
        <3> QED
            BY <3>2, <3>3, <1>1, <1>2, QuietStep
    <2> QED
        BY <2>1, <2>2
<1>9. ASSUME NEW p \in PlayerSet, BeginRound(p)
      PROVE  LogWithinLimit' /\ PicturesFollow'
    <2>1. tasks' = tasks \cup {Task("clear", "runtime", 0, "granted")} /\ here' = here
        BY <1>9 DEF BeginRound, screens
    <2>2. /\ \A t \in tasks : Matters(t) => t \in tasks'
          /\ \A t \in tasks' : Matters(t) => t \in tasks \/ t.at = "asked"
        BY <2>1, <1>4
    <2> QED
        BY <2>1, <2>2, <1>1, <1>2, QuietStep
<1>10. ASSUME UNCHANGED channel
       PROVE  LogWithinLimit' /\ PicturesFollow'
    <2>1. tasks' = tasks /\ here' = here
        BY <1>10 DEF channel, screens
    <2> QED
        BY <2>1, <1>1, <1>2, <1>3, QuietStep
<1> QED
    BY <1>6, <1>7, <1>8, <1>9, <1>10

LEMMA DrawIsQuiet ==
    ASSUME Sound, LogWithinLimit, PicturesFollow, NEW p \in Busy, Draw(p)
    PROVE  LogWithinLimit' /\ PicturesFollow'
<1>1. /\ crossed' = crossed /\ log' = log /\ trimmed' = trimmed /\ here' = here
      /\ (~finished' => ~finished)
    BY GameStays DEF Draw, redis, races
<1>2. PICK r : r = [by |-> p, turn |-> 0]
    OBVIOUS
<1>3. r \in Made /\ r.by = p
    BY <1>2 DEF Made
<1>4. PICK n : n = Len(made')
    OBVIOUS
<1>5. made \in Seq(Made) /\ made' = Append(made, r)
    BY <1>2 DEF Draw, Sound, ChannelTyped
<1>6. KeepsDrawers /\ n \in DOMAIN made' /\ made'[n].by = p
    BY <1>3, <1>4, <1>5, StrokeAdded
<1>7. \A q \in PlayerSet : Of(q) \subseteq Of(q)'
    BY <1>5, <1>6, OfStays
<1>8. n \in Of(p)'
    BY <1>6 DEF Of
<1>9. \A q \in PlayerSet :
         canvas[q] \subseteq canvas'[q] /\ canvas'[q] \subseteq canvas[q] \cup Of(q)'
    <2>1. canvas' = [canvas EXCEPT ![p] = @ \cup {n}] /\ canvas \in [PlayerSet -> SUBSET Nat]
        BY <1>4 DEF Draw, Sound, ChannelTyped
    <2>2. \A q \in PlayerSet : canvas'[q] = canvas[q] \/ (q = p /\ canvas'[q] = canvas[q] \cup {n})
        BY <2>1
    <2> QED
        BY <2>2, <1>8
<1>10. /\ \A t \in tasks : Matters(t) => t \in tasks'
       /\ \A t \in tasks' : Matters(t) => t \in tasks \/ t.at = "asked"
    <2>1. PICK u : u = Task("stroke", p, n, "sent")
        OBVIOUS
    <2>2. u.kind = "stroke" /\ u.at = "sent"
        BY <2>1 DEF Task
    <2>3. ~Matters(u)
        BY <2>2 DEF Matters
    <2>4. tasks' = tasks \/ tasks' = tasks \cup {u}
        BY <2>1, <1>4 DEF Draw
    <2> QED
        BY <2>3, <2>4
<1> QED
    BY <1>1, <1>7, <1>9, <1>10, QuietStep

\* A request that is let through, or turned away.
LEMMA ChecksAreQuiet ==
    ASSUME Sound, turn \in Nat, LogWithinLimit, PicturesFollow, NEW t \in tasks,
           Allow(t) \/ Reject(t) \/ Grant(t)
    PROVE  LogWithinLimit' /\ PicturesFollow'
<1>1. /\ crossed' = crossed /\ log' = log /\ trimmed' = trimmed /\ here' = here
      /\ canvas' = canvas /\ (~finished' => ~finished)
    BY GameStays DEF Allow, Reject, Grant, redis, races, screens
<1>2. t \in Requests /\ AtItsStep(t) /\ t.at = "sent" /\ ~Matters(t)
    BY TaskOf DEF Allow, Reject, Grant, AtItsStep, Matters
<1>3. made \in Seq(Made) /\ KeepsDrawers
    <2>1. CASE Allow(t)
        <3>1. t.id \in DOMAIN made /\ made \in Seq(Made) /\ made' = [made EXCEPT ![t.id].turn = turn]
            BY <2>1 DEF Allow, Sound, OneRequestEach, ChannelTyped
        <3> QED
            BY <3>1, StrokeAllowed
    <2>2. CASE Reject(t) \/ Grant(t)
        BY <2>2, DrawersAsBefore DEF Reject, Grant, Sound, ChannelTyped
    <2> QED
        BY <2>1, <2>2
<1>4. \A p \in PlayerSet :
         /\ Of(p) \subseteq Of(p)'
         /\ canvas[p] \subseteq canvas'[p] /\ canvas'[p] \subseteq canvas[p] \cup Of(p)'
    BY <1>1, <1>3, OfStays
<1>5. /\ \A s \in tasks : Matters(s) => s \in tasks'
      /\ \A s \in tasks' : Matters(s) => s \in tasks \/ s.at = "asked"
    <2>1. CASE Reject(t)
        BY <2>1, <1>2 DEF Reject, Ends
    <2>2. CASE Allow(t)
        <3>1. PICK u : GoesOn(t, u) /\ u.at = "allowed"
            BY <2>2, <1>2, RequestMoves DEF Allow, Steps
        <3>2. u.kind = "stroke" /\ u.at = "allowed" /\ tasks' = (tasks \ {t}) \cup {u}
            BY <3>1, <2>2 DEF GoesOn, Allow
        <3>3. ~Matters(u)
            BY <3>2 DEF Matters
        <3> QED
            BY <3>2, <3>3, <1>2
    <2>3. CASE Grant(t)
        <3>1. PICK u : GoesOn(t, u) /\ u.at = "granted"
            BY <2>3, <1>2, RequestMoves DEF Grant, Steps
        <3>2. u.kind = "clear" /\ u.at = "granted" /\ tasks' = (tasks \ {t}) \cup {u}
            BY <3>1, <2>3 DEF GoesOn, Grant
        <3>3. ~Matters(u)
            BY <3>2 DEF Matters
        <3> QED
            BY <3>2, <3>3, <1>2
    <2> QED
        BY <2>1, <2>2, <2>3
<1> QED
    BY <1>1, <1>4, <1>5, QuietStep

-----------------------------------------------------------------------------
\* The log's limit: a stroke that is pushed is one more in the log and one more
\* that is still to be cut.
LEMMA FewAreStored ==
    ASSUME Sound
    PROVE  IsFiniteSet(Strokes({"pushed"})) /\ Cardinality(Strokes({"pushed"})) \in Nat
<1>1. Strokes({"pushed"}) \subseteq tasks /\ IsFiniteSet(tasks)
    BY DEF Strokes, Sound, ChannelTyped, RequestsTyped
<1> QED
    BY <1>1, FS_Subset, FS_CardinalityType

LEMMA PushKeepsLimit ==
    ASSUME Sound, LogWithinLimit, NEW t \in tasks, Push(t)
    PROVE  LogWithinLimit'
<1>1. t \in Requests /\ t.kind = "stroke" /\ t.at = "allowed" /\ log \in Seq(Nat) /\ t.id \in Nat
    BY TaskOf DEF Push, Sound, ChannelTyped, Requests
<1>2. PICK u : GoesOn(t, u) /\ u.at = "pushed"
    BY <1>1, RequestMoves DEF Push, Steps
<1>3. u.kind = "stroke" /\ u.id = t.id /\ tasks' = (tasks \ {t}) \cup {u}
    BY <1>1, <1>2 DEF GoesOn
<1>4. u \notin tasks
    BY <1>1, <1>2, <1>3 DEF Sound, OneRequestEach
<1>5. PICK stored : stored = Strokes({"pushed"})
    OBVIOUS
<1>6. Strokes({"pushed"})' = stored \cup {u} /\ u \notin stored
    BY <1>1, <1>2, <1>3, <1>4, <1>5 DEF Strokes
<1>7. IsFiniteSet(stored) /\ Cardinality(stored) \in Nat
    BY <1>5, FewAreStored
<1>8. Cardinality(stored \cup {u}) = Cardinality(stored) + 1
    BY <1>6, <1>7, FS_AddElement
<1>9. Len(log') = Len(log) + 1 /\ Len(log) \in Nat
    BY <1>1, LogGrows, LenProperties DEF Push
<1>10. Len(log) <= LogLimit + Cardinality(stored)
    BY <1>5 DEF LogWithinLimit
<1>11. PICK c \in Nat : c = Cardinality(stored)
    BY <1>7
<1>12. Cardinality(Strokes({"pushed"})') = c + 1
    BY <1>6, <1>8, <1>11, Zenon
<1>13. Len(log') <= LogLimit + (c + 1)
    BY <1>9, <1>10, <1>11, DrawingAssumption
<1> QED
    BY <1>12, <1>13, Zenon DEF LogWithinLimit

LEMMA ShortIsWithinLimit ==
    ASSUME Sound', log' \in Seq(Nat), Len(log') <= LogLimit
    PROVE  LogWithinLimit'
<1>1. IsFiniteSet(Strokes({"pushed"})') /\ Cardinality(Strokes({"pushed"})') \in Nat
    <2>1. Strokes({"pushed"})' \subseteq tasks' /\ IsFiniteSet(tasks')
        BY DEF Strokes, Sound, ChannelTyped, RequestsTyped
    <2> QED
        BY <2>1, FS_Subset, FS_CardinalityType
<1>2. Len(log') \in Nat
    BY LenProperties
<1> QED
    BY <1>1, <1>2, DrawingAssumption DEF LogWithinLimit

LEMMA CutsKeepLimit ==
    ASSUME Sound, NEW t \in tasks, Trim(t) \/ Delete(t)
    PROVE  LogWithinLimit'
<1>1. Sound' /\ log \in Seq(Nat)
    BY TrimIsSound, DeleteIsSound DEF Sound, ChannelTyped
<1>2. log' \in Seq(Nat) /\ Len(log') <= LogLimit
    <2>1. CASE Trim(t)
        BY <2>1, <1>1, LogIsCut
    <2>2. CASE Delete(t)
        BY <2>2, LogEmptied, DrawingAssumption DEF Delete
    <2> QED
        BY <2>1, <2>2
<1> QED
    BY <1>1, <1>2, ShortIsWithinLimit

\* A request that is not stored and not about to be leaves the limit alone.
LEMMA TellingKeepsLimit ==
    ASSUME LogWithinLimit, NEW t \in tasks,
           Broadcast(t) \/ ShowEmpty(t) \/ SendLog(t) \/ ReadLog(t), Sound
    PROVE  LogWithinLimit'
<1>1. t.kind # "stroke" \/ t.at # "pushed"
    BY DEF Broadcast, ShowEmpty, SendLog, ReadLog
<1>2. log' = log
    BY DEF Broadcast, ShowEmpty, SendLog, ReadLog, redis
<1>3. Strokes({"pushed"})' = Strokes({"pushed"})
    <2>1. CASE Ends(t)
        BY <2>1, <1>1 DEF Ends, Strokes
    <2>2. CASE ReadLog(t)
        <3>1. PICK u : GoesOn(t, u) /\ u.at = "read"
            BY <2>2, LogIsRead
        <3> QED
            BY <3>1, <1>1 DEF GoesOn, Strokes
    <2> QED
        BY <2>1, <2>2 DEF Broadcast, ShowEmpty, SendLog
<1> QED
    BY <1>2, <1>3, LimitStays

-----------------------------------------------------------------------------
\* The pictures.
LEMMA PushKeepsPictures ==
    ASSUME Sound, PicturesFollow, NEW t \in tasks, Push(t)
    PROVE  PicturesFollow'
<1> SUFFICES ASSUME ~crossed', ~finished'
             PROVE  ToldInOrder' /\ ToldIsStored' /\ MissesNothing' /\ SeesNoMore'
    BY DEF PicturesFollow
<1>1. t \in Requests /\ t.kind = "stroke" /\ log \in Seq(Nat) /\ t.id \in Nat
    BY TaskOf DEF Push, Sound, ChannelTyped, Requests
<1>2. PICK u : GoesOn(t, u) /\ u.at = "pushed"
    BY <1>1, RequestMoves DEF Push, Steps
<1>3. u.kind = "stroke" /\ u.id = t.id /\ tasks' = (tasks \ {t}) \cup {u}
    BY <1>1, <1>2 DEF GoesOn
<1>4. ~crossed /\ Clears({"deleted"}) = {} /\ Syncs({"read"}) = {}
    <2>1. crossed' = (crossed \/ Clears({"deleted"}) # {} \/ Syncs({"read"}) # {})
        BY DEF Push
    <2> QED
        BY <2>1, Zenon
<1>5. ~finished /\ trimmed' = trimmed /\ canvas' = canvas /\ here' = here /\ made' = made
    BY GameStays DEF Push, screens
<1>6. ToldInOrder /\ ToldIsStored /\ MissesNothing /\ SeesNoMore
    BY <1>4, <1>5 DEF PicturesFollow
<1>7. Clears({"deleted"})' = {} /\ Syncs({"read"})' = {}
    BY <1>3, <1>4 DEF Clears, Syncs
<1>8. OnTheWay' = OnTheWay \cup {t.id}
    <2>1. Strokes({"pushed", "trimmed"})' = Strokes({"pushed", "trimmed"}) \cup {u}
        BY <1>2, <1>3 DEF Strokes, Push
    <2> QED
        BY <2>1, <1>3 DEF OnTheWay
<1>9. StoredStrokes' = StoredStrokes \cup {t.id}
    BY <1>1, LogGrows DEF Push
<1>10. \A p : CatchesUp(p)' <=> CatchesUp(p)
    BY <1>1, <1>3 DEF CatchesUp
<1>11. ToldInOrder'
    BY <1>7 DEF ToldInOrder, Emptying
<1>12. ToldIsStored'
    BY <1>5, <1>6, <1>7, <1>8, <1>9 DEF ToldIsStored
<1>13. \A p \in PlayerSet : Of(p)' = Of(p)
    BY <1>5 DEF Of
<1>14. MissesNothing'
    BY <1>5, <1>6, <1>8, <1>9, <1>10, <1>13 DEF MissesNothing
<1>15. SeesNoMore'
    BY <1>4, <1>5, <1>6, <1>9, <1>10, <1>13 DEF SeesNoMore, Emptying
<1> QED
    BY <1>11, <1>12, <1>14, <1>15

LEMMA TrimKeepsPictures ==
    ASSUME Sound, PicturesFollow, NEW t \in tasks, Trim(t)
    PROVE  PicturesFollow'
<1> SUFFICES ASSUME ~crossed', ~finished'
             PROVE  ToldInOrder' /\ ToldIsStored' /\ MissesNothing' /\ SeesNoMore'
    BY DEF PicturesFollow
<1>1. t \in Requests /\ t.kind = "stroke" /\ log \in Seq(Nat)
    BY TaskOf DEF Trim, Sound, ChannelTyped
<1>2. PICK u : GoesOn(t, u) /\ u.at = "trimmed"
    BY <1>1, RequestMoves DEF Trim, Steps
<1>3. u.kind = "stroke" /\ u.id = t.id /\ tasks' = (tasks \ {t}) \cup {u} /\ t.at = "pushed"
    BY <1>1, <1>2 DEF GoesOn, Trim
<1>4. ~finished /\ ~crossed /\ canvas' = canvas /\ here' = here /\ made' = made
    BY GameStays DEF Trim, screens, races
<1>5. ToldInOrder /\ ToldIsStored /\ MissesNothing /\ SeesNoMore
    BY <1>4 DEF PicturesFollow
<1>6. Clears({"deleted"})' = Clears({"deleted"}) /\ Syncs({"read"})' = Syncs({"read"})
    BY <1>1, <1>3 DEF Clears, Syncs
<1>7. OnTheWay' = OnTheWay
    <2>1. \A n : n \in OnTheWay <=>
             \E s \in tasks : s.kind = "stroke" /\ s.at \in {"pushed", "trimmed"} /\ n = s.id
        BY DEF OnTheWay, Strokes
    <2>2. \A n : n \in OnTheWay' <=>
             \E s \in tasks' : s.kind = "stroke" /\ s.at \in {"pushed", "trimmed"} /\ n = s.id
        BY DEF OnTheWay, Strokes
    <2>3. \A n : n \in OnTheWay' <=> n \in OnTheWay
        BY <2>1, <2>2, <1>1, <1>2, <1>3
    <2> QED
        BY <2>3
<1>8. /\ StoredStrokes' \subseteq StoredStrokes
      /\ StoredStrokes' \cup trimmed' = StoredStrokes \cup trimmed
    BY <1>1, LogIsCut
<1>9. \A p : CatchesUp(p)' <=> CatchesUp(p)
    BY <1>1, <1>3 DEF CatchesUp
<1>10. Emptying' <=> Emptying
    BY <1>6 DEF Emptying
<1>11. ToldInOrder'
    BY <1>5, <1>6, <1>7, <1>8, <1>10 DEF ToldInOrder
<1>12. ToldIsStored'
    BY <1>5, <1>6, <1>7, <1>8 DEF ToldIsStored
<1>13. \A p \in PlayerSet : Of(p)' = Of(p)
    BY <1>4 DEF Of
<1>14. MissesNothing'
    BY <1>4, <1>5, <1>7, <1>8, <1>9, <1>13 DEF MissesNothing
<1>15. SeesNoMore'
    BY <1>4, <1>5, <1>8, <1>9, <1>10, <1>13 DEF SeesNoMore
<1> QED
    BY <1>11, <1>12, <1>14, <1>15

LEMMA BroadcastKeepsPictures ==
    ASSUME Sound, PicturesFollow, NEW t \in tasks, Broadcast(t)
    PROVE  PicturesFollow'
<1> SUFFICES ASSUME ~crossed', ~finished'
             PROVE  ToldInOrder' /\ ToldIsStored' /\ MissesNothing' /\ SeesNoMore'
    BY DEF PicturesFollow
<1>1. t.kind = "stroke" /\ t.at = "trimmed" /\ tasks' = tasks \ {t}
    BY DEF Broadcast, Ends
<1>2. /\ ~finished /\ ~crossed /\ here' = here /\ made' = made
      /\ StoredStrokes' = StoredStrokes /\ trimmed' = trimmed
    BY GameStays, LogStays DEF Broadcast, redis, races
<1>3. ToldInOrder /\ ToldIsStored /\ MissesNothing /\ SeesNoMore
    BY <1>2 DEF PicturesFollow
<1>4. Clears({"deleted"})' = Clears({"deleted"}) /\ Syncs({"read"})' = Syncs({"read"})
    BY <1>1 DEF Clears, Syncs
<1>5. t.id \in OnTheWay /\ OnTheWay' \subseteq OnTheWay /\ OnTheWay \subseteq OnTheWay' \cup {t.id}
    BY <1>1 DEF OnTheWay, Strokes
<1>6. \A p : CatchesUp(p)' <=> CatchesUp(p)
    BY <1>1 DEF CatchesUp
<1>7. Emptying' <=> Emptying
    BY <1>4 DEF Emptying
<1>8. t.id \in StoredStrokes \cup trimmed
    BY <1>3, <1>5 DEF ToldIsStored
<1>9. \A p \in PlayerSet : Of(p)' = Of(p)
    BY <1>2 DEF Of
<1>10. t.id \in Of(t.by)
    BY <1>1 DEF Of, Sound, OneRequestEach
<1>11. /\ \A p \in PlayerSet : p \in (PlayerSet \ {t.by}) \cap here => canvas'[p] = canvas[p] \cup {t.id}
       /\ \A p \in PlayerSet : p \notin (PlayerSet \ {t.by}) \cap here => canvas'[p] = canvas[p]
    <2>1. {t.id} \in SUBSET Nat
        BY TaskOf DEF Requests
    <2>2. canvas \in [PlayerSet -> SUBSET Nat] /\ Tell(PlayerSet \ {t.by}, {t.id})
        BY DEF Broadcast, Sound, ChannelTyped
    <2> QED
        BY <2>1, <2>2, PicturesTold
<1>12. ToldInOrder'
    BY <1>2, <1>3, <1>4, <1>5, <1>7 DEF ToldInOrder
<1>13. ToldIsStored'
    BY <1>2, <1>3, <1>4, <1>5 DEF ToldIsStored
<1>14. \A p \in PlayerSet \cap here : canvas[p] \subseteq canvas'[p] /\ t.id \in canvas'[p] \cup Of(p)
    BY <1>10, <1>11
<1>15. MissesNothing'
    BY <1>2, <1>3, <1>5, <1>6, <1>9, <1>14 DEF MissesNothing
<1>16. \A p \in PlayerSet \cap here : canvas'[p] \subseteq canvas[p] \cup {t.id}
    BY <1>11
<1>17. SeesNoMore'
    BY <1>2, <1>3, <1>6, <1>7, <1>8, <1>9, <1>16 DEF SeesNoMore
<1> QED
    BY <1>12, <1>13, <1>15, <1>17

LEMMA DeleteKeepsPictures ==
    ASSUME Sound, PicturesFollow, NEW t \in tasks, Delete(t)
    PROVE  PicturesFollow'
<1> SUFFICES ASSUME ~crossed', ~finished'
             PROVE  ToldInOrder' /\ ToldIsStored' /\ MissesNothing' /\ SeesNoMore'
    BY DEF PicturesFollow
<1>1. PICK u : GoesOn(t, u) /\ u.at = "deleted"
    BY TaskOf, RequestMoves DEF Delete, Steps
<1>2. t.kind = "clear" /\ u.kind = "clear" /\ tasks' = (tasks \ {t}) \cup {u}
    BY <1>1 DEF GoesOn, Delete
<1>3. Strokes({"pushed", "trimmed"}) = {} /\ Syncs({"read"}) = {}
    <2>1. crossed' = (crossed \/ Strokes({"pushed", "trimmed"}) # {} \/ Syncs({"read"}) # {})
        BY DEF Delete
    <2> QED
        BY <2>1, Zenon
<1>4. Strokes({"pushed", "trimmed"})' = {} /\ Syncs({"read"})' = {} /\ u \in Clears({"deleted"})'
    BY <1>1, <1>2, <1>3 DEF Strokes, Syncs, Clears
<1>5. StoredStrokes' = {}
    BY LogEmptied DEF Delete
<1>6. OnTheWay' = {}
    BY <1>4 DEF OnTheWay
<1>7. Emptying'
    BY <1>4 DEF Emptying
<1> QED
    BY <1>4, <1>5, <1>6, <1>7 DEF ToldInOrder, ToldIsStored, MissesNothing, SeesNoMore

LEMMA ShowEmptyKeepsPictures ==
    ASSUME Sound, PicturesFollow, NEW t \in tasks, ShowEmpty(t)
    PROVE  PicturesFollow'
<1> SUFFICES ASSUME ~crossed', ~finished'
             PROVE  ToldInOrder' /\ ToldIsStored' /\ MissesNothing' /\ SeesNoMore'
    BY DEF PicturesFollow
<1>1. t.kind = "clear" /\ t.at = "deleted" /\ tasks' = tasks \ {t}
    BY DEF ShowEmpty, Ends
<1>2. /\ ~finished /\ ~crossed /\ here' = here
      /\ StoredStrokes' = StoredStrokes /\ trimmed' = trimmed
    BY GameStays, LogStays DEF ShowEmpty, redis, races
<1>3. Emptying
    BY <1>1 DEF Emptying, Clears
<1>4. StoredStrokes = {} /\ OnTheWay = {} /\ Syncs({"read"}) = {}
    BY <1>2, <1>3 DEF PicturesFollow, ToldInOrder
<1>5. OnTheWay' = {} /\ Syncs({"read"})' = {}
    BY <1>1, <1>4 DEF OnTheWay, Strokes, Syncs
<1>6. \A p \in PlayerSet : p \in here => canvas'[p] = {}
    <2>1. PICK none \in SUBSET Nat : none = {}
        OBVIOUS
    <2>2. canvas \in [PlayerSet -> SUBSET Nat] /\ Show(PlayerSet, none)
        BY <2>1 DEF ShowEmpty, Sound, ChannelTyped
    <2>3. \A p \in PlayerSet : p \in PlayerSet \cap here => canvas'[p] = none
        BY <2>2, PicturesShown
    <2> QED
        BY <2>1, <2>3
<1> QED
    BY <1>2, <1>4, <1>5, <1>6 DEF ToldInOrder, ToldIsStored, MissesNothing, SeesNoMore

LEMMA ReadKeepsPictures ==
    ASSUME Sound, PicturesFollow, NEW t \in tasks, ReadLog(t)
    PROVE  PicturesFollow'
<1> SUFFICES ASSUME ~crossed', ~finished'
             PROVE  ToldInOrder' /\ ToldIsStored' /\ MissesNothing' /\ SeesNoMore'
    BY DEF PicturesFollow
<1>1. PICK u : GoesOn(t, u) /\ u.at = "read" /\ u.read = StoredStrokes
    BY LogIsRead
<1>2. t.kind = "sync" /\ t.at = "asked" /\ u.kind = "sync" /\ u.by = t.by
         /\ tasks' = (tasks \ {t}) \cup {u}
    BY <1>1 DEF GoesOn, ReadLog
<1>3. ~crossed /\ Clears({"deleted"}) = {}
    <2>1. crossed' = (crossed \/ Clears({"deleted"}) # {})
        BY DEF ReadLog
    <2> QED
        BY <2>1, Zenon
<1>4. /\ ~finished /\ here' = here /\ canvas' = canvas /\ made' = made
      /\ StoredStrokes' = StoredStrokes /\ trimmed' = trimmed
    BY GameStays, LogStays DEF ReadLog, redis, screens
<1>5. ToldInOrder /\ ToldIsStored /\ MissesNothing /\ SeesNoMore
    BY <1>3, <1>4 DEF PicturesFollow
<1>6. Clears({"deleted"})' = {} /\ ~Emptying /\ ~Emptying'
    BY <1>2, <1>3 DEF Clears, Emptying
<1>7. OnTheWay' = OnTheWay
    <2>1. Strokes({"pushed", "trimmed"})' = Strokes({"pushed", "trimmed"})
        BY <1>2 DEF Strokes
    <2> QED
        BY <2>1, Zenon DEF OnTheWay
<1>8. \A s \in Syncs({"read"})' : s \in Syncs({"read"}) \/ s = u
    BY <1>2 DEF Syncs
<1>9. \A p : CatchesUp(p)' <=> CatchesUp(p)
    BY <1>2 DEF CatchesUp
<1>10. \A p \in PlayerSet : Of(p)' = Of(p)
    BY <1>4 DEF Of
<1>11. ToldInOrder'
    BY <1>6 DEF ToldInOrder
<1>12. ToldIsStored'
    BY <1>1, <1>4, <1>5, <1>7, <1>8 DEF ToldIsStored
<1>13. MissesNothing'
    BY <1>4, <1>5, <1>7, <1>9, <1>10 DEF MissesNothing
<1>14. SeesNoMore'
    BY <1>4, <1>5, <1>6, <1>9, <1>10 DEF SeesNoMore
<1> QED
    BY <1>11, <1>12, <1>13, <1>14

LEMMA SendKeepsPictures ==
    ASSUME Sound, PicturesFollow, NEW t \in tasks, SendLog(t)
    PROVE  PicturesFollow'
<1> SUFFICES ASSUME ~crossed', ~finished'
             PROVE  ToldInOrder' /\ ToldIsStored' /\ MissesNothing' /\ SeesNoMore'
    BY DEF PicturesFollow
<1>1. t.kind = "sync" /\ t.at = "read" /\ tasks' = tasks \ {t}
    BY DEF SendLog, Ends
<1>2. /\ ~finished /\ ~crossed /\ here' = here /\ made' = made
      /\ StoredStrokes' = StoredStrokes /\ trimmed' = trimmed
    BY GameStays, LogStays DEF SendLog, redis, races
<1>3. ToldInOrder /\ ToldIsStored /\ MissesNothing /\ SeesNoMore
    BY <1>2 DEF PicturesFollow
<1>4. t \in Syncs({"read"})
    BY <1>1 DEF Syncs
<1>5. ~Emptying /\ StoredStrokes \subseteq t.read /\ t.read \subseteq StoredStrokes \cup trimmed
    BY <1>3, <1>4 DEF ToldInOrder, ToldIsStored
<1>6. Clears({"deleted"})' = Clears({"deleted"}) /\ Syncs({"read"})' \subseteq Syncs({"read"})
    BY <1>1 DEF Clears, Syncs
<1>7. ~Emptying'
    BY <1>5, <1>6 DEF Emptying
<1>8. OnTheWay' = OnTheWay
    <2>1. Strokes({"pushed", "trimmed"})' = Strokes({"pushed", "trimmed"})
        BY <1>1 DEF Strokes
    <2> QED
        BY <2>1, Zenon DEF OnTheWay
<1>9. \A p : p = t.by \/ (CatchesUp(p)' <=> CatchesUp(p))
    BY <1>1 DEF CatchesUp
<1>10. \A p \in PlayerSet : Of(p)' = Of(p)
    BY <1>2 DEF Of
<1>11. /\ \A p \in PlayerSet : p \in {t.by} \cap here => canvas'[p] = t.read
       /\ \A p \in PlayerSet : p \notin {t.by} \cap here => canvas'[p] = canvas[p]
    <2>1. t.read \in SUBSET Nat
        BY TaskOf DEF Requests
    <2>2. canvas \in [PlayerSet -> SUBSET Nat] /\ Show({t.by}, t.read)
        BY DEF SendLog, Sound, ChannelTyped
    <2> QED
        BY <2>1, <2>2, PicturesShown
<1>12. ToldInOrder'
    BY <1>7 DEF ToldInOrder
<1>13. ToldIsStored'
    BY <1>2, <1>3, <1>6, <1>8 DEF ToldIsStored
<1>14. MissesNothing'
    BY <1>2, <1>3, <1>5, <1>8, <1>9, <1>10, <1>11 DEF MissesNothing
<1>15. SeesNoMore'
    BY <1>2, <1>3, <1>5, <1>9, <1>10, <1>11 DEF SeesNoMore
<1> QED
    BY <1>12, <1>13, <1>14, <1>15

-----------------------------------------------------------------------------
\* The channel leaves the game alone, and the game goes by its rules.
LEMMA DrawingStepsPlay == DrawingNext => [Next]_vars
<1> SUFFICES ASSUME DrawingNext PROVE [Next]_vars
    OBVIOUS
<1>1. ASSUME NEW p \in PlayerSet, BeginRound(p) PROVE Next
    BY <1>1 DEF BeginRound, Next
<1>2. ASSUME Play PROVE Next
    BY <1>2 DEF Play, Next
<1>3. ASSUME Tick PROVE Next
    BY <1>3 DEF Next
<1>4. ASSUME NEW p \in Busy, Look(p) \/ Draw(p) \/ AskToClear(p) \/ DropOut(p) \/ ComeBack(p)
      PROVE  UNCHANGED vars
    BY <1>4 DEF Look, Draw, AskToClear, DropOut, ComeBack
<1>5. ASSUME NEW t \in tasks,
             \/ Allow(t) \/ Reject(t) \/ Push(t) \/ Trim(t) \/ Broadcast(t) \/ Grant(t)
             \/ Delete(t) \/ ShowEmpty(t) \/ ReadLog(t) \/ SendLog(t)
      PROVE  UNCHANGED vars
    BY <1>5 DEF Allow, Reject, Push, Trim, Broadcast, Grant, Delete, ShowEmpty, ReadLog, SendLog
<1> QED
    BY <1>1, <1>2, <1>3, <1>4, <1>5, Zenon DEF DrawingNext

\* A session of Crocodile with its drawing channel is a word game: whatever the
\* requests of the channel do, what holds of WordGame holds of it.
THEOREM DrawingIsWordGame == DrawingSpec => Spec
<1>1. DrawingInit => Init
    BY DEF DrawingInit
<1>2. UNCHANGED allVars => UNCHANGED vars
    BY DEF allVars
<1> QED
    BY <1>1, <1>2, DrawingStepsPlay, PTL DEF DrawingSpec, Spec

LEMMA DrawingStart == DrawingInit => DrawingInv
<1> SUFFICES ASSUME DrawingInit PROVE DrawingInv
    OBVIOUS
<1>1. log = << >> /\ tasks = {} /\ made = << >> /\ ~crossed
    BY DEF DrawingInit
<1>2. \A p \in PlayerSet : canvas[p] = {}
    BY DEF DrawingInit
<1>3. canvas \in [PlayerSet -> SUBSET Nat]
    BY DEF DrawingInit
<1>4. StoredStrokes = {} /\ OnTheWay = {} /\ Syncs({"read"}) = {} /\ Strokes({"pushed"}) = {}
      /\ Clears({"deleted"}) = {}
    BY <1>1 DEF StoredStrokes, OnTheWay, Syncs, Strokes, Clears
<1>5. ChannelTyped
    <2>1. IsFiniteSet(tasks)
        BY <1>1, FS_EmptySet
    <2>2. made \in Seq(Made) /\ log \in Seq(Nat)
        BY <1>1
    <2> QED
        BY <1>1, <1>3, <1>4, <2>1, <2>2 DEF ChannelTyped, RequestsTyped
<1>6. OneRequestEach
    BY <1>1 DEF OneRequestEach
<1>7. StoredInTurn
    BY <1>4 DEF StoredInTurn
<1>8. LogWithinLimit
    <2>1. Len(log) = 0 /\ Cardinality(Strokes({"pushed"})) = 0
        BY <1>1, <1>4, FS_EmptySet
    <2> QED
        BY <2>1, DrawingAssumption DEF LogWithinLimit
<1>9. PicturesFollow
    BY <1>2, <1>4 DEF PicturesFollow, ToldInOrder, ToldIsStored, MissesNothing, SeesNoMore, Emptying
<1> QED
    BY <1>5, <1>6, <1>7, <1>8, <1>9 DEF DrawingInv

LEMMA TurnIsNat == TypeOK => turn \in Nat
BY TotalTurnsNat DEF TypeOK

LEMMA DrawingStep == TypeOK /\ DrawingInv /\ [DrawingNext]_allVars => DrawingInv'
<1> SUFFICES ASSUME TypeOK, DrawingInv, [DrawingNext]_allVars PROVE DrawingInv'
    OBVIOUS
<1>1. Sound /\ StoredInTurn /\ LogWithinLimit /\ PicturesFollow /\ turn \in Nat
    BY TurnIsNat DEF DrawingInv, Sound
<1>2. ASSUME Sound', StoredInTurn', LogWithinLimit' /\ PicturesFollow'
      PROVE  DrawingInv'
    BY <1>2 DEF DrawingInv, Sound
<1>3. \A t \in tasks : t \in Requests /\ AtItsStep(t)
    BY <1>1, TaskOf
<1>4. ASSUME NEW p \in PlayerSet, BeginRound(p)
      PROVE  DrawingInv'
    <2>1. Sound'
        BY <1>1, <1>4, CallsAreSound
    <2>2. ~finished' => ~finished
        BY <1>4 DEF BeginRound, StartRound, MayStart
    <2>3. LogWithinLimit' /\ PicturesFollow'
        BY <1>1, <1>4, <2>2, CallsAreQuiet
    <2>4. ~NoClearDue'
        <3>1. PICK u : u = Task("clear", "runtime", 0, "granted")
            OBVIOUS
        <3>2. u.kind = "clear" /\ u.by = "runtime" /\ u.at = "granted" /\ u \in tasks'
            BY <3>1, <1>4 DEF Task, BeginRound
        <3> QED
            BY <3>2 DEF NoClearDue
    <2>5. StoredInTurn'
        BY <2>4 DEF StoredInTurn
    <2> QED
        BY <2>1, <2>3, <2>5, <1>2
<1>5. ASSUME Play \/ Tick \/ UNCHANGED vars, UNCHANGED channel
      PROVE  DrawingInv'
    <2>1. Sound'
        BY <1>1, <1>5, CallsAreSound
    <2>2. (InRound' => InRound /\ turn' = turn) /\ (~finished' => ~finished)
        BY <1>5, WordsGoOn, GameStays
    <2>3. LogWithinLimit' /\ PicturesFollow'
        BY <1>1, <1>5, <2>2, CallsAreQuiet
    <2>4. log' = log /\ tasks' = tasks /\ made' = made /\ late' = late
        BY <1>5 DEF channel, redis, races
    <2>5. NoClearDue' => NoClearDue
        BY <2>4 DEF NoClearDue
    <2>6. StoredStrokes' \subseteq StoredStrokes
        BY <2>4, LogStays
    <2>7. StoredInTurn'
        BY <1>1, <2>2, <2>4, <2>5, <2>6, TurnKept
    <2> QED
        BY <2>1, <2>3, <2>7, <1>2
<1>6. ASSUME NEW p \in Busy, Look(p) \/ AskToClear(p) \/ DropOut(p) \/ ComeBack(p)
      PROVE  DrawingInv'
    <2>1. Sound'
        BY <1>1, <1>6, CallsAreSound
    <2>2. ~finished' => ~finished
        BY <1>6, GameStays DEF Look, AskToClear, DropOut, ComeBack
    <2>3. LogWithinLimit' /\ PicturesFollow'
        BY <1>1, <1>6, <2>2, CallsAreQuiet
    <2>4. UNCHANGED <<vars, log, late>> /\ (\A t \in tasks : t \in tasks') /\ made' = made
        BY <1>6 DEF Look, AskToClear, DropOut, ComeBack, redis, races
    <2>5. StoredInTurn'
        BY <1>1, <2>4, CallsKeepTurn
    <2> QED
        BY <2>1, <2>3, <2>5, <1>2
<1>7. ASSUME NEW p \in Busy, Draw(p)
      PROVE  DrawingInv'
    <2>1. Sound' /\ LogWithinLimit' /\ PicturesFollow'
        BY <1>1, <1>7, DrawIsSound, DrawIsQuiet
    <2>2. UNCHANGED <<vars, log, late>> /\ \A t \in tasks : t \in tasks'
        BY <1>7 DEF Draw, redis, races
    <2>3. \A n \in DOMAIN made : made'[n].turn = made[n].turn
        <3>1. PICK r : r = [by |-> p, turn |-> 0]
            OBVIOUS
        <3>2. r \in Made /\ made \in Seq(Made) /\ made' = Append(made, r)
            BY <3>1, <1>1, <1>7 DEF Made, Draw, Sound, ChannelTyped
        <3> QED
            BY <3>2, StrokeAdded
    <2>4. StoredInTurn'
        BY <1>1, <2>2, <2>3, CallsKeepTurn
    <2> QED
        BY <2>1, <2>4, <1>2
<1>8. ASSUME NEW t \in tasks, Allow(t)
      PROVE  DrawingInv'
    BY <1>1, <1>2, <1>8, AllowIsSound, AllowKeepsTurn, ChecksAreQuiet
<1>9. ASSUME NEW t \in tasks, Reject(t)
      PROVE  DrawingInv'
    <2>1. Sound' /\ LogWithinLimit' /\ PicturesFollow'
        BY <1>1, <1>9, EndsAreSound, ChecksAreQuiet
    <2>2. UNCHANGED <<vars, late, made>> /\ Ends(t) /\ t.at # "granted" /\ log' = log
        BY <1>9 DEF Reject, races, redis
    <2>3. StoredInTurn'
        BY <1>1, <2>2, LogStays, StepsKeepTurn
    <2> QED
        BY <2>1, <2>3, <1>2
<1>10. ASSUME NEW t \in tasks, Push(t)
       PROVE  DrawingInv'
    BY <1>1, <1>2, <1>10, PushIsSound, PushKeepsTurn, PushKeepsLimit, PushKeepsPictures
<1>11. ASSUME NEW t \in tasks, Trim(t)
       PROVE  DrawingInv'
    <2>1. Sound' /\ LogWithinLimit' /\ PicturesFollow'
        BY <1>1, <1>11, TrimIsSound, CutsKeepLimit, TrimKeepsPictures
    <2>2. PICK u : GoesOn(t, u)
        BY <1>3, <1>11, RequestMoves DEF Trim, Steps
    <2>3. StoredStrokes' \subseteq StoredStrokes
        BY <1>1, <1>11, LogIsCut DEF Sound, ChannelTyped
    <2>4. UNCHANGED <<vars, late, made>> /\ t.kind # "clear"
        BY <1>11 DEF Trim, races
    <2>5. StoredInTurn'
        BY <1>1, <2>2, <2>3, <2>4, StepsKeepTurn
    <2> QED
        BY <2>1, <2>5, <1>2
<1>12. ASSUME NEW t \in tasks, Broadcast(t) \/ ShowEmpty(t) \/ SendLog(t)
       PROVE  DrawingInv'
    <2>1. Sound' /\ LogWithinLimit' /\ PicturesFollow'
        BY <1>1, <1>12, EndsAreSound, TellingKeepsLimit,
           BroadcastKeepsPictures, ShowEmptyKeepsPictures, SendKeepsPictures
    <2>2. /\ UNCHANGED <<vars, late, made>> /\ Ends(t) /\ log' = log
          /\ ~(t.kind = "clear" /\ t.at = "granted")
        BY <1>12 DEF Broadcast, ShowEmpty, SendLog, races, redis
    <2>3. StoredInTurn'
        BY <1>1, <2>2, LogStays, StepsKeepTurn
    <2> QED
        BY <2>1, <2>3, <1>2
<1>13. ASSUME NEW t \in tasks, Grant(t)
       PROVE  DrawingInv'
    <2>1. Sound' /\ LogWithinLimit' /\ PicturesFollow'
        BY <1>1, <1>13, GrantIsSound, ChecksAreQuiet
    <2>2. PICK u : GoesOn(t, u)
        BY <1>3, <1>13, RequestMoves DEF Grant, Steps
    <2>3. UNCHANGED <<vars, late, made>> /\ t.at # "granted" /\ log' = log
        BY <1>13 DEF Grant, races, redis
    <2>4. StoredInTurn'
        BY <1>1, <2>2, <2>3, LogStays, StepsKeepTurn
    <2> QED
        BY <2>1, <2>4, <1>2
<1>14. ASSUME NEW t \in tasks, Delete(t)
       PROVE  DrawingInv'
    <2>1. Sound' /\ LogWithinLimit' /\ PicturesFollow'
        BY <1>1, <1>14, DeleteIsSound, CutsKeepLimit, DeleteKeepsPictures
    <2>2. StoredStrokes' = {}
        BY <1>14, LogEmptied DEF Delete
    <2>3. StoredInTurn'
        BY <2>2 DEF StoredInTurn
    <2> QED
        BY <2>1, <2>3, <1>2
<1>15. ASSUME NEW t \in tasks, ReadLog(t)
       PROVE  DrawingInv'
    <2>1. Sound' /\ LogWithinLimit' /\ PicturesFollow'
        BY <1>1, <1>15, ReadIsSound, TellingKeepsLimit, ReadKeepsPictures
    <2>2. PICK u : GoesOn(t, u)
        BY <1>1, <1>15, LogIsRead
    <2>3. UNCHANGED <<vars, late, made>> /\ t.kind # "clear" /\ log' = log
        BY <1>15 DEF ReadLog, redis
    <2>4. StoredInTurn'
        BY <1>1, <2>2, <2>3, LogStays, StepsKeepTurn
    <2> QED
        BY <2>1, <2>4, <1>2
<1>16. UNCHANGED allVars => UNCHANGED vars /\ UNCHANGED channel
    BY DEF allVars
<1>17. Play => UNCHANGED channel
    BY DEF Play
<1> QED
    BY <1>4, <1>5, <1>6, <1>7, <1>8, <1>9, <1>10, <1>11, <1>12, <1>13, <1>14, <1>15,
       <1>16, <1>17, Zenon DEF DrawingNext

\* When nothing is on its way, what is left of the invariant is the property.
LEMMA DrawingInvRight == DrawingInv => CanvasRight /\ CleanSlate
<1> SUFFICES ASSUME DrawingInv PROVE CanvasRight /\ CleanSlate
    OBVIOUS
<1>1. CleanSlate
    <2>1. ~Locked => NoClearDue
        BY DEF Locked, NoClearDue
    <2> QED
        BY <2>1, Zenon DEF DrawingInv, StoredInTurn, CleanSlate
<1>2. CanvasShowsLog
    <2> SUFFICES ASSUME ~crossed, ~finished, NEW p \in PlayerSet, p \in here, tasks = {}
                 PROVE  /\ StoredStrokes \subseteq canvas[p] \cup Of(p)
                        /\ canvas[p] \subseteq StoredStrokes \cup trimmed \cup Of(p)
        BY DEF CanvasShowsLog, Settled
    <2>1. MissesNothing /\ SeesNoMore
        BY DEF DrawingInv, PicturesFollow
    <2>2. OnTheWay = {} /\ ~Emptying /\ ~CatchesUp(p)
        BY DEF OnTheWay, Strokes, Emptying, Clears, CatchesUp
    <2> QED
        BY <2>1, <2>2 DEF MissesNothing, SeesNoMore
<1> QED
    BY <1>1, <1>2 DEF CanvasRight, DrawingInv

\* However requests to draw, to clear and to catch up overlap with one another
\* and with the game (realtime.gateway.ts, onDrawStroke, onDrawClear,
\* onRoomJoin; drawing.service.ts), the pictures and the log agree when
\* everything has come, up to the first two requests told out of order, and the
\* log is within its limit but for the strokes between RPUSH and LTRIM.
THEOREM CanvasRightCorrect == DrawingSpec => []CanvasRight
<1>1. DrawingSpec => []TypeOK
    BY DrawingIsWordGame, TypeCorrect, PTL
<1> QED
    BY <1>1, DrawingStart, DrawingStep, DrawingInvRight, PTL DEF DrawingSpec

\* No round begins with strokes of the round before, whatever is still on its
\* way when the round's clear empties the log, up to the first stroke that is
\* let through in one round and stored in the next (game-runtime.service.ts,
\* applyEffect).
THEOREM CleanSlateCorrect == DrawingSpec => []CleanSlate
<1>1. DrawingSpec => []TypeOK
    BY DrawingIsWordGame, TypeCorrect, PTL
<1> QED
    BY <1>1, DrawingStart, DrawingStep, DrawingInvRight, PTL DEF DrawingSpec

-----------------------------------------------------------------------------
(***************************************************************************)
(* The card games.  The cards are a partition of the pack (Sorted) that    *)
(* every move keeps; Durak needs besides that the roles are held by two    *)
(* players who are in and that each of them has a card when a bout begins, *)
(* Nine that the layout has no gaps.                                       *)
(***************************************************************************)

\* Seats: the players of a session sit in a circle.
LEMMA SeatsFact ==
    ASSUME order \in Tables
    PROVE  /\ order \in Seq(Seated) /\ Len(order) \in Nat /\ Len(order) >= 2
           /\ DOMAIN order = 1..Len(order)
           /\ IsInjective(order)
           /\ \A i \in 1..Len(order) : order[i] \in Seated /\ Seat(order[i]) = i
           /\ \A p \in Seated : Seat(p) \in 1..Len(order) /\ order[Seat(p)] = p
<1>1. order \in Seq(STRING) /\ Len(order) >= 2 /\ IsInjective(order)
    BY TableAssumption
<1>2. Len(order) \in Nat /\ DOMAIN order = 1..Len(order)
    BY <1>1, LenProperties
<1>3. \A i \in 1..Len(order) : order[i] \in Seated
    BY <1>2 DEF Seated, Range
<1>4. order \in Seq(Seated)
    BY <1>1, <1>2, <1>3, SeqDef
<1>5. \A p \in Seated : Seat(p) \in 1..Len(order) /\ order[Seat(p)] = p
    BY <1>2 DEF Seated, Range, Seat
<1>6. \A i \in 1..Len(order) : Seat(order[i]) = i
    BY <1>1, <1>2, <1>3, <1>5 DEF IsInjective
<1> QED
    BY <1>1, <1>2, <1>3, <1>4, <1>5, <1>6

\* A table is finite: as many players as seats.
LEMMA SeatedFinite ==
    ASSUME order \in Tables
    PROVE  IsFiniteSet(Seated) /\ Cardinality(Seated) = Len(order)
<1>1. /\ Len(order) \in Nat /\ DOMAIN order = 1..Len(order)
      /\ order \in Seq(Seated) /\ IsInjective(order)
    BY SeatsFact
<1>2. order \in Bijection(1..Len(order), Seated)
    <2>1. order \in [1..Len(order) -> Seated]
        BY <1>1
    <2>2. \A i, j \in 1..Len(order) : order[i] = order[j] => i = j
        BY <1>1 DEF IsInjective
    <2>3. \A p \in Seated : \E i \in 1..Len(order) : order[i] = p
        BY <1>1 DEF Seated, Range
    <2> QED
        BY <2>1, <2>2, <2>3 DEF Bijection, Injection, Surjection, IsInjective
<1>3. IsFiniteSet(1..Len(order)) /\ Cardinality(1..Len(order)) = Len(order)
    BY <1>1, FS_Interval, SMTT(40)
<1>4. ExistsBijection(1..Len(order), Seated)
    BY <1>2 DEF ExistsBijection
<1> QED
    BY <1>3, <1>4, FS_Bijection

\* Counting seats on from a player comes to a player.
LEMMA AfterIsSeated ==
    ASSUME order \in Tables, NEW p \in Seated, NEW k \in Nat
    PROVE  After(p, k) \in Seated
<1>1. Seat(p) - 1 + k \in Nat /\ Len(order) \in Nat \ {0}
    BY SeatsFact
<1>2. (Seat(p) - 1 + k) % Len(order) \in 0 .. Len(order) - 1
    BY <1>1
<1> QED
    BY <1>2, SeatsFact, SMTT(40) DEF After

\* The others follow a player in turn order, and last comes the player.
LEMMA AfterReaches ==
    ASSUME order \in Tables, NEW p \in Seated, NEW q \in Seated
    PROVE  \E k \in 1..Len(order) : After(p, k) = q /\ (k = Len(order) <=> q = p)
<1> DEFINE n == Len(order)
           i == Seat(p)
           j == Seat(q)
<1>1. n \in Nat \ {0} /\ i \in 1..n /\ j \in 1..n /\ order[j] = q /\ order[i] = p
    BY SeatsFact
<1>2. j = i <=> q = p
    BY SeatsFact
<1>3. \A k : After(p, k) = order[((i - 1 + k) % n) + 1]
    BY DEF After
<1> HIDE DEF n, i, j
<1>4. CASE j > i
    <2>1. j - i \in 1..n /\ j - i # n /\ i - 1 + (j - i) = j - 1
        BY <1>1, <1>4
    <2>2. (j - 1) % n = j - 1
        BY <1>1
    <2>3. After(p, j - i) = q
        BY <1>1, <1>3, <2>1, <2>2
    <2> QED
        BY <1>2, <1>4, <1>1, <2>1, <2>3 DEF n
<1>5. CASE j <= i
    <2>1. j - i + n \in 1..n /\ i - 1 + (j - i + n) = n + (j - 1) /\ (j - i + n = n <=> j = i)
        BY <1>1, <1>5
    <2>2. (n + (j - 1)) % n = j - 1
        <3>1. j - 1 \in 0 .. n - 1 /\ n + (j - 1) = 1 * n + (j - 1)
            BY <1>1
        <3> QED
            BY <1>1, <3>1, OneRemainder
    <2>3. After(p, j - i + n) = q
        BY <1>1, <1>3, <2>1, <2>2
    <2> QED
        BY <1>2, <2>1, <2>3 DEF n
<1> QED
    BY <1>1, <1>4, <1>5

-----------------------------------------------------------------------------
\* What Keeping keeps.
KeptSoFar(it, s, S, i) ==
    it[i] = IF i = 0 THEN << >>
            ELSE IF s[i] \in S THEN Append(it[i - 1], s[i]) ELSE it[i - 1]

\* Keeping is its own step: a member of S is appended, another is skipped.
LEMMA KeepingUnfolds ==
    ASSUME NEW X, NEW s \in Seq(X), NEW S
    PROVE  \E it \in [0..Len(s) -> Seq(X)] :
              /\ \A i \in 0..Len(s) : KeptSoFar(it, s, S, i)
              /\ Keeping(s, S) = it[Len(s)]
<1> DEFINE n == Len(s)
           G == {m \in Nat : \E it \in [0..n -> Seq(X)] :
                               \A i \in 0..n : i <= m => KeptSoFar(it, s, S, i)}
<1>0. n \in Nat /\ \A i \in 1..n : s[i] \in X
    OBVIOUS
<1>1. 0 \in G
    <2> DEFINE it == [i \in 0..n |-> << >>]
    <2>1. << >> \in Seq(X)
        OBVIOUS
    <2>2. it \in [0..n -> Seq(X)] /\ it[0] = << >>
        BY <1>0, <2>1
    <2>3. \A i \in 0..n : i <= 0 => i = 0
        BY <1>0
    <2>4. \A i \in 0..n : i <= 0 => KeptSoFar(it, s, S, i)
        BY <2>2, <2>3 DEF KeptSoFar
    <2> HIDE DEF it
    <2> QED
        BY <2>2, <2>4
<1>2. ASSUME NEW m \in G
      PROVE  m + 1 \in G
    <2>1. PICK it \in [0..n -> Seq(X)] : \A i \in 0..n : i <= m => KeptSoFar(it, s, S, i)
        OBVIOUS
    <2>2. m \in Nat
        OBVIOUS
    <2> DEFINE new == [i \in 0..n |->
                          IF i = m + 1 THEN IF s[i] \in S THEN Append(it[i - 1], s[i]) ELSE it[i - 1]
                          ELSE it[i]]
    <2>3. ASSUME NEW i \in 0..n
          PROVE  new[i] \in Seq(X)
        <3>1. CASE i = m + 1
            <4>1. i \in 1..n /\ i - 1 \in 0..n
                BY <1>0, <2>2, <3>1
            <4>2. it[i - 1] \in Seq(X) /\ s[i] \in X
                BY <1>0, <4>1
            <4>3. Append(it[i - 1], s[i]) \in Seq(X)
                BY <4>2
            <4> QED
                BY <3>1, <4>2, <4>3
        <3>2. CASE i # m + 1
            BY <3>2
        <3> QED
            BY <3>1, <3>2
    <2>4. new \in [0..n -> Seq(X)]
        BY <2>3
    <2>5. ASSUME NEW i \in 0..n, i <= m + 1
          PROVE  KeptSoFar(new, s, S, i)
        <3>1. i # 0 => i - 1 \in 0..n /\ i - 1 # m + 1
            BY <1>0, <2>2, <2>5
        <3>2. i # 0 => new[i - 1] = it[i - 1]
            BY <3>1
        <3>3. CASE i = m + 1
            BY <2>2, <3>2, <3>3 DEF KeptSoFar
        <3>4. CASE i # m + 1
            <4>1. i <= m /\ new[i] = it[i]
                BY <1>0, <2>2, <2>5, <3>4
            <4>2. KeptSoFar(it, s, S, i)
                BY <2>1, <4>1
            <4> QED
                BY <3>2, <4>1, <4>2 DEF KeptSoFar
        <3> QED
            BY <3>3, <3>4
    <2> HIDE DEF new
    <2>6. m + 1 \in Nat
        BY <2>2
    <2> QED
        BY <2>4, <2>5, <2>6
<1>3. n \in G
    <2> HIDE DEF G
    <2>1. G \in SUBSET Nat
        BY DEF G
    <2> QED
        BY <1>0, <1>1, <1>2, <2>1, Induction
<1>4. PICK a \in [0..n -> Seq(X)] : \A i \in 0..n : KeptSoFar(a, s, S, i)
    BY <1>0, <1>3
<1> DEFINE kept == CHOOSE kept : kept = [i \in 0..n |->
                      IF i = 0 THEN << >>
                      ELSE IF s[i] \in S THEN Append(kept[i - 1], s[i]) ELSE kept[i - 1]]
<1>5. Keeping(s, S) = kept[n]
    BY DEF Keeping
<1>6. a = [i \in 0..n |-> IF i = 0 THEN << >>
                      ELSE IF s[i] \in S THEN Append(a[i - 1], s[i]) ELSE a[i - 1]]
    BY <1>4 DEF KeptSoFar
<1>7. kept = [i \in 0..n |-> IF i = 0 THEN << >>
                      ELSE IF s[i] \in S THEN Append(kept[i - 1], s[i]) ELSE kept[i - 1]]
    BY <1>6
<1> HIDE DEF kept
<1> DEFINE H == {m \in Nat : m <= n => kept[m] = a[m]}
<1>8. 0 \in H
    BY <1>0, <1>6, <1>7
<1>9. ASSUME NEW m \in H
      PROVE  m + 1 \in H
    <2>1. CASE m + 1 > n
        BY <1>0, <2>1
    <2>2. CASE m + 1 <= n
        <3>1. m + 1 \in 0..n /\ m + 1 # 0 /\ (m + 1) - 1 = m /\ kept[m] = a[m]
            BY <1>0, <2>2
        <3>2. PICK j : j = m + 1
            OBVIOUS
        <3>3. kept[j] = IF s[j] \in S THEN Append(kept[m], s[j]) ELSE kept[m]
            BY <1>7, <3>1, <3>2
        <3>4. a[j] = IF s[j] \in S THEN Append(a[m], s[j]) ELSE a[m]
            BY <1>6, <3>1, <3>2
        <3>5. kept[m + 1] = a[m + 1]
            BY <3>1, <3>2, <3>3, <3>4
        <3> QED
            BY <3>1, <3>5
    <2> QED
        BY <1>0, <2>1, <2>2
<1>10. n \in H
    <2> HIDE DEF H
    <2>1. H \in SUBSET Nat
        BY DEF H
    <2> QED
        BY <1>0, <1>8, <1>9, <2>1, Induction
<1>11. kept[n] = a[n]
    BY <1>0, <1>10
<1> QED
    BY <1>4, <1>5, <1>11

\* Keeping(s, S) has exactly the members of s that are in S, and has a member
\* only as often as s has it.
LEMMA KeepingFact ==
    ASSUME NEW X, NEW s \in Seq(X), NEW S
    PROVE  /\ Keeping(s, S) \in Seq(X)
           /\ Range(Keeping(s, S)) = Range(s) \cap S
           /\ IsInjective(s) => IsInjective(Keeping(s, S))
<1> DEFINE n == Len(s)
<1>0. n \in Nat /\ DOMAIN s = 1..n /\ \A i \in 1..n : s[i] \in X
    OBVIOUS
<1>1. PICK it \in [0..n -> Seq(X)] : /\ \A i \in 0..n : KeptSoFar(it, s, S, i)
                                     /\ Keeping(s, S) = it[n]
    BY KeepingUnfolds
<1> DEFINE G == {m \in Nat : m <= n =>
                    /\ Range(it[m]) = {s[i] : i \in 1..m} \cap S
                    /\ IsInjective(s) => IsInjective(it[m])}
<1>2. 0 \in G
    <2>1. it[0] = << >>
        BY <1>0, <1>1 DEF KeptSoFar
    <2>2. Range(it[0]) = {} /\ IsInjective(it[0])
        BY <2>1 DEF Range, IsInjective
    <2>3. {s[i] : i \in 1..0} = {}
        OBVIOUS
    <2> QED
        BY <2>2, <2>3
<1>3. ASSUME NEW m \in G, m + 1 <= n
      PROVE  m + 1 \in G
    <2> DEFINE t == it[m]
               u == it[m + 1]
               e == s[m + 1]
    <2>1. /\ m \in Nat /\ m + 1 \in 1..n /\ m \in 0..n /\ m + 1 \in 0..n
          /\ Range(t) = {s[i] : i \in 1..m} \cap S
          /\ IsInjective(s) => IsInjective(t)
        BY <1>0, <1>3
    <2>2. u = IF e \in S THEN Append(t, e) ELSE t
        <3>1. KeptSoFar(it, s, S, m + 1)
            BY <1>1, <2>1
        <3>2. m + 1 # 0 /\ (m + 1) - 1 = m
            BY <2>1, SMTT(40)
        <3> QED
            BY <3>1, <3>2 DEF KeptSoFar
    <2>3. t \in Seq(X) /\ e \in X
        BY <1>0, <2>1
    <2>4. {s[i] : i \in 1..(m + 1)} = {s[i] : i \in 1..m} \cup {e}
        <3>1. 1..(m + 1) = (1..m) \cup {m + 1}
            BY <2>1
        <3> QED
            BY <3>1
    <2>5. IsInjective(s) => e \notin {s[i] : i \in 1..m}
        BY <1>0, <2>1 DEF IsInjective
    <2> HIDE DEF t, u, e
    <2>6. CASE e \notin S
        <3>1. u = t
            BY <2>2, <2>6
        <3>2. Range(u) = {s[i] : i \in 1..(m + 1)} \cap S
            BY <2>1, <2>4, <2>6, <3>1
        <3>3. IsInjective(s) => IsInjective(u)
            BY <2>1, <3>1
        <3> QED
            BY <2>1, <3>2, <3>3 DEF u
    <2>7. CASE e \in S
        <3>1. u = Append(t, e)
            BY <2>2, <2>7
        <3>2. /\ Len(u) = Len(t) + 1 /\ u[Len(t) + 1] = e /\ Len(t) \in Nat
              /\ \A i \in 1..Len(t) : u[i] = t[i]
              /\ DOMAIN t = 1..Len(t) /\ DOMAIN u = 1..(Len(t) + 1)
            BY <2>3, <3>1
        <3>3. DOMAIN u = DOMAIN t \cup {Len(t) + 1} /\ Len(t) + 1 \notin DOMAIN t
            BY <3>2
        <3>4. Range(u) = Range(t) \cup {e}
            BY <3>2, <3>3 DEF Range
        <3>5. Range(u) = {s[i] : i \in 1..(m + 1)} \cap S
            BY <2>1, <2>4, <2>7, <3>4
        <3>6. IsInjective(s) => IsInjective(u)
            <4> SUFFICES ASSUME IsInjective(s), NEW i \in DOMAIN u, NEW j \in DOMAIN u, u[i] = u[j]
                         PROVE  i = j
                BY DEF IsInjective
            <4>1. IsInjective(t) /\ e \notin Range(t)
                BY <2>1, <2>5
            <4> QED
                BY <3>2, <3>3, <4>1 DEF IsInjective, Range
        <3> QED
            BY <2>1, <3>5, <3>6 DEF u
    <2> QED
        BY <2>6, <2>7
<1>4. n \in G
    <2>1. \A m \in G : m + 1 \in G
        <3> SUFFICES ASSUME NEW m \in G, ~(m + 1 <= n) PROVE m + 1 \in G
            BY <1>3
        <3> QED
            OBVIOUS
    <2> HIDE DEF G
    <2>2. G \in SUBSET Nat
        BY DEF G
    <2> QED
        BY <1>0, <1>2, <2>1, <2>2, Induction
<1>5. Range(it[n]) = {s[i] : i \in 1..n} \cap S /\ (IsInjective(s) => IsInjective(it[n]))
    BY <1>0, <1>4
<1>6. Range(s) = {s[i] : i \in 1..n}
    BY <1>0 DEF Range
<1> QED
    BY <1>0, <1>1, <1>5, <1>6

-----------------------------------------------------------------------------
\* Numbers that never fall cut the interval below the last into pieces.
LEMMA Staircase ==
    ASSUME NEW n \in Nat, NEW b \in [1..n + 1 -> Int], b[1] = 0,
           \A i \in 1..n : b[i] <= b[i + 1]
    PROVE  /\ \A j \in 1..n + 1 : b[j] \in Nat
           /\ \A j \in 1..n + 1 : \A i \in 1..j : b[i] <= b[j]
           /\ \A k \in 1..b[n + 1] : \E i \in 1..n : b[i] < k /\ k <= b[i + 1]
<1> DEFINE G == {m \in Nat : m <= n =>
                    /\ b[m + 1] \in Nat
                    /\ \A i \in 1..m + 1 : b[i] <= b[m + 1]
                    /\ \A k \in 1..b[m + 1] : \E i \in 1..m : b[i] < k /\ k <= b[i + 1]}
<1>1. 0 \in G
    <2>1. b[0 + 1] = 0 /\ 1..b[0 + 1] = {}
        OBVIOUS
    <2>2. \A i \in 1..0 + 1 : b[i] <= b[0 + 1]
        BY <2>1
    <2> QED
        BY <2>1, <2>2
<1>2. ASSUME NEW m \in G
      PROVE  m + 1 \in G
    <2> SUFFICES ASSUME m + 1 <= n
                 PROVE  /\ b[m + 2] \in Nat
                        /\ \A i \in 1..m + 2 : b[i] <= b[m + 2]
                        /\ \A k \in 1..b[m + 2] : \E i \in 1..m + 1 : b[i] < k /\ k <= b[i + 1]
        OBVIOUS
    <2>1. m \in Nat /\ m + 1 \in 1..n /\ m + 2 \in 1..n + 1
        OBVIOUS
    <2>2. /\ b[m + 1] \in Nat /\ b[m + 2] \in Int /\ b[m + 1] <= b[m + 2]
          /\ \A i \in 1..m + 1 : b[i] <= b[m + 1]
          /\ \A k \in 1..b[m + 1] : \E i \in 1..m : b[i] < k /\ k <= b[i + 1]
        BY <2>1
    <2>3. \A i \in 1..m + 2 : i = m + 2 \/ i \in 1..m + 1
        BY <2>1
    <2>4. \A i \in 1..m + 2 : b[i] \in Int
        BY <2>1
    <2>5. \A i \in 1..m + 2 : b[i] <= b[m + 2]
        <3> SUFFICES ASSUME NEW i \in 1..m + 2 PROVE b[i] <= b[m + 2]
            OBVIOUS
        <3>1. CASE i = m + 2
            BY <2>2, <3>1
        <3>2. CASE i \in 1..m + 1
            BY <2>2, <2>4, <3>2
        <3> QED
            BY <2>3, <3>1, <3>2
    <2>6. ASSUME NEW k \in 1..b[m + 2]
          PROVE  \E i \in 1..m + 1 : b[i] < k /\ k <= b[i + 1]
        <3>1. CASE k <= b[m + 1]
            <4>1. k \in 1..b[m + 1]
                BY <2>2, <3>1
            <4>2. PICK i \in 1..m : b[i] < k /\ k <= b[i + 1]
                BY <2>2, <4>1
            <4>3. i \in 1..m + 1
                BY <2>1
            <4> QED
                BY <4>2, <4>3
        <3>2. CASE k > b[m + 1]
            <4>1. m + 1 \in 1..m + 1 /\ (m + 1) + 1 = m + 2
                BY <2>1
            <4> QED
                BY <2>2, <3>2, <4>1
        <3> QED
            BY <2>2, <3>1, <3>2
    <2> QED
        BY <2>2, <2>5, <2>6
<1>3. \A m \in Nat : m \in G
    <2> HIDE DEF G
    <2>1. G \in SUBSET Nat
        BY DEF G
    <2> QED
        BY <1>1, <1>2, <2>1, Induction
<1>4. ASSUME NEW j \in 1..n + 1
      PROVE  b[j] \in Nat /\ \A i \in 1..j : b[i] <= b[j]
    <2>1. j - 1 \in Nat /\ j - 1 <= n /\ (j - 1) + 1 = j
        OBVIOUS
    <2> QED
        BY <1>3, <2>1
<1>5. \A k \in 1..b[n + 1] : \E i \in 1..n : b[i] < k /\ k <= b[i + 1]
    BY <1>3
<1> QED
    BY <1>4, <1>5

-----------------------------------------------------------------------------
\* refillHands: what the players miss, and what they draw.
MissingOf(held, p) == IF Cardinality(held[p]) < HandSize THEN HandSize - Cardinality(held[p]) ELSE 0
MissingIn(held, E) == MapThenSumSet(LAMBDA p : MissingOf(held, p), E)
Before(held, players, i) == MissingIn(held, {players[j] : j \in 1..i - 1})
Draws(held, players, i) ==
    {k \in DOMAIN deck : Before(held, players, i) < k /\ k <= Before(held, players, i + 1)}
DrawnBy(held, players, p) ==
    UNION {Draws(held, players, i) : i \in {j \in DOMAIN players : players[j] = p}}

\* RefillHands in the words of the lemmas: what is missing, and who draws what.
LEMMA RefillUnfolds ==
    ASSUME NEW held, NEW players
    PROVE  RefillHands(held, players) =
              [hands |-> [p \in DOMAIN held |-> held[p] \cup {deck[k] : k \in DrawnBy(held, players, p)}],
               deck |-> SubSeq(deck, Before(held, players, Len(players) + 1) + 1, Len(deck))]
BY DEF RefillHands, DrawnBy, Draws, Before, MissingIn, MissingOf

\* What is missing from several hands is a sum over them.
LEMMA MissingIsSum ==
    ASSUME NEW held, NEW E, IsFiniteSet(E), NEW f, \A p \in E : f[p] = MissingOf(held, p) /\ f[p] \in Int
    PROVE  MissingIn(held, E) = SumOver(f, E)
<1> DEFINE it == CHOOSE it : it = [s \in SUBSET E |-> IF s = {} THEN 0
                                      ELSE MissingOf(held, Pick(s)) + it[s \ {Pick(s)}]]
<1>1. MissingIn(held, E) = it[E]
    BY DEF MissingIn, MapThenSumSet, MapThenFoldSet, Pick
<1>2. PICK a \in [SUBSET E -> Int] : IsSum(a, f, E) /\ SumOver(f, E) = a[E]
    BY SumUnfolds
<1>3. \A s \in SUBSET E : s # {} => f[Pick(s)] = MissingOf(held, Pick(s))
    BY PickIsIn
<1>4. a = [s \in SUBSET E |-> IF s = {} THEN 0
                                      ELSE MissingOf(held, Pick(s)) + a[s \ {Pick(s)}]]
    BY <1>2, <1>3 DEF IsSum
<1>5. it = [s \in SUBSET E |-> IF s = {} THEN 0
                                      ELSE MissingOf(held, Pick(s)) + it[s \ {Pick(s)}]]
    BY <1>4
<1> HIDE DEF it
<1>6. IsSum(it, f, E)
    BY <1>3, <1>5 DEF IsSum
<1>7. it[E] = a[E]
    BY <1>2, <1>6, SumsAgree
<1> QED
    BY <1>1, <1>2, <1>7

Held == [Seated -> SUBSET Pack]

\* Hands are finite.
LEMMA HandsFinite ==
    ASSUME NEW held \in Held, NEW p \in Seated
    PROVE  IsFiniteSet(held[p]) /\ Cardinality(held[p]) \in Nat
<1>1. held[p] \in SUBSET Pack
    BY DEF Held
<1> QED
    BY <1>1, PackAssumption, FS_Subset, FS_CardinalityType

\* A hand that is empty misses a card.
LEMMA MissingFact ==
    ASSUME NEW held \in Held, NEW p \in Seated
    PROVE  MissingOf(held, p) \in Nat /\ (held[p] = {} => MissingOf(held, p) > 0)
<1>1. Cardinality(held[p]) \in Nat /\ (held[p] = {} => Cardinality(held[p]) = 0)
    BY HandsFinite, FS_EmptySet
<1> QED
    BY <1>1, DurakAssumption DEF MissingOf

\* What the players before the i-th draw grows by what the i-th misses.
LEMMA BeforeFact ==
    ASSUME order \in Tables, NEW held \in Held, NEW players \in Seq(Seated)
    PROVE  /\ Before(held, players, 1) = 0
           /\ \A i \in 1..Len(players) + 1 : Before(held, players, i) \in Int
           /\ \A i \in 1..Len(players) :
                 /\ Before(held, players, i) <= Before(held, players, i + 1)
                 /\ IsInjective(players) =>
                       Before(held, players, i + 1) = Before(held, players, i) + MissingOf(held, players[i])
<1> DEFINE f == [p \in Seated |-> MissingOf(held, p)]
           S(i) == {players[j] : j \in 1..i - 1}
           n == Len(players)
<1>0. n \in Nat /\ DOMAIN players = 1..n /\ \A i \in 1..n : players[i] \in Seated
    OBVIOUS
<1>1. \A p \in Seated : f[p] = MissingOf(held, p) /\ f[p] \in Nat
    BY MissingFact
<1>2. \A i \in 1..n + 1 : S(i) \subseteq Seated
    BY <1>0
<1>3. \A i \in 1..n + 1 : IsFiniteSet(S(i))
    <2> HIDE DEF S
    <2> QED
        BY <1>2, SeatedFinite, FS_Subset
<1> HIDE DEF f
<1>4. ASSUME NEW i \in 1..n + 1
      PROVE  Before(held, players, i) = SumOver(f, S(i))
    <2>1. Before(held, players, i) = MissingIn(held, S(i))
        BY DEF Before
    <2> HIDE DEF S
    <2>2. \A p \in S(i) : f[p] = MissingOf(held, p) /\ f[p] \in Int
        BY <1>1, <1>2
    <2> QED
        BY <1>3, <2>1, <2>2, MissingIsSum
<1>5. S(1) = {}
    OBVIOUS
<1>6. ASSUME NEW i \in 1..n
      PROVE  S(i + 1) = S(i) \cup {players[i]} /\ (IsInjective(players) => players[i] \notin S(i))
    <2>1. 1..(i + 1) - 1 = (1..i - 1) \cup {i} /\ \A j \in 1..i - 1 : j \in 1..n /\ j # i
        BY <1>0
    <2>2. S(i + 1) = S(i) \cup {players[i]}
        BY <2>1
    <2>3. IsInjective(players) => players[i] \notin S(i)
        BY <1>0, <2>1 DEF IsInjective
    <2> QED
        BY <2>2, <2>3
<1> HIDE DEF S
<1>7. ASSUME NEW i \in 1..n + 1
      PROVE  SumOver(f, S(i)) \in Int
    <2>1. \A p \in S(i) : f[p] \in Int
        BY <1>1, <1>2
    <2>2. PICK it \in [SUBSET S(i) -> Int] : SumOver(f, S(i)) = it[S(i)]
        BY <1>3, <2>1, SumUnfolds
    <2> QED
        BY <2>2
<1>8. ASSUME NEW i \in 1..n
      PROVE  /\ SumOver(f, S(i)) <= SumOver(f, S(i + 1))
             /\ IsInjective(players) => SumOver(f, S(i + 1)) = SumOver(f, S(i)) + f[players[i]]
    <2>1. i \in 1..n + 1 /\ i + 1 \in 1..n + 1
        BY <1>0
    <2>2. CASE players[i] \in S(i)
        <3>1. S(i + 1) = S(i)
            BY <1>6, <2>2, ZenonT(60)
        <3>2. ~IsInjective(players)
            BY <1>6, <2>2
        <3>3. SumOver(f, S(i)) <= SumOver(f, S(i + 1))
            BY <1>7, <2>1, <3>1
        <3> QED
            BY <3>2, <3>3
    <2>3. CASE players[i] \notin S(i)
        <3>1. S(i + 1) = S(i) \cup {players[i]}
            BY <1>6
        <3>2. players[i] \in S(i + 1) /\ S(i + 1) \ {players[i]} = S(i)
            BY <2>3, <3>1
        <3>3. \A p \in S(i + 1) : f[p] \in Int
            BY <1>1, <1>2, <2>1
        <3>4. SumOver(f, S(i + 1)) = SumOver(f, S(i)) + f[players[i]]
            BY <1>3, <2>1, <3>2, <3>3, SumAdds
        <3>5. f[players[i]] \in Nat
            BY <1>0, <1>1
        <3>6. SumOver(f, S(i)) <= SumOver(f, S(i + 1))
            BY <1>7, <2>1, <3>4, <3>5
        <3> QED
            BY <3>4, <3>6
    <2> QED
        BY <2>2, <2>3
<1>9. 1 \in 1..n + 1 /\ \A i \in 1..n : i \in 1..n + 1 /\ i + 1 \in 1..n + 1
         /\ f[players[i]] = MissingOf(held, players[i])
    BY <1>0, <1>1
<1>10. Before(held, players, 1) = 0
    BY <1>4, <1>5, <1>9, SumEmpty
<1>11. \A i \in 1..n + 1 : Before(held, players, i) \in Int
    BY <1>4, <1>7
<1>12. ASSUME NEW i \in 1..n
       PROVE  /\ Before(held, players, i) <= Before(held, players, i + 1)
              /\ IsInjective(players) =>
                    Before(held, players, i + 1) = Before(held, players, i) + MissingOf(held, players[i])
    <2>1. /\ Before(held, players, i) = SumOver(f, S(i))
          /\ Before(held, players, i + 1) = SumOver(f, S(i + 1))
        BY <1>4, <1>9
    <2> QED
        BY <1>8, <1>9, <2>1
<1> HIDE DEF n
<1> QED
    BY <1>10, <1>11, <1>12 DEF n

\* What a refill hands out: cards from the deck, each to one player, and the
\* rest stays; who is not in the list gets none, and while cards are left
\* nobody in the list goes without.
HandsOut(held, players, given, rest) ==
    /\ given \in Held /\ rest \in Seq(Pack) /\ IsInjective(rest)
    /\ Range(rest) \subseteq Range(deck)
    /\ \A p \in Seated : given[p] \subseteq Range(deck) /\ given[p] \cap Range(rest) = {}
    /\ \A p, q \in Seated : p # q => given[p] \cap given[q] = {}
    /\ \A c \in Range(deck) : c \in Range(rest) \/ \E p \in Seated : c \in given[p]
    /\ \A p \in Seated \ Range(players) : given[p] = {}
    /\ IsInjective(players) /\ rest # << >> =>
          \A p \in Seated \cap Range(players) : held[p] \cup given[p] # {}

\* refillHands hands out cards from the front of the deck, each to one player;
\* nobody stays without cards while the deck lasts.
LEMMA RefillFact ==
    ASSUME order \in Tables, NEW held \in Held, NEW players \in Seq(Seated),
           deck \in Seq(Pack), IsInjective(deck)
    PROVE  \E given, rest :
              /\ HandsOut(held, players, given, rest)
              /\ RefillHands(held, players) =
                    [hands |-> [p \in Seated |-> held[p] \cup given[p]], deck |-> rest]
<1> DEFINE n == Len(players)
           b == [i \in 1..n + 1 |-> Before(held, players, i)]
           B == b[n + 1]
           L == Len(deck)
           D(p) == DrawnBy(held, players, p)
           given == [p \in Seated |-> {deck[k] : k \in D(p)}]
           rest == SubSeq(deck, B + 1, L)
<1>0. /\ n \in Nat /\ DOMAIN players = 1..n /\ \A i \in 1..n : players[i] \in Seated
      /\ L \in Nat /\ DOMAIN deck = 1..L /\ \A k \in 1..L : deck[k] \in Pack
    OBVIOUS
<1>1. b \in [1..n + 1 -> Int] /\ b[1] = 0 /\ \A i \in 1..n : b[i] <= b[i + 1]
    <2>1. 1 \in 1..n + 1 /\ \A i \in 1..n : i \in 1..n + 1 /\ i + 1 \in 1..n + 1
        BY <1>0
    <2>2. /\ Before(held, players, 1) = 0
          /\ \A i \in 1..n + 1 : Before(held, players, i) \in Int
          /\ \A i \in 1..n : Before(held, players, i) <= Before(held, players, i + 1)
        BY BeforeFact
    <2> QED
        BY <2>1, <2>2
<1>2. IsInjective(players) => \A i \in 1..n : b[i + 1] = b[i] + MissingOf(held, players[i])
    <2>1. \A i \in 1..n : i \in 1..n + 1 /\ i + 1 \in 1..n + 1
        BY <1>0
    <2>2. IsInjective(players) => \A i \in 1..n :
              Before(held, players, i + 1) = Before(held, players, i) + MissingOf(held, players[i])
        BY BeforeFact
    <2> QED
        BY <2>1, <2>2
<1>3. ASSUME NEW p
      PROVE  D(p) = {k \in 1..L : \E i \in 1..n : players[i] = p /\ b[i] < k /\ k <= b[i + 1]}
    <2>1. \A i \in 1..n : i \in 1..n + 1 /\ i + 1 \in 1..n + 1
        BY <1>0
    <2>2. \A i \in 1..n : Draws(held, players, i) = {k \in 1..L : b[i] < k /\ k <= b[i + 1]}
        BY <1>0, <2>1 DEF Draws
    <2>3. D(p) = UNION {Draws(held, players, i) : i \in {j \in 1..n : players[j] = p}}
        BY <1>0 DEF DrawnBy
    <2> HIDE DEF b, D, L
    <2> QED
        BY <2>2, <2>3
<1>4. RefillHands(held, players) = [hands |-> [p \in Seated |-> held[p] \cup given[p]], deck |-> rest]
    <2>1. DOMAIN held = Seated
        BY DEF Held
    <2>2. B = Before(held, players, n + 1)
        BY <1>0
    <2>3. [p \in DOMAIN held |-> held[p] \cup {deck[k] : k \in D(p)}]
              = [p \in Seated |-> held[p] \cup given[p]]
        BY <2>1
    <2> HIDE DEF B, given, D
    <2>4. [p \in DOMAIN held |-> held[p] \cup {deck[k] : k \in DrawnBy(held, players, p)}]
              = [p \in Seated |-> held[p] \cup given[p]]
        BY <2>3 DEF D
    <2> QED
        BY <2>2, <2>4, RefillUnfolds
<1> HIDE DEF n, b, D
<1>5. /\ \A j \in 1..n + 1 : b[j] \in Nat
      /\ \A j \in 1..n + 1 : \A i \in 1..j : b[i] <= b[j]
      /\ \A k \in 1..B : \E i \in 1..n : b[i] < k /\ k <= b[i + 1]
    BY <1>0, <1>1, Staircase
<1>6. B \in Nat
    BY <1>0, <1>5
<1> HIDE DEF B, L
<1>7. /\ rest \in Seq(Pack)
      /\ DOMAIN rest = 1..Len(rest) /\ Len(rest) \in Nat
      /\ Len(rest) = IF B + 1 <= L THEN L - B ELSE 0
      /\ \A i \in 1..Len(rest) : rest[i] = deck[B + i]
    <2>1. B + 1 \in Int /\ L \in Int /\ \A i \in B + 1 .. L : deck[i] \in Pack
        BY <1>0, <1>6
    <2>2. /\ SubSeq(deck, B + 1, L) \in Seq(Pack)
          /\ Len(SubSeq(deck, B + 1, L)) = IF B + 1 <= L THEN L - (B + 1) + 1 ELSE 0
          /\ \A i \in 1 .. L - (B + 1) + 1 : SubSeq(deck, B + 1, L)[i] = deck[B + 1 + i - 1]
        BY <2>1, SubSeqProperties
    <2> HIDE DEF rest
    <2>3. /\ rest \in Seq(Pack)
          /\ Len(rest) = IF B + 1 <= L THEN L - B ELSE 0
        BY <1>0, <1>6, <2>2 DEF rest
    <2>4. \A i \in 1 .. L - B : rest[i] = deck[B + i]
        <3>1. L - (B + 1) + 1 = L - B /\ \A i \in 1 .. L - B : B + 1 + i - 1 = B + i
            BY <1>0, <1>6
        <3> QED
            BY <2>2, <3>1 DEF rest
    <2>5. \A i \in 1..Len(rest) : i \in 1 .. L - B
        BY <1>0, <1>6, <2>3
    <2> QED
        BY <2>3, <2>4, <2>5, LenProperties
<1>8. \A k \in 1..Len(rest) : B + k \in 1..L
    BY <1>0, <1>6, <1>7
<1>9. \A k, m \in 1..L : deck[k] = deck[m] => k = m
    BY <1>0 DEF IsInjective
<1>10. IsInjective(rest)
    <2> HIDE DEF rest
    <2> SUFFICES ASSUME NEW i \in 1..Len(rest), NEW j \in 1..Len(rest), rest[i] = rest[j]
                 PROVE  i = j
        BY <1>7 DEF IsInjective
    <2>1. B + i = B + j
        BY <1>7, <1>8, <1>9
    <2> QED
        BY <1>6, <1>7, <2>1
<1>11. Range(rest) = {deck[k] : k \in {m \in 1..L : m > B}}
    <2>1. \A k \in 1..L : k > B => k - B \in 1..Len(rest) /\ B + (k - B) = k
        BY <1>0, <1>6, <1>7
    <2>2. \A k \in 1..Len(rest) : B + k > B
        BY <1>0, <1>6, <1>7
    <2> HIDE DEF rest
    <2> QED
        BY <1>7, <1>8, <2>1, <2>2 DEF Range
<1> HIDE DEF rest
<1>12. Range(deck) = {deck[k] : k \in 1..L}
    BY <1>0 DEF Range
<1>13. \A p \in Seated : given[p] = {deck[k] : k \in D(p)} /\ D(p) \subseteq 1..L
    BY <1>3
<1>14. given \in Held
    BY <1>0, <1>13 DEF Held
<1>15. \A p \in Seated : \A k \in D(p) : k <= B
    <2> SUFFICES ASSUME NEW p \in Seated, NEW k \in D(p) PROVE k <= B
        OBVIOUS
    <2>1. PICK i \in 1..n : players[i] = p /\ b[i] < k /\ k <= b[i + 1] /\ k \in 1..L
        BY <1>3
    <2>2. n + 1 \in 1..n + 1 /\ i + 1 \in 1..n + 1
        BY <1>0
    <2>3. b[i + 1] <= B
        BY <1>5, <2>2 DEF B
    <2>4. b[i + 1] \in Nat
        BY <1>5, <2>2
    <2> QED
        BY <1>0, <1>6, <2>1, <2>3, <2>4
<1>16. ASSUME NEW p \in Seated, NEW q \in Seated, p # q
       PROVE  D(p) \cap D(q) = {}
    <2> SUFFICES ASSUME NEW k \in D(p), k \in D(q) PROVE FALSE
        OBVIOUS
    <2>1. PICK i \in 1..n : players[i] = p /\ b[i] < k /\ k <= b[i + 1] /\ k \in 1..L
        BY <1>3
    <2>2. PICK j \in 1..n : players[j] = q /\ b[j] < k /\ k <= b[j + 1]
        BY <1>3
    <2>3. i # j /\ i \in 1..n + 1 /\ i + 1 \in 1..n + 1 /\ j \in 1..n + 1 /\ j + 1 \in 1..n + 1
        BY <1>0, <1>16, <2>1, <2>2
    <2>4. b[i] \in Nat /\ b[i + 1] \in Nat /\ b[j] \in Nat /\ b[j + 1] \in Nat /\ k \in Nat
        BY <1>0, <1>5, <2>1, <2>3
    <2>5. CASE i < j
        <3>1. i + 1 \in 1..j
            BY <2>5
        <3>2. b[i + 1] <= b[j]
            BY <1>5, <2>3, <3>1
        <3> QED
            BY <2>1, <2>2, <2>4, <3>2
    <2>6. CASE j < i
        <3>1. j + 1 \in 1..i
            BY <2>6
        <3>2. b[j + 1] <= b[i]
            BY <1>5, <2>3, <3>1
        <3> QED
            BY <2>1, <2>2, <2>4, <3>2
    <2> QED
        BY <2>3, <2>5, <2>6
<1>17. \A p \in Seated : \A k \in D(p) : k \in 1..L
    BY <1>13
<1>18. \A p, q \in Seated : p # q => given[p] \cap given[q] = {}
    <2> HIDE DEF given
    <2> SUFFICES ASSUME NEW p \in Seated, NEW q \in Seated, p # q, NEW c \in given[p], c \in given[q]
                 PROVE  FALSE
        OBVIOUS
    <2>1. PICK k \in D(p) : c = deck[k]
        BY <1>13
    <2>2. PICK m \in D(q) : c = deck[m]
        BY <1>13
    <2>3. k = m
        BY <1>9, <1>17, <2>1, <2>2
    <2> QED
        BY <1>16, <2>3
<1>19. \A p \in Seated : given[p] \subseteq Range(deck) /\ given[p] \cap Range(rest) = {}
    <2> HIDE DEF given
    <2>1. \A p \in Seated : given[p] \subseteq Range(deck)
        BY <1>12, <1>13
    <2>2. ASSUME NEW p \in Seated, NEW c \in given[p], c \in Range(rest) PROVE FALSE
        <3>1. PICK k \in D(p) : c = deck[k]
            BY <1>13, <2>2
        <3>2. PICK m \in 1..L : m > B /\ c = deck[m]
            BY <1>11, <2>2
        <3>3. k = m
            BY <1>9, <1>17, <3>1, <3>2
        <3>4. k <= B /\ k \in Nat
            BY <1>15, <1>17, <1>0
        <3> QED
            BY <1>6, <3>2, <3>3, <3>4
    <2> QED
        BY <2>1, <2>2
<1>20. \A c \in Range(deck) : c \in Range(rest) \/ \E p \in Seated : c \in given[p]
    <2> HIDE DEF given
    <2> SUFFICES ASSUME NEW c \in Range(deck), c \notin Range(rest)
                 PROVE  \E p \in Seated : c \in given[p]
        OBVIOUS
    <2>1. PICK k \in 1..L : c = deck[k]
        BY <1>12
    <2>2. k \in 1..B
        BY <1>0, <1>6, <1>11, <2>1
    <2>3. PICK i \in 1..n : b[i] < k /\ k <= b[i + 1]
        BY <1>5, <2>2
    <2>4. k \in D(players[i]) /\ players[i] \in Seated
        BY <1>0, <1>3, <2>3
    <2> QED
        BY <1>13, <2>1, <2>4
<1>21. \A p \in Seated \ Range(players) : given[p] = {}
    <2>1. \A p \in Seated \ Range(players) : \A i \in 1..n : players[i] # p
        BY <1>0 DEF Range
    <2>2. \A p \in Seated \ Range(players) : D(p) = {}
        BY <1>3, <2>1
    <2> QED
        BY <1>13, <2>2
<1>22. ASSUME IsInjective(players), rest # << >>, NEW p \in Seated \cap Range(players)
       PROVE  held[p] \cup given[p] # {}
    <2>1. PICK i \in 1..n : players[i] = p
        BY <1>0 DEF Range
    <2>2. i \in 1..n + 1 /\ i + 1 \in 1..n + 1 /\ n + 1 \in 1..n + 1
        BY <1>0
    <2>3. B < L
        <3>1. CASE B + 1 <= L
            BY <1>0, <1>6, <3>1
        <3>2. CASE ~(B + 1 <= L)
            <4>1. Len(rest) = 0
                BY <1>7, <3>2
            <4>2. rest = << >>
                BY <1>7, <4>1, EmptySeq
            <4> QED
                BY <1>22, <4>2
        <3> QED
            BY <3>1, <3>2
    <2>4. SUFFICES ASSUME held[p] = {} PROVE given[p] # {}
        OBVIOUS
    <2>5. MissingOf(held, p) \in Nat /\ MissingOf(held, p) > 0
        BY <2>4, MissingFact
    <2>6. b[i + 1] = b[i] + MissingOf(held, p)
        BY <1>2, <1>22, <2>1
    <2>7. b[i] \in Nat /\ b[i + 1] \in Nat /\ b[i + 1] <= B
        BY <1>5, <2>2 DEF B
    <2>8. b[i + 1] \in 1..L /\ b[i] < b[i + 1]
        BY <1>0, <1>6, <2>3, <2>5, <2>6, <2>7
    <2>9. b[i + 1] \in D(p)
        BY <1>3, <2>1, <2>8, <2>7
    <2> HIDE DEF given
    <2>10. PICK k : k \in D(p)
        BY <2>9
    <2>11. p \in Seated
        OBVIOUS
    <2>12. deck[k] \in given[p]
        BY <1>13, <2>10, <2>11
    <2> QED
        BY <2>12
<1>23. Range(rest) \subseteq Range(deck)
    BY <1>11, <1>12
<1> HIDE DEF given
<1>24. HandsOut(held, players, given, rest)
    BY <1>7, <1>10, <1>14, <1>18, <1>19, <1>20, <1>21, <1>22, <1>23 DEF HandsOut
<1> QED
    BY <1>4, <1>24

-----------------------------------------------------------------------------
\* The least and the greatest of some numbers.
LEMMA MinFact ==
    ASSUME NEW S \in SUBSET Nat, S # {}
    PROVE  Min(S) \in S /\ \A x \in S : Min(S) <= x
<1> DEFINE G == {n \in Nat : (\E x \in S : x <= n) => \E x \in S : \A y \in S : x <= y}
<1>1. 0 \in G
    OBVIOUS
<1>2. ASSUME NEW n \in G
      PROVE  n + 1 \in G
    <2> SUFFICES ASSUME NEW x \in S, x <= n + 1 PROVE \E z \in S : \A y \in S : z <= y
        OBVIOUS
    <2>1. CASE \E y \in S : y <= n
        BY <2>1
    <2>2. CASE ~\E y \in S : y <= n
        <3>1. \A y \in S : x <= y
            BY <2>2
        <3> QED
            BY <3>1
    <2> QED
        BY <2>1, <2>2
<1>3. PICK n \in S : TRUE
    OBVIOUS
<1>4. n \in G
    <2> HIDE DEF G
    <2>1. G \in SUBSET Nat
        BY DEF G
    <2> QED
        BY <1>1, <1>2, <2>1, Induction
<1>5. \E x \in S : \A y \in S : x <= y
    BY <1>4
<1> QED
    BY <1>5 DEF Min

\* A set of numbers that is bounded and not empty has a greatest one.
LEMMA MaxFact ==
    ASSUME NEW m \in Nat, NEW S \in SUBSET (0..m), S # {}
    PROVE  Max(S) \in S /\ \A x \in S : x <= Max(S)
<1> DEFINE T == {m - x : x \in S}
<1>1. T \in SUBSET Nat /\ T # {}
    <2>1. \A x \in S : x \in 0..m /\ m - x \in Nat
        OBVIOUS
    <2> QED
        BY <2>1
<1>2. PICK z \in T : \A y \in T : z <= y
    <2> HIDE DEF T
    <2> QED
        BY <1>1, MinFact
<1>3. PICK x \in S : z = m - x
    OBVIOUS
<1>4. \A y \in S : y <= x
    <2> SUFFICES ASSUME NEW y \in S PROVE y <= x
        OBVIOUS
    <2>1. m - y \in T
        OBVIOUS
    <2>2. z <= m - y
        BY <1>2, <2>1
    <2> QED
        BY <1>3, <2>2
<1> QED
    BY <1>4 DEF Max

-----------------------------------------------------------------------------
\* The next player in turn order is not to be skipped and is somebody else,
\* when there is such a player.
LEMMA NextPlayerFact ==
    ASSUME order \in Tables, NEW p \in Seated, NEW skip, NEW q \in Seated, q \notin skip, q # p
    PROVE  NextPlayer(p, skip) \in Seated \ skip /\ NextPlayer(p, skip) # p
<1> DEFINE n == Len(order)
           steps == {k \in 1..n : After(p, k) \notin skip}
<1>0. n \in Nat
    BY SeatsFact
<1>1. PICK k \in 1..n : After(p, k) = q /\ (k = n <=> q = p)
    BY AfterReaches
<1>2. k \in steps /\ k < n
    BY <1>0, <1>1
<1>3. Min(steps) \in steps /\ Min(steps) <= k
    <2>1. steps \in SUBSET Nat /\ steps # {}
        BY <1>2
    <2> HIDE DEF steps
    <2> QED
        BY <1>2, <2>1, MinFact
<1>4. NextPlayer(p, skip) = After(p, Min(steps))
    BY <1>2 DEF NextPlayer
<1> DEFINE m == Min(steps)
<1> HIDE DEF m
<1>5. m \in 1..n /\ m < n /\ After(p, m) \notin skip
    BY <1>0, <1>2, <1>3 DEF m
<1>6. After(p, m) \in Seated
    BY <1>5, AfterIsSeated
<1>7. After(p, m) # p
    <2> SUFFICES ASSUME After(p, m) = p PROVE FALSE
        OBVIOUS
    <2>1. order[((Seat(p) - 1 + m) % n) + 1] = p
        BY DEF After
    <2>2. Seat(p) \in 1..n
        BY SeatsFact
    <2>3. Seat(p) - 1 + m \in Nat /\ n \in Nat \ {0} /\ (Seat(p) - 1 + m) % n \in 0 .. n - 1
        <3>1. PICK z : z = Seat(p) - 1 + m
            OBVIOUS
        <3> HIDE DEF n
        <3>2. z \in Nat /\ n \in Nat \ {0}
            BY <1>0, <1>5, <2>2, <3>1
        <3>3. z % n \in 0 .. n - 1
            BY <3>2
        <3> QED
            BY <3>1, <3>2, <3>3
    <2>4. ((Seat(p) - 1 + m) % n) + 1 \in 1..n
        BY <1>0, <2>3
    <2>5. (Seat(p) - 1 + m) % n = Seat(p) - 1
        <3>1. Seat(order[((Seat(p) - 1 + m) % n) + 1]) = ((Seat(p) - 1 + m) % n) + 1
            BY <2>4, SeatsFact
        <3> QED
            BY <2>1, <2>2, <2>3, <3>1
    <2>6. CASE Seat(p) - 1 + m < n
        <3>1. (Seat(p) - 1 + m) % n = Seat(p) - 1 + m
            BY <2>3, <2>6
        <3> QED
            BY <1>5, <2>2, <2>5, <3>1
    <2>7. CASE Seat(p) - 1 + m >= n
        <3>1. Seat(p) - 1 + m - n \in 0 .. n - 1 /\ Seat(p) - 1 + m = 1 * n + (Seat(p) - 1 + m - n)
            BY <1>0, <1>5, <2>2, <2>7
        <3>2. (Seat(p) - 1 + m) % n = Seat(p) - 1 + m - n
            BY <2>3, <3>1, OneRemainder
        <3> QED
            BY <1>5, <2>2, <2>5, <3>2
    <2> QED
        BY <2>3, <2>6, <2>7
<1> QED
    BY <1>4, <1>5, <1>6, <1>7 DEF m

\* Turning the circle leaves everybody in it, once.
LEMMA FromAttackerFact ==
    ASSUME order \in Tables, attacker \in Seated
    PROVE  /\ FromAttacker \in Seq(Seated) /\ IsInjective(FromAttacker)
           /\ Range(FromAttacker) = Playing
<1> DEFINE n == Len(order)
           a == Seat(attacker)
           x == SubSeq(order, a, n)
           y == SubSeq(order, 1, a - 1)
           s == x \o y
<1>0. /\ n \in Nat /\ a \in 1..n /\ order \in Seq(Seated) /\ \A i \in 1..n : order[i] \in Seated
      /\ DOMAIN order = 1..n /\ \A i, j \in 1..n : order[i] = order[j] => i = j
    BY SeatsFact DEF IsInjective
<1> HIDE DEF n, a
<1>1. /\ x \in Seq(Seated) /\ Len(x) = n - a + 1
      /\ \A i \in 1 .. n - a + 1 : x[i] = order[a + i - 1]
    <2>1. a \in Int /\ n \in Int /\ a <= n /\ \A i \in a..n : order[i] \in Seated
        BY <1>0
    <2> QED
        BY <2>1, SubSeqProperties
<1>2. /\ y \in Seq(Seated) /\ Len(y) = a - 1
      /\ \A i \in 1 .. a - 1 : y[i] = order[i]
    <2>1. 1 \in Int /\ a - 1 \in Int /\ \A i \in 1..a - 1 : order[i] \in Seated
        BY <1>0
    <2>2. /\ y \in Seq(Seated) /\ Len(y) = IF 1 <= a - 1 THEN (a - 1) - 1 + 1 ELSE 0
          /\ \A i \in 1 .. (a - 1) - 1 + 1 : y[i] = order[1 + i - 1]
        BY <2>1, SubSeqProperties
    <2> HIDE DEF y
    <2>3. (a - 1) - 1 + 1 = a - 1 /\ \A i \in 1 .. a - 1 : 1 + i - 1 = i
        BY <1>0
    <2> QED
        BY <1>0, <2>2, <2>3
<1> HIDE DEF x, y
<1> DEFINE at(i) == IF i <= n - a + 1 THEN a + i - 1 ELSE i - (n - a + 1)
<1>3. s \in Seq(Seated) /\ DOMAIN s = 1..n /\ \A i \in 1..n : s[i] = order[at(i)]
    <2>1. Len(x) + Len(y) = n
        BY <1>0, <1>1, <1>2
    <2>2. /\ s \in Seq(Seated) /\ Len(s) = n
          /\ \A i \in 1..n : s[i] = IF i <= Len(x) THEN x[i] ELSE y[i - Len(x)]
        BY <1>1, <1>2, <2>1, ConcatProperties
    <2> HIDE DEF s
    <2>3. \A i \in 1..n : IF i <= n - a + 1 THEN i \in 1 .. n - a + 1 ELSE i - (n - a + 1) \in 1 .. a - 1
        BY <1>0
    <2>4. \A i \in 1..n : s[i] = order[at(i)]
        BY <1>1, <1>2, <2>2, <2>3
    <2> QED
        BY <2>2, <2>4, LenProperties
<1> HIDE DEF s
<1>4. \A i \in 1..n : at(i) \in 1..n
    BY <1>0
<1>5. \A i, j \in 1..n : at(i) = at(j) => i = j
    BY <1>0
<1>6. \A k \in 1..n : \E i \in 1..n : at(i) = k
    <2> SUFFICES ASSUME NEW k \in 1..n PROVE \E i \in 1..n : at(i) = k
        OBVIOUS
    <2>1. CASE k >= a
        <3>1. k - a + 1 \in 1..n /\ at(k - a + 1) = k
            BY <1>0, <2>1
        <3> QED
            BY <3>1
    <2>2. CASE k < a
        <3>1. k + (n - a + 1) \in 1..n /\ at(k + (n - a + 1)) = k
            BY <1>0, <2>2
        <3> QED
            BY <3>1
    <2> QED
        BY <1>0, <2>1, <2>2
<1> HIDE DEF at
<1>7. IsInjective(s)
    BY <1>0, <1>3, <1>4, <1>5 DEF IsInjective
<1>8. Range(s) = Seated
    <2>1. \A p \in Range(s) : p \in Seated
        BY <1>0, <1>3, <1>4 DEF Range
    <2>2. \A p \in Seated : \E k \in 1..n : p = order[k]
        BY <1>0 DEF Seated, Range
    <2>3. ASSUME NEW p \in Seated
          PROVE  p \in Range(s)
        <3>1. PICK k \in 1..n : p = order[k]
            BY <2>2
        <3>2. PICK i \in 1..n : at(i) = k
            BY <1>6
        <3>3. i \in DOMAIN s /\ s[i] = p
            BY <1>3, <3>1, <3>2
        <3> QED
            BY <3>3 DEF Range
    <2> QED
        BY <2>1, <2>3
<1>9. FromAttacker = Keeping(s, Playing)
    BY DEF FromAttacker, s, x, y, a, n
<1>10. Range(s) \cap Playing = Playing
    BY <1>8 DEF Playing
<1> QED
    BY <1>3, <1>7, <1>9, <1>10, KeepingFact

-----------------------------------------------------------------------------
\* Every card is in one place: in a hand, in the deck, on the table, thrown
\* away or laid out.
Sorted(h, drawn, table, thrown, laid) ==
    /\ \A p, q \in Seated : p # q => h[p] \cap h[q] = {}
    /\ \A p \in Seated : h[p] \cap (drawn \cup table \cup thrown \cup laid) = {}
    /\ drawn \cap (table \cup thrown \cup laid) = {}
    /\ table \cap (thrown \cup laid) = {}
    /\ thrown \cap laid = {}
    /\ \A c \in Pack : c \in drawn \cup table \cup thrown \cup laid \/ \E p \in Seated : c \in h[p]

\* What moves cards about keeps them sorted: a player puts a card down.
LEMMA PutDown ==
    ASSUME NEW h \in Held, NEW drawn, NEW table, NEW thrown, NEW laid,
           Sorted(h, drawn, table, thrown, laid),
           NEW p \in Seated, NEW c \in h[p], NEW less \in Held,
           less[p] = h[p] \ {c}, \A q \in Seated : q # p => less[q] = h[q]
    PROVE  /\ Sorted(less, drawn, table \cup {c}, thrown, laid)
           /\ Sorted(less, drawn, table, thrown, laid \cup {c})
<1>1. less \in Held /\ \A q \in Seated : less[q] = IF q = p THEN h[p] \ {c} ELSE h[q]
    OBVIOUS
<1>2. \A q \in Seated : q # p => c \notin h[q]
    BY DEF Sorted
<1>3. c \notin drawn \cup table \cup thrown \cup laid
    BY DEF Sorted
<1>4. \A q \in Seated : c \notin less[q] /\ less[q] \subseteq h[q]
    BY <1>1, <1>2
<1>5. \A d \in Pack : d # c => \A q \in Seated : d \in h[q] => d \in less[q]
    BY <1>1
<1>6. Sorted(less, drawn, table \cup {c}, thrown, laid)
    BY <1>3, <1>4, <1>5 DEF Sorted
<1>7. Sorted(less, drawn, table, thrown, laid \cup {c})
    BY <1>3, <1>4, <1>5 DEF Sorted
<1> QED
    BY <1>1, <1>6, <1>7

\* A player takes up all that lies on the table.
LEMMA TakenUp ==
    ASSUME NEW h \in Held, NEW drawn, NEW table \in SUBSET Pack, NEW thrown, NEW laid,
           Sorted(h, drawn, table, thrown, laid),
           NEW p \in Seated, NEW more, more = [h EXCEPT ![p] = @ \cup table]
    PROVE  more \in Held /\ Sorted(more, drawn, {}, thrown, laid)
<1>1. more \in Held /\ \A q \in Seated : more[q] = IF q = p THEN h[p] \cup table ELSE h[q]
    BY DEF Held
<1>2. \A q, r \in Seated : q # r => more[q] \cap more[r] = {}
    BY <1>1 DEF Sorted
<1>3. \A q \in Seated : more[q] \cap (drawn \cup {} \cup thrown \cup laid) = {}
    BY <1>1 DEF Sorted
<1>4. \A c \in Pack : c \in drawn \cup {} \cup thrown \cup laid \/ \E q \in Seated : c \in more[q]
    BY <1>1 DEF Sorted
<1> QED
    BY <1>1, <1>2, <1>3, <1>4 DEF Sorted

\* The table is thrown away.
LEMMA ThrownAway ==
    ASSUME NEW h, NEW drawn, NEW table, NEW thrown, NEW laid,
           Sorted(h, drawn, table, thrown, laid)
    PROVE  Sorted(h, drawn, {}, thrown \cup table, laid)
BY DEF Sorted

\* The players draw from the deck.
LEMMA HandedOut ==
    ASSUME NEW h \in Held, NEW table, NEW thrown, NEW laid,
           Sorted(h, Range(deck), table, thrown, laid),
           NEW players, NEW given, NEW rest, HandsOut(h, players, given, rest),
           NEW more, more = [p \in Seated |-> h[p] \cup given[p]]
    PROVE  more \in Held /\ Sorted(more, Range(rest), table, thrown, laid)
<1> DEFINE D == Range(deck)
           R == Range(rest)
<1>1. /\ given \in Held /\ R \subseteq D
      /\ \A p \in Seated : given[p] \subseteq D /\ given[p] \cap R = {}
      /\ \A p, q \in Seated : p # q => given[p] \cap given[q] = {}
      /\ \A c \in D : c \in R \/ \E p \in Seated : c \in given[p]
    BY DEF HandsOut
<1> HIDE DEF D, R
<1>2. more \in Held /\ \A p \in Seated : more[p] = h[p] \cup given[p]
    BY <1>1 DEF Held
<1>3. Sorted(h, D, table, thrown, laid)
    BY DEF D
<1>4. \A p, q \in Seated : p # q => more[p] \cap more[q] = {}
    <2> SUFFICES ASSUME NEW p \in Seated, NEW q \in Seated, p # q, NEW c \in more[p], c \in more[q]
                 PROVE  FALSE
        OBVIOUS
    <2>1. h[p] \cap h[q] = {} /\ h[p] \cap D = {} /\ h[q] \cap D = {}
        BY <1>3 DEF Sorted
    <2> QED
        BY <1>1, <1>2, <2>1
<1>5. \A p \in Seated : more[p] \cap (R \cup table \cup thrown \cup laid) = {}
    <2> SUFFICES ASSUME NEW p \in Seated, NEW c \in more[p], c \in R \cup table \cup thrown \cup laid
                 PROVE  FALSE
        OBVIOUS
    <2>1. h[p] \cap (D \cup table \cup thrown \cup laid) = {}
             /\ D \cap (table \cup thrown \cup laid) = {}
        BY <1>3 DEF Sorted
    <2>2. given[p] \subseteq D /\ given[p] \cap R = {}
        BY <1>1
    <2> QED
        BY <1>1, <1>2, <2>1, <2>2
<1>6. R \cap (table \cup thrown \cup laid) = {}
    BY <1>1, <1>3 DEF Sorted
<1>7. ASSUME NEW c \in Pack
      PROVE  c \in R \cup table \cup thrown \cup laid \/ \E p \in Seated : c \in more[p]
    <2>1. CASE c \in D
        BY <1>1, <1>2, <2>1
    <2>2. CASE c \notin D
        <3>1. c \in table \cup thrown \cup laid \/ \E p \in Seated : c \in h[p]
            BY <1>3, <2>2 DEF Sorted
        <3> QED
            BY <1>2, <3>1
    <2> QED
        BY <2>1, <2>2
<1>8. table \cap (thrown \cup laid) = {} /\ thrown \cap laid = {}
    BY <1>3 DEF Sorted
<1>9. Sorted(more, R, table, thrown, laid)
    BY <1>4, <1>5, <1>6, <1>7, <1>8 DEF Sorted
<1> QED
    BY <1>2, <1>9 DEF R

-----------------------------------------------------------------------------
\* Counting: where cards are sorted, the counts add up to the pack.
InHands(h) == MapThenSumSet(LAMBDA p : Cardinality(h[p]), Seated)

\* The number of cards in hands is a sum over the players.
LEMMA InHandsIsSum ==
    ASSUME NEW h, IsFiniteSet(Seated), NEW f, \A p \in Seated : f[p] = Cardinality(h[p]) /\ f[p] \in Int
    PROVE  InHands(h) = SumOver(f, Seated)
<1> DEFINE it == CHOOSE it : it = [s \in SUBSET Seated |-> IF s = {} THEN 0
                                      ELSE Cardinality(h[Pick(s)]) + it[s \ {Pick(s)}]]
<1>1. InHands(h) = it[Seated]
    BY DEF InHands, MapThenSumSet, MapThenFoldSet, Pick
<1>2. PICK a \in [SUBSET Seated -> Int] : IsSum(a, f, Seated) /\ SumOver(f, Seated) = a[Seated]
    BY SumUnfolds
<1>3. \A s \in SUBSET Seated : s # {} => f[Pick(s)] = Cardinality(h[Pick(s)])
    BY PickIsIn
<1>4. a = [s \in SUBSET Seated |-> IF s = {} THEN 0
                                      ELSE Cardinality(h[Pick(s)]) + a[s \ {Pick(s)}]]
    BY <1>2, <1>3 DEF IsSum
<1>5. it = [s \in SUBSET Seated |-> IF s = {} THEN 0
                                      ELSE Cardinality(h[Pick(s)]) + it[s \ {Pick(s)}]]
    BY <1>4
<1> HIDE DEF it
<1>6. IsSum(it, f, Seated)
    BY <1>3, <1>5 DEF IsSum
<1>7. it[Seated] = a[Seated]
    BY <1>2, <1>6, SumsAgree
<1> QED
    BY <1>1, <1>2, <1>7

\* When no card is in two hands, the hands together have as many cards as each
\* of them added up.
LEMMA HandsAddUp ==
    ASSUME order \in Tables, NEW h \in Held, \A p, q \in Seated : p # q => h[p] \cap h[q] = {}
    PROVE  /\ IsFiniteSet(UNION {h[p] : p \in Seated})
           /\ InHands(h) = Cardinality(UNION {h[p] : p \in Seated})
<1> DEFINE f == [p \in Seated |-> Cardinality(h[p])]
           U(E) == UNION {h[p] : p \in E}
           G == {n \in Nat : \A E \in SUBSET Seated : Cardinality(E) = n =>
                                IsFiniteSet(U(E)) /\ SumOver(f, E) = Cardinality(U(E))}
<1>0. IsFiniteSet(Seated) /\ \A E \in SUBSET Seated : IsFiniteSet(E) /\ Cardinality(E) \in Nat
    BY SeatedFinite, FS_Subset, FS_CardinalityType
<1>1. \A p \in Seated : f[p] = Cardinality(h[p]) /\ f[p] \in Nat /\ IsFiniteSet(h[p])
    BY HandsFinite
<1> HIDE DEF f
<1>2. 0 \in G
    <2>1. \A E \in SUBSET Seated : Cardinality(E) = 0 => E = {}
        BY <1>0, FS_EmptySet
    <2>2. U({}) = {}
        OBVIOUS
    <2>3. IsFiniteSet(U({})) /\ SumOver(f, {}) = Cardinality(U({}))
        BY <2>2, SumEmpty, FS_EmptySet
    <2> HIDE DEF U
    <2> QED
        BY <2>1, <2>3
<1>3. ASSUME NEW n \in G
      PROVE  n + 1 \in G
    <2> SUFFICES ASSUME NEW E \in SUBSET Seated, Cardinality(E) = n + 1
                 PROVE  IsFiniteSet(U(E)) /\ SumOver(f, E) = Cardinality(U(E))
        OBVIOUS
    <2>1. n \in Nat /\ E # {}
        <3>1. n + 1 # 0 /\ Cardinality({}) = 0
            BY FS_EmptySet
        <3> QED
            BY <3>1
    <2>2. PICK y \in E : TRUE
        BY <2>1
    <2> DEFINE F == E \ {y}
    <2>3. F \in SUBSET Seated /\ Cardinality(F) = n
        BY <1>0, <2>1, Smaller
    <2>4. IsFiniteSet(U(F)) /\ SumOver(f, F) = Cardinality(U(F))
        BY <2>3
    <2>5. U(E) = U(F) \cup h[y] /\ U(F) \cap h[y] = {}
        BY <2>2
    <2>6. SumOver(f, E) = SumOver(f, F) + f[y]
        <3>1. \A p \in E : f[p] \in Int
            BY <1>1
        <3> QED
            BY <1>0, <3>1, SumAdds
    <2>7. IsFiniteSet(h[y]) /\ f[y] = Cardinality(h[y])
        BY <1>1
    <2> HIDE DEF U, F
    <2>8. /\ IsFiniteSet(U(F) \cup h[y])
          /\ Cardinality(U(F) \cup h[y]) = Cardinality(U(F)) + Cardinality(h[y]) - Cardinality(U(F) \cap h[y])
        BY <2>4, <2>7, FS_Union
    <2>9. Cardinality(U(F) \cap h[y]) = 0 /\ Cardinality(U(F)) \in Nat /\ Cardinality(h[y]) \in Nat
        BY <2>4, <2>5, <2>7, FS_EmptySet, FS_CardinalityType
    <2> QED
        BY <2>4, <2>5, <2>6, <2>7, <2>8, <2>9
<1>4. Cardinality(Seated) \in G
    <2> HIDE DEF G
    <2>1. G \in SUBSET Nat
        BY DEF G
    <2> QED
        BY <1>0, <1>2, <1>3, <2>1, Induction
<1>5. IsFiniteSet(U(Seated)) /\ SumOver(f, Seated) = Cardinality(U(Seated))
    BY <1>4
<1>6. InHands(h) = SumOver(f, Seated)
    BY <1>0, <1>1, InHandsIsSum
<1> QED
    BY <1>5, <1>6

\* Two heaps without a common card.
LEMMA TwoHeaps ==
    ASSUME NEW S, NEW T, IsFiniteSet(S), IsFiniteSet(T), S \cap T = {}
    PROVE  IsFiniteSet(S \cup T) /\ Cardinality(S \cup T) = Cardinality(S) + Cardinality(T)
<1>1. Cardinality(S \cap T) = 0 /\ Cardinality(S) \in Nat /\ Cardinality(T) \in Nat
    BY FS_EmptySet, FS_CardinalityType
<1>2. /\ IsFiniteSet(S \cup T)
      /\ Cardinality(S \cup T) = Cardinality(S) + Cardinality(T) - Cardinality(S \cap T)
    BY FS_Union
<1> QED
    BY <1>1, <1>2

\* As many places as cards: a bijection.
LEMMA SameNumber ==
    ASSUME NEW S, NEW T, NEW f \in [S -> T], IsFiniteSet(S),
           \A x, y \in S : f[x] = f[y] => x = y, \A z \in T : \E x \in S : f[x] = z
    PROVE  Cardinality(T) = Cardinality(S) /\ IsFiniteSet(T)
<1>1. f \in Bijection(S, T)
    BY DEF Bijection, Injection, Surjection, IsInjective
<1>2. ExistsBijection(S, T)
    BY <1>1 DEF ExistsBijection
<1> QED
    BY <1>2, FS_Bijection

\* The table: no card lies on it twice.
Duels == [attack : Pack, defend : Pack \cup {NoCard}]
NoneTwice(b) ==
    /\ \A d, e \in b : d.attack = e.attack => d = e
    /\ \A d, e \in b : d.defend = e.defend /\ d.defend # NoCard => d = e
    /\ \A d, e \in b : d.attack # e.defend

\* What lies on the table is of the pack.
LEMMA TableFact ==
    ASSUME bout \subseteq Duels
    PROVE  /\ OnTable \subseteq Pack
           /\ \A e \in bout : e.attack \in OnTable /\ (e.defend # NoCard => e.defend \in OnTable)
<1>1. \A e \in bout : e.attack \in Pack /\ (e.defend # NoCard => e.defend \in Pack)
    BY DEF Duels
<1> QED
    BY <1>1 DEF OnTable, Open

\* The table has a card for each attack and one more for each that is beaten.
LEMMA TableCount ==
    ASSUME bout \subseteq Duels, NoneTwice(bout)
    PROVE  /\ IsFiniteSet(bout) /\ IsFiniteSet(OnTable)
           /\ Cardinality(OnTable) = Cardinality(bout) + Cardinality(bout \ Open)
<1> DEFINE A == {e.attack : e \in bout}
           D == {e.defend : e \in bout \ Open}
           f == [e \in bout |-> e.attack]
           g == [e \in bout \ Open |-> e.defend]
<1>1. \A e \in bout : e.attack \in Pack /\ (e.defend # NoCard => e.defend \in Pack)
    BY DEF Duels
<1>2. f \in [bout -> Pack] /\ \A d, e \in bout : f[d] = f[e] => d = e
    BY <1>1 DEF NoneTwice
<1>3. IsFiniteSet(bout)
    <2>1. f \in Injection(bout, Pack)
        BY <1>2 DEF Injection, IsInjective
    <2> QED
        BY <2>1, PackAssumption, FS_Injection
<1>4. IsFiniteSet(A) /\ Cardinality(A) = Cardinality(bout)
    <2>1. f \in [bout -> A] /\ (\A z \in A : \E e \in bout : f[e] = z)
        OBVIOUS
    <2> HIDE DEF f, A
    <2> QED
        BY <1>2, <1>3, <2>1, SameNumber
<1>5. IsFiniteSet(bout \ Open)
    BY <1>3, FS_Difference
<1>6. IsFiniteSet(D) /\ Cardinality(D) = Cardinality(bout \ Open)
    <2>1. g \in [bout \ Open -> D] /\ (\A z \in D : \E e \in bout \ Open : g[e] = z)
        OBVIOUS
    <2>2. \A d, e \in bout \ Open : g[d] = g[e] => d = e
        BY DEF NoneTwice, Open
    <2> HIDE DEF g, D
    <2> QED
        BY <1>5, <2>1, <2>2, SameNumber
<1>7. A \cap D = {}
    BY DEF NoneTwice
<1>8. OnTable = A \cup D
    BY DEF OnTable
<1> HIDE DEF A, D
<1>9. IsFiniteSet(A \cup D) /\ Cardinality(A \cup D) = Cardinality(A) + Cardinality(D)
    BY <1>4, <1>6, <1>7, TwoHeaps
<1> QED
    BY <1>3, <1>4, <1>6, <1>8, <1>9

CardsTyped ==
    /\ order \in Tables
    /\ hands \in Held
    /\ deck \in Seq(Pack) /\ IsInjective(deck)
    /\ bout \subseteq Duels /\ NoneTwice(bout)
    /\ discard \subseteq Pack
    /\ layout \subseteq Pack

CardsSorted == Sorted(hands, Range(deck), OnTable, discard, layout)

\* Cards that are sorted are each in one place, and their numbers add up.
LEMMA EveryCardOnce == CardsTyped /\ CardsSorted => CardsOnce
<1> SUFFICES ASSUME CardsTyped, CardsSorted PROVE CardsOnce
    OBVIOUS
<1> DEFINE H == UNION {hands[p] : p \in Seated}
           D == Range(deck)
           T == OnTable
<1>1. Sorted(hands, D, T, discard, layout)
    BY DEF CardsSorted
<1>2. H \subseteq Pack /\ D \subseteq Pack /\ T \subseteq Pack /\ discard \subseteq Pack
         /\ layout \subseteq Pack
    <2>1. \A p \in Seated : hands[p] \subseteq Pack
        BY DEF CardsTyped, Held
    <2>2. D \subseteq Pack
        BY DEF CardsTyped, Range
    <2>3. T \subseteq Pack
        BY TableFact DEF CardsTyped
    <2> QED
        BY <2>1, <2>2, <2>3 DEF CardsTyped
<1>3. IsFiniteSet(H) /\ InHands(hands) = Cardinality(H)
    <2>1. \A p, q \in Seated : p # q => hands[p] \cap hands[q] = {}
        BY <1>1 DEF Sorted
    <2> QED
        BY <2>1, HandsAddUp DEF CardsTyped
<1>4. IsFiniteSet(D) /\ Cardinality(D) = Len(deck) /\ Len(deck) \in Nat
    <2>1. deck \in Seq(Pack) /\ IsInjective(deck) /\ Len(deck) \in Nat /\ DOMAIN deck = 1..Len(deck)
        BY DEF CardsTyped
    <2>2. deck \in [1..Len(deck) -> D] /\ \A z \in D : \E i \in 1..Len(deck) : deck[i] = z
        BY <2>1 DEF Range
    <2>3. \A i, j \in 1..Len(deck) : deck[i] = deck[j] => i = j
        BY <2>1 DEF IsInjective
    <2>4. IsFiniteSet(1..Len(deck)) /\ Cardinality(1..Len(deck)) = Len(deck)
        BY <2>1, FS_Interval, SMTT(40)
    <2> HIDE DEF D
    <2> QED
        BY <2>1, <2>2, <2>3, <2>4, SameNumber
<1>5. IsFiniteSet(T) /\ Cardinality(T) = Cardinality(bout) + Cardinality(bout \ Open)
    BY TableCount DEF CardsTyped
<1>6. IsFiniteSet(discard) /\ IsFiniteSet(layout)
    BY <1>2, PackAssumption, FS_Subset
<1>7. H \cup D \cup T \cup discard \cup layout = Pack
    BY <1>1, <1>2 DEF Sorted
<1>8. /\ H \cap D = {} /\ (H \cup D) \cap T = {} /\ (H \cup D \cup T) \cap discard = {}
      /\ (H \cup D \cup T \cup discard) \cap layout = {}
    BY <1>1 DEF Sorted
<1>15. (UNION {hands[p] : p \in Seated}) \cup Range(deck) \cup OnTable \cup discard \cup layout = Pack
    BY <1>7
<1> HIDE DEF H, D, T
<1>9. IsFiniteSet(H \cup D) /\ Cardinality(H \cup D) = Cardinality(H) + Cardinality(D)
    BY <1>3, <1>4, <1>8, TwoHeaps
<1>10. IsFiniteSet(H \cup D \cup T)
          /\ Cardinality(H \cup D \cup T) = Cardinality(H \cup D) + Cardinality(T)
    BY <1>5, <1>8, <1>9, TwoHeaps
<1>11. /\ IsFiniteSet(H \cup D \cup T \cup discard)
       /\ Cardinality(H \cup D \cup T \cup discard) = Cardinality(H \cup D \cup T) + Cardinality(discard)
    BY <1>6, <1>8, <1>10, TwoHeaps
<1>12. Cardinality(H \cup D \cup T \cup discard \cup layout)
          = Cardinality(H \cup D \cup T \cup discard) + Cardinality(layout)
    BY <1>6, <1>8, <1>11, TwoHeaps
<1>13. /\ Cardinality(H) \in Nat /\ Cardinality(D) \in Nat /\ Cardinality(T) \in Nat
       /\ Cardinality(discard) \in Nat /\ Cardinality(layout) \in Nat
       /\ Cardinality(bout) \in Nat /\ Cardinality(bout \ Open) \in Nat
    <2>1. IsFiniteSet(bout) /\ IsFiniteSet(bout \ Open)
        BY TableCount, FS_Difference DEF CardsTyped
    <2> QED
        BY <1>3, <1>4, <1>5, <1>6, <2>1, FS_CardinalityType
<1>14. InHands(hands) + Len(deck) + Cardinality(bout) + Cardinality(bout \ Open)
          + Cardinality(discard) + Cardinality(layout) = Cardinality(Pack)
    <2>1. Cardinality(Pack) = Cardinality(H \cup D \cup T \cup discard) + Cardinality(layout)
        BY <1>7, <1>12
    <2>2. Cardinality(H \cup D \cup T) = Cardinality(H) + Cardinality(D) + Cardinality(T)
        BY <1>9, <1>10
    <2>3. Cardinality(Pack) = Cardinality(H) + Cardinality(D) + Cardinality(T)
                                + Cardinality(discard) + Cardinality(layout)
        BY <1>11, <2>1, <2>2
    <2>4. /\ InHands(hands) = Cardinality(H) /\ Len(deck) = Cardinality(D)
          /\ Cardinality(T) = Cardinality(bout) + Cardinality(bout \ Open)
        BY <1>3, <1>4, <1>5
    <2> QED
        BY <1>13, <2>3, <2>4
<1> QED
    BY <1>14, <1>15 DEF CardsOnce, InHands

-----------------------------------------------------------------------------
\* One list after another.
LEMMA ListAfterList ==
    ASSUME NEW X, NEW s \in Seq(X), NEW t \in Seq(X)
    PROVE  /\ s \o t \in Seq(X) /\ Range(s \o t) = Range(s) \cup Range(t)
           /\ Len(s \o t) = Len(s) + Len(t)
           /\ \A i \in 1..Len(s) : (s \o t)[i] = s[i]
           /\ \A j \in 1..Len(t) : (s \o t)[Len(s) + j] = t[j]
           /\ IsInjective(s) /\ IsInjective(t) /\ Range(s) \cap Range(t) = {} => IsInjective(s \o t)
<1> DEFINE c == s \o t
           m == Len(s)
           n == Len(t)
<1>1. /\ m \in Nat /\ n \in Nat /\ DOMAIN s = 1..m /\ DOMAIN t = 1..n
      /\ c \in Seq(X) /\ Len(c) = m + n /\ DOMAIN c = 1..m + n
      /\ \A i \in 1..m + n : c[i] = IF i <= m THEN s[i] ELSE t[i - m]
    BY ConcatProperties, LenProperties
<1> HIDE DEF c, m, n
<1>2. \A i \in 1..m : i \in 1..m + n /\ c[i] = s[i]
    BY <1>1
<1>3. \A j \in 1..n : m + j \in 1..m + n /\ c[m + j] = t[j]
    <2> SUFFICES ASSUME NEW j \in 1..n PROVE m + j \in 1..m + n /\ c[m + j] = t[j]
        OBVIOUS
    <2>1. m + j \in 1..m + n /\ ~(m + j <= m) /\ (m + j) - m = j
        BY <1>1
    <2> QED
        BY <1>1, <2>1
<1>4. \A i \in 1..m + n : i \in 1..m \/ \E j \in 1..n : i = m + j
    <2> SUFFICES ASSUME NEW i \in 1..m + n, i \notin 1..m PROVE \E j \in 1..n : i = m + j
        OBVIOUS
    <2>1. i - m \in 1..n /\ i = m + (i - m)
        BY <1>1
    <2> QED
        BY <2>1
<1>5. Range(c) = Range(s) \cup Range(t)
    <2>1. \A x \in Range(c) : x \in Range(s) \cup Range(t)
        <3> SUFFICES ASSUME NEW i \in 1..m + n PROVE c[i] \in Range(s) \cup Range(t)
            BY <1>1 DEF Range
        <3>1. CASE i \in 1..m
            BY <1>1, <1>2, <3>1 DEF Range
        <3>2. ASSUME NEW j \in 1..n, i = m + j PROVE c[i] \in Range(t)
            BY <1>1, <1>3, <3>2 DEF Range
        <3> QED
            BY <1>4, <3>1, <3>2
    <2>2. \A x \in Range(s) : x \in Range(c)
        BY <1>1, <1>2 DEF Range
    <2>3. \A x \in Range(t) : x \in Range(c)
        <3> SUFFICES ASSUME NEW j \in 1..n PROVE t[j] \in Range(c)
            BY <1>1 DEF Range
        <3>1. m + j \in DOMAIN c /\ c[m + j] = t[j]
            BY <1>1, <1>3
        <3> QED
            BY <3>1 DEF Range
    <2> QED
        BY <2>1, <2>2, <2>3
<1>6. ASSUME IsInjective(s), IsInjective(t), Range(s) \cap Range(t) = {}
      PROVE  IsInjective(c)
    <2> SUFFICES ASSUME NEW i \in 1..m + n, NEW k \in 1..m + n, c[i] = c[k] PROVE i = k
        BY <1>1 DEF IsInjective
    <2>1. \A x \in 1..m : s[x] \in Range(s)
        BY <1>1 DEF Range
    <2>2. \A x \in 1..n : t[x] \in Range(t)
        BY <1>1 DEF Range
    <2>3. \A x, y \in 1..m : s[x] = s[y] => x = y
        BY <1>1, <1>6 DEF IsInjective
    <2>4. \A x, y \in 1..n : t[x] = t[y] => x = y
        BY <1>1, <1>6 DEF IsInjective
    <2>5. CASE i \in 1..m /\ k \in 1..m
        BY <1>2, <2>3, <2>5
    <2>6. ASSUME NEW x \in 1..m, NEW y \in 1..n, c[x] = c[m + y] PROVE FALSE
        <3>1. s[x] = t[y]
            BY <1>2, <1>3, <2>6
        <3> QED
            BY <1>6, <2>1, <2>2, <3>1
    <2>7. ASSUME NEW x \in 1..n, NEW y \in 1..n, i = m + x, k = m + y PROVE i = k
        BY <1>3, <2>4, <2>7
    <2> QED
        BY <1>4, <2>5, <2>6, <2>7
<1> QED
    BY <1>1, <1>2, <1>3, <1>5, <1>6 DEF c, m, n

\* How a bout ends: the hands are filled from the deck, whoever has run out is
\* placed, and with one player left the game is over.
Ended(how, held, given, rest, placed, left) ==
    /\ HandsOut(held, FromAttacker, given, rest)
    /\ hands' = [p \in Seated |-> held[p] \cup given[p]]
    /\ deck' = rest
    /\ placed \in Seq(Seated) /\ IsInjective(placed)
    /\ \E more \in Seq(Seated) : placed = gone \o more
    /\ Range(placed) = Out \cup {p \in Playing : hands'[p] = {} /\ deck' = << >>}
    /\ left \in Seq(Seated) /\ IsInjective(left) /\ Range(left) = Seated \ Range(placed)
    /\ bout' = {} /\ order' = order
    /\ IF Len(left) <= 1
       THEN gone' = placed \o left /\ phase' = "finished" /\ UNCHANGED <<attacker, defender>>
       ELSE /\ gone' = placed /\ phase' = "active"
            /\ attacker' = NextAttacker(how, Range(placed))
            /\ defender' = NextPlayer(attacker', Range(placed))

\* finalizeBout ends the bout so.
LEMMA BoutEnds ==
    ASSUME CardsTyped, gone \in Seq(Seated), IsInjective(gone), attacker \in Seated,
           NEW how, NEW held \in Held, FinalizeBout(how, held)
    PROVE  \E given, rest, placed, left : Ended(how, held, given, rest, placed, left)
<1> DEFINE refilled == RefillHands(held, FromAttacker)
           empty == {p \in Playing : refilled.hands[p] = {} /\ refilled.deck = << >>}
           more == Keeping(FromAttacker, empty)
           placed == gone \o more
           left == Keeping(order, Seated \ Range(placed))
           over == Len(left) <= 1
<1>1. /\ FromAttacker \in Seq(Seated) /\ IsInjective(FromAttacker)
      /\ Range(FromAttacker) = Playing
    BY FromAttackerFact DEF CardsTyped
<1>2. PICK given, rest :
         /\ HandsOut(held, FromAttacker, given, rest)
         /\ refilled = [hands |-> [p \in Seated |-> held[p] \cup given[p]], deck |-> rest]
    BY <1>1, RefillFact DEF CardsTyped
<1>3. /\ hands' = refilled.hands /\ deck' = refilled.deck
      /\ gone' = placed \o LastPlaces(left, over)
      /\ phase' = IF over THEN "finished" ELSE "active"
      /\ attacker' = IF over THEN attacker ELSE NextAttacker(how, Range(placed))
      /\ defender' = IF over THEN defender ELSE NextPlayer(attacker', Range(placed))
      /\ bout' = {} /\ order' = order
    BY DEF FinalizeBout
<1>4. hands' = [p \in Seated |-> held[p] \cup given[p]] /\ deck' = rest
    BY <1>2, <1>3
<1>5. empty = {p \in Playing : hands'[p] = {} /\ deck' = << >>}
    BY <1>3
<1> HIDE DEF refilled, empty
<1>6. more \in Seq(Seated) /\ IsInjective(more) /\ Range(more) = empty
    <2>1. Playing \cap empty = empty
        BY DEF empty
    <2> QED
        BY <1>1, <2>1, KeepingFact
<1> HIDE DEF more
<1>7. Range(gone) \cap Range(more) = {}
    BY <1>6 DEF empty, Playing, Out
<1>8. placed \in Seq(Seated) /\ IsInjective(placed) /\ Range(placed) = Out \cup empty
    BY <1>6, <1>7, ListAfterList DEF Out
<1>9. \E m \in Seq(Seated) : placed = gone \o m
    BY <1>6
<1> HIDE DEF placed
<1>10. left \in Seq(Seated) /\ IsInjective(left) /\ Range(left) = Seated \ Range(placed)
    <2>1. order \in Seq(Seated) /\ IsInjective(order)
        BY SeatsFact DEF CardsTyped
    <2>2. Range(order) = Seated
        BY DEF Seated
    <2> QED
        BY <2>1, <2>2, KeepingFact
<1> HIDE DEF left
<1>11. placed \o << >> = placed
    BY <1>8, ConcatEmptySeq
<1>12. IF Len(left) <= 1
       THEN gone' = placed \o left /\ phase' = "finished" /\ UNCHANGED <<attacker, defender>>
       ELSE /\ gone' = placed /\ phase' = "active"
            /\ attacker' = NextAttacker(how, Range(placed))
            /\ defender' = NextPlayer(attacker', Range(placed))
    <2>1. CASE Len(left) <= 1
        BY <1>3, <2>1 DEF LastPlaces
    <2>2. CASE ~(Len(left) <= 1)
        BY <1>3, <1>11, <2>2 DEF LastPlaces
    <2> QED
        BY <2>1, <2>2
<1>13. Range(placed) = Out \cup {p \in Playing : hands'[p] = {} /\ deck' = << >>}
    BY <1>5, <1>8
<1>14. Ended(how, held, given, rest, placed, left)
    BY <1>2, <1>3, <1>4, <1>8, <1>9, <1>10, <1>12, <1>13 DEF Ended
<1> QED
    BY <1>14

-----------------------------------------------------------------------------
\* The inductive invariant.  Durak: the roles, who is out and without cards,
\* and a table whose open attacks the defender has cards for.
DurakTyped ==
    /\ gone \in Seq(Seated) /\ IsInjective(gone)
    /\ attacker \in Seated /\ defender \in Seated /\ attacker # defender
    /\ phase \in {"active", "finished"}
    /\ layout = {}
DurakRoles == {attacker, defender} \subseteq Playing
DurakHands ==
    /\ \A p \in Out : hands[p] = {} /\ deck = << >>
    /\ bout = {} => \A p \in Playing : hands[p] # {}
DurakBout ==
    /\ Cardinality(Open) <= Cardinality(hands[defender])
    /\ Cardinality(bout) <= MaxAttacks
DurakActive == DurakRoles /\ DurakHands /\ DurakBout
DurakOver ==
    /\ Out = Seated
    /\ deck = << >> /\ bout = {}
    /\ \A i \in 1..Len(gone) - 1 : hands[gone[i]] = {}
DurakInv ==
    /\ DurakTyped
    /\ phase = "active" => DurakActive
    /\ phase = "finished" => DurakOver

\* Nine: the runs of the layout, and one empty hand at most.
Runs(laid) ==
    \A c \in laid : \A r \in (9 .. c.rank) \cup (c.rank .. 9) : [suit |-> c.suit, rank |-> r] \in laid
NineTyped ==
    /\ deck = << >> /\ bout = {} /\ discard = {}
    /\ phase \in {"active", "finished"}
    /\ turnPlayer \in Seated
    /\ Runs(layout)
NineInv ==
    /\ NineTyped
    /\ phase = "active" => gone = << >> /\ \A p \in Seated : hands[p] # {}
    /\ phase = "finished" =>
          \E p \in Seated : gone = <<p>> /\ \A q \in Seated : hands[q] = {} <=> q = p

CardsInv ==
    /\ game \in {"durak", "nine"}
    /\ CardsTyped /\ CardsSorted
    /\ InDurak => DurakInv
    /\ InNine => NineInv

\* An attack lies on the table as one more open card.
LEMMA AttackOnTable ==
    ASSUME bout \subseteq Duels, NoneTwice(bout), NEW card \in Pack, card \notin OnTable,
           bout' = bout \cup {[attack |-> card, defend |-> NoCard]}
    PROVE  /\ bout' \subseteq Duels /\ NoneTwice(bout')
           /\ OnTable' = OnTable \cup {card}
           /\ Open' = Open \cup {[attack |-> card, defend |-> NoCard]}
<1> DEFINE new == [attack |-> card, defend |-> NoCard]
<1>1. new \in Duels /\ new.attack = card /\ new.defend = NoCard
    BY DEF Duels
<1>2. \A e \in bout : e.attack \in OnTable /\ (e.defend # NoCard => e.defend \in OnTable)
    BY TableFact
<1>3. NoCard \notin Pack
    BY DurakAssumption
<1>4. bout' = bout \cup {new}
    OBVIOUS
<1> HIDE DEF new
<1>5. bout' \subseteq Duels
    BY <1>1, <1>4
<1>6. NoneTwice(bout')
    <2>1. \A d, e \in bout' : d.attack = e.attack => d = e
        BY <1>1, <1>2, <1>4 DEF NoneTwice
    <2>2. \A d, e \in bout' : d.defend = e.defend /\ d.defend # NoCard => d = e
        BY <1>1, <1>2, <1>4 DEF NoneTwice
    <2>3. \A d, e \in bout' : d.attack # e.defend
        <3>1. \A e \in bout : e.attack \in Pack
            BY DEF Duels
        <3> QED
            BY <1>1, <1>2, <1>3, <1>4, <3>1 DEF NoneTwice
    <2> QED
        BY <2>1, <2>2, <2>3 DEF NoneTwice
<1>7. Open' = Open \cup {new}
    BY <1>1, <1>4 DEF Open
<1>8. OnTable' = OnTable \cup {card}
    <2>1. bout' \ Open' = bout \ Open
        BY <1>1, <1>4, <1>7 DEF Open
    <2>2. OnTable' = {e.attack : e \in bout'} \cup {e.defend : e \in bout' \ Open'}
        BY DEF OnTable
    <2> QED
        BY <1>1, <1>4, <2>1, <2>2 DEF OnTable
<1> QED
    BY <1>5, <1>6, <1>7, <1>8 DEF new

\* A defence closes one open attack.
LEMMA DefenceOnTable ==
    ASSUME bout \subseteq Duels, NoneTwice(bout), NEW card \in Pack, card \notin OnTable,
           NEW e \in Open, bout' = (bout \ {e}) \cup {[e EXCEPT !.defend = card]}
    PROVE  /\ bout' \subseteq Duels /\ NoneTwice(bout')
           /\ OnTable' = OnTable \cup {card}
           /\ Open' = Open \ {e}
<1>0. PICK new : new = [e EXCEPT !.defend = card]
    OBVIOUS
<1>1. new \in Duels /\ new.attack = e.attack /\ new.defend = card /\ e \in bout /\ e.defend = NoCard
    BY <1>0 DEF Duels, Open
<1>2. \A d \in bout : d.attack \in OnTable /\ (d.defend # NoCard => d.defend \in OnTable)
    BY TableFact
<1>3. card # NoCard
    BY DurakAssumption
<1>4. bout' = (bout \ {e}) \cup {new}
    BY <1>0
<1>5. bout' \subseteq Duels
    BY <1>1, <1>4
<1>6. NoneTwice(bout')
    <2>1. \A x, y \in bout' : x.attack = y.attack => x = y
        BY <1>1, <1>4 DEF NoneTwice
    <2>2. \A x, y \in bout' : x.defend = y.defend /\ x.defend # NoCard => x = y
        BY <1>1, <1>2, <1>3, <1>4 DEF NoneTwice
    <2>3. \A x, y \in bout' : x.attack # y.defend
        BY <1>1, <1>2, <1>4 DEF NoneTwice
    <2> QED
        BY <2>1, <2>2, <2>3 DEF NoneTwice
<1>7. Open' = Open \ {e}
    BY <1>1, <1>3, <1>4 DEF Open
<1>8. OnTable' = OnTable \cup {card}
    <2>1. bout' \ Open' = (bout \ Open) \cup {new}
        BY <1>1, <1>3, <1>4, <1>7 DEF Open
    <2>2. OnTable' = {d.attack : d \in bout'} \cup {d.defend : d \in bout' \ Open'}
        BY DEF OnTable
    <2>3. {d.attack : d \in bout'} = {d.attack : d \in bout}
        BY <1>1, <1>4
    <2> QED
        BY <1>1, <2>1, <2>2, <2>3 DEF OnTable
<1> QED
    BY <1>5, <1>6, <1>7, <1>8

\* The next attacker and defender are two players who are still in.
LEMMA RolesMoveOn ==
    ASSUME order \in Tables, NEW how, NEW out \in SUBSET Seated, defender \in Seated,
           NEW x \in Seated \ out, NEW y \in Seated \ out, x # y,
           NEW a, a = NextAttacker(how, out), NEW d, d = NextPlayer(a, out)
    PROVE  a \in Seated \ out /\ d \in Seated \ out /\ a # d
<1>1. \A p \in Seated : NextPlayer(p, out) \in Seated \ out /\ NextPlayer(p, out) # p
    <2> TAKE p \in Seated
    <2>1. CASE x # p
        BY <2>1, NextPlayerFact
    <2>2. CASE y # p
        BY <2>2, NextPlayerFact
    <2> QED
        BY <2>1, <2>2
<1>2. a \in Seated \ out
    BY <1>1 DEF NextAttacker
<1> QED
    BY <1>1, <1>2

\* With one player left at most, everybody but that player is placed.
LEMMA LastOnesPlaced ==
    ASSUME NEW placed \in Seq(Seated), NEW left \in Seq(Seated),
           IsInjective(placed), IsInjective(left),
           Range(left) = Seated \ Range(placed), Len(left) <= 1
    PROVE  /\ placed \o left \in Seq(Seated) /\ IsInjective(placed \o left)
           /\ Range(placed \o left) = Seated
           /\ \A i \in 1..Len(placed \o left) - 1 : (placed \o left)[i] \in Range(placed)
<1>1. Range(placed) \subseteq Seated
    BY DEF Range
<1>2. /\ placed \o left \in Seq(Seated) /\ Range(placed \o left) = Range(placed) \cup Range(left)
      /\ Len(placed \o left) = Len(placed) + Len(left)
      /\ \A i \in 1..Len(placed) : (placed \o left)[i] = placed[i]
      /\ IsInjective(placed \o left)
    BY ListAfterList
<1>3. \A i \in 1..Len(placed) : placed[i] \in Range(placed)
    BY DEF Range
<1>4. Len(placed) \in Nat /\ Len(left) \in Nat
    OBVIOUS
<1>5. \A i \in 1..Len(placed) + Len(left) - 1 : i \in 1..Len(placed)
    BY <1>4
<1> QED
    BY <1>1, <1>2, <1>3, <1>5

\* Two players left at least are two different players.
LEMMA TwoAreLeft ==
    ASSUME NEW left \in Seq(Seated), IsInjective(left), ~(Len(left) <= 1)
    PROVE  \E x, y \in Range(left) : x # y
<1>1. 1 \in DOMAIN left /\ 2 \in DOMAIN left
    OBVIOUS
<1>2. left[1] # left[2] /\ left[1] \in Range(left) /\ left[2] \in Range(left)
    BY <1>1 DEF IsInjective, Range
<1> QED
    BY <1>2

\* A bout that ends keeps the invariant, whatever ended it.
LEMMA BoutIsOver ==
    ASSUME CardsTyped, DurakTyped, DurakActive,
           NEW how, NEW held \in Held, NEW thrown \in SUBSET Pack,
           Sorted(held, Range(deck), {}, thrown, layout), \A p \in Out : held[p] = {},
           FinalizeBout(how, held), discard' = thrown, layout' = layout
    PROVE  CardsTyped' /\ CardsSorted' /\ DurakInv'
<1>1. PICK given, rest, placed, left : Ended(how, held, given, rest, placed, left)
    BY BoutEnds DEF DurakTyped
<1>2. /\ HandsOut(held, FromAttacker, given, rest)
      /\ hands' = [p \in Seated |-> held[p] \cup given[p]]
      /\ deck' = rest
      /\ placed \in Seq(Seated) /\ IsInjective(placed)
      /\ Range(placed) = Out \cup {p \in Playing : hands'[p] = {} /\ deck' = << >>}
      /\ left \in Seq(Seated) /\ IsInjective(left) /\ Range(left) = Seated \ Range(placed)
      /\ bout' = {} /\ order' = order
    BY <1>1 DEF Ended
<1>3. /\ Len(left) <= 1 =>
            gone' = placed \o left /\ phase' = "finished" /\ UNCHANGED <<attacker, defender>>
      /\ ~(Len(left) <= 1) =>
            /\ gone' = placed /\ phase' = "active"
            /\ attacker' = NextAttacker(how, Range(placed))
            /\ defender' = NextPlayer(attacker', Range(placed))
    BY <1>1 DEF Ended
<1>4. Seated' = Seated
    BY <1>2 DEF Seated
<1>5. hands' \in Held /\ Sorted(hands', Range(rest), {}, thrown, layout)
    BY <1>2, HandedOut
<1>6. rest \in Seq(Pack) /\ IsInjective(rest) /\ Range(rest) \subseteq Range(deck)
    BY <1>2 DEF HandsOut
<1>7. Open' = {} /\ OnTable' = {}
    BY <1>2 DEF Open, OnTable
<1>8. CardsTyped'
    <2>1. hands' \in Held'
        BY <1>4, <1>5 DEF Held
    <2>2. bout' \subseteq Duels' /\ NoneTwice(bout')
        BY <1>2 DEF NoneTwice
    <2> QED
        BY <1>2, <1>6, <2>1, <2>2 DEF CardsTyped
<1>9. CardsSorted'
    BY <1>2, <1>4, <1>5, <1>7 DEF CardsSorted, Sorted
<1>10. FromAttacker \in Seq(Seated) /\ IsInjective(FromAttacker) /\ Range(FromAttacker) = Playing
    BY FromAttackerFact DEF CardsTyped, DurakTyped
<1>11. \A p \in Out : p \in Seated /\ given[p] = {}
    <2>1. Out \subseteq Seated
        BY DEF Out, Range, DurakTyped
    <2> QED
        BY <1>2, <1>10, <2>1 DEF HandsOut, Playing
<1>12. \A p \in Range(placed) : hands'[p] = {}
    BY <1>2, <1>11
<1>13. Out # {} => deck' = << >>
    <2> SUFFICES ASSUME Out # {} PROVE rest = << >>
        BY <1>2
    <2>1. deck = << >>
        BY DEF DurakActive, DurakHands
    <2>2. Range(rest) = {}
        BY <1>6, <2>1 DEF Range
    <2>3. 1 \notin DOMAIN rest
        BY <2>2 DEF Range
    <2> QED
        BY <1>6, <2>3
<1>14. Range(placed) # {} => deck' = << >>
    BY <1>2, <1>13
<1>15. Range(placed) \subseteq Seated
    BY <1>2 DEF Range
<1>16. CASE Len(left) <= 1
    <2>1. gone' = placed \o left /\ phase' = "finished" /\ attacker' = attacker /\ defender' = defender
        BY <1>3, <1>16
    <2>2. /\ gone' \in Seq(Seated) /\ IsInjective(gone') /\ Range(gone') = Seated
          /\ \A i \in 1..Len(gone') - 1 : gone'[i] \in Range(placed)
        BY <1>2, <1>16, <2>1, LastOnesPlaced
    <2>3. DurakTyped'
        BY <1>4, <2>1, <2>2 DEF DurakTyped
    <2>4. Range(placed) # {}
        <3> SUFFICES ASSUME Range(placed) = {} PROVE FALSE
            OBVIOUS
        <3>1. attacker \in Range(left) /\ defender \in Range(left) /\ attacker # defender
            BY <1>2 DEF DurakTyped
        <3> QED
            BY <1>2, <1>16, <3>1 DEF Range
    <2>5. DurakOver'
        BY <1>2, <1>4, <1>12, <1>14, <2>2, <2>4 DEF DurakOver, Out
    <2> QED
        BY <1>8, <1>9, <2>1, <2>3, <2>5 DEF DurakInv
<1>17. CASE ~(Len(left) <= 1)
    <2>1. /\ gone' = placed /\ phase' = "active"
          /\ attacker' = NextAttacker(how, Range(placed))
          /\ defender' = NextPlayer(attacker', Range(placed))
        BY <1>3, <1>17
    <2>2. PICK x, y \in Seated \ Range(placed) : x # y
        BY <1>2, <1>17, TwoAreLeft
    <2>3. attacker' \in Seated \ Range(placed) /\ defender' \in Seated \ Range(placed)
             /\ attacker' # defender'
        BY <1>15, <2>1, <2>2, RolesMoveOn DEF CardsTyped, DurakTyped
    <2>4. Out' = Range(placed) /\ Playing' = Seated \ Range(placed)
        BY <1>4, <2>1 DEF Out, Playing
    <2>5. DurakTyped'
        BY <1>2, <1>4, <2>1, <2>3 DEF DurakTyped
    <2>6. DurakRoles'
        BY <2>3, <2>4 DEF DurakRoles
    <2>7. DurakHands'
        <3>1. \A p \in Seated \ Range(placed) : hands'[p] # {}
            <4> SUFFICES ASSUME NEW p \in Seated, p \notin Range(placed), hands'[p] = {} PROVE FALSE
                OBVIOUS
            <4>1. p \in Playing /\ deck' # << >>
                BY <1>2 DEF Playing
            <4> QED
                BY <1>2, <1>10, <4>1 DEF HandsOut
        <3> QED
            BY <1>12, <1>14, <2>4, <3>1 DEF DurakHands
    <2>8. DurakBout'
        <3>1. Cardinality(Open') = 0 /\ Cardinality(bout') = 0
            BY <1>2, <1>7, FS_EmptySet
        <3>2. IsFiniteSet(hands'[defender'])
            BY <1>5, <2>3, HandsFinite
        <3>3. Cardinality(hands'[defender']) \in Nat
            BY <3>2, FS_CardinalityType
        <3> QED
            BY <3>1, <3>3, DurakAssumption DEF DurakBout
    <2> QED
        BY <1>8, <1>9, <2>1, <2>5, <2>6, <2>7, <2>8 DEF DurakInv, DurakActive
<1> QED
    BY <1>16, <1>17

\* The open attacks and the beaten ones are all the attacks.
LEMMA OpenOrBeaten ==
    ASSUME bout \subseteq Duels, NoneTwice(bout)
    PROVE  /\ IsFiniteSet(bout) /\ IsFiniteSet(Open) /\ IsFiniteSet(bout \ Open)
           /\ Cardinality(bout) \in Nat /\ Cardinality(Open) \in Nat /\ Cardinality(bout \ Open) \in Nat
           /\ Cardinality(bout) = Cardinality(Open) + Cardinality(bout \ Open)
<1>1. IsFiniteSet(bout)
    BY TableCount
<1>2. Open \subseteq bout /\ Open \cup (bout \ Open) = bout /\ Open \cap (bout \ Open) = {}
    BY DEF Open
<1>3. IsFiniteSet(Open) /\ IsFiniteSet(bout \ Open)
    BY <1>1, <1>2, FS_Subset
<1>4. Cardinality(bout) = Cardinality(Open) + Cardinality(bout \ Open)
    BY <1>2, <1>3, TwoHeaps
<1> QED
    BY <1>1, <1>3, <1>4, FS_CardinalityType

\* card/attack keeps the invariant: AttacksLeft leaves the defender a card.
LEMMA AttackKeeps ==
    ASSUME CardsTyped, CardsSorted, DurakInv, layout' = layout,
           NEW p \in Seated, NEW card \in hands[p], Attack(p, card)
    PROVE  CardsTyped' /\ CardsSorted' /\ DurakInv'
<1> DEFINE new == [attack |-> card, defend |-> NoCard]
<1>1. /\ phase = "active" /\ p \in Playing /\ p # defender /\ AttacksLeft
      /\ hands' = [hands EXCEPT ![p] = @ \ {card}]
      /\ bout' = bout \cup {new}
      /\ UNCHANGED <<order, gone, phase, deck, attacker, defender, discard>>
    BY DEF Attack, MayAttack, Attackers, Plays
<1>2. card \in Pack /\ card \notin OnTable /\ p \in Seated /\ hands \in Held
    BY DEF CardsTyped, CardsSorted, Held, Sorted
<1>3. /\ bout' \subseteq Duels /\ NoneTwice(bout') /\ OnTable' = OnTable \cup {card}
      /\ Open' = Open \cup {new}
    BY <1>1, <1>2, AttackOnTable DEF CardsTyped
<1>4. hands' \in Held /\ Sorted(hands', Range(deck), OnTable \cup {card}, discard, layout)
    <2>1. PICK less \in Held : less = hands' /\ less[p] = hands[p] \ {card}
                              /\ \A q \in Seated : q # p => less[q] = hands[q]
        BY <1>1, <1>2 DEF Held
    <2>2. Sorted(hands, Range(deck), OnTable, discard, layout)
        BY DEF CardsSorted
    <2>3. hands \in Held /\ p \in Seated /\ card \in hands[p]
        BY <1>2
    <2>4. PICK drawn, table, thrown, laid :
             drawn = Range(deck) /\ table = OnTable /\ thrown = discard /\ laid = layout
        OBVIOUS
    <2>5. Sorted(hands, drawn, table, thrown, laid)
        BY <2>2, <2>4
    <2>6. less \in Held /\ Sorted(less, drawn, table \cup {card}, thrown, laid)
        BY <2>1, <2>3, <2>5, PutDown
    <2> QED
        BY <1>1, <2>1, <2>4, <2>6
<1>5. Seated' = Seated /\ Out' = Out /\ Playing' = Playing
    BY <1>1 DEF Seated, Out, Playing
<1>6. CardsTyped'
    <2>1. hands' \in Held' /\ bout' \subseteq Duels'
        BY <1>3, <1>4, <1>5 DEF Held
    <2> QED
        BY <1>1, <1>3, <2>1 DEF CardsTyped
<1>7. CardsSorted'
    BY <1>1, <1>3, <1>4, <1>5 DEF CardsSorted, Sorted
<1>8. DurakTyped'
    BY <1>1, <1>5 DEF DurakInv, DurakTyped
<1>9. DurakActive /\ defender \in Seated /\ attacker \in Seated
    BY <1>1 DEF DurakInv, DurakTyped
<1>10. \A q \in Seated : q # p => hands'[q] = hands[q]
    BY <1>1, <1>2 DEF Held
<1>11. DurakRoles' /\ DurakHands'
    <2>1. \A q \in Out : q \in Seated /\ q # p
        BY <1>1 DEF DurakInv, DurakTyped, Out, Playing, Range
    <2> QED
        BY <1>1, <1>5, <1>9, <1>10, <2>1 DEF DurakActive, DurakRoles, DurakHands
<1>12. DurakBout'
    <2>1. /\ IsFiniteSet(bout) /\ IsFiniteSet(Open)
          /\ Cardinality(bout) \in Nat /\ Cardinality(Open) \in Nat /\ Cardinality(bout \ Open) \in Nat
          /\ Cardinality(bout) = Cardinality(Open) + Cardinality(bout \ Open)
        BY OpenOrBeaten DEF CardsTyped
    <2>2. /\ Cardinality(bout \cup {new}) <= Cardinality(bout) + 1
          /\ Cardinality(Open \cup {new}) <= Cardinality(Open) + 1
          /\ Cardinality(bout \cup {new}) \in Nat /\ Cardinality(Open \cup {new}) \in Nat
        <3> HIDE DEF new
        <3>1. IsFiniteSet(bout \cup {new}) /\ IsFiniteSet(Open \cup {new})
            BY <2>1, FS_AddElement
        <3>2. /\ Cardinality(bout \cup {new}) = IF new \in bout THEN Cardinality(bout) ELSE Cardinality(bout) + 1
              /\ Cardinality(Open \cup {new}) = IF new \in Open THEN Cardinality(Open) ELSE Cardinality(Open) + 1
            BY <2>1, FS_AddElement
        <3> QED
            BY <2>1, <3>1, <3>2, FS_CardinalityType
    <2>3. Cardinality(hands[defender]) \in Nat
        BY <1>2, <1>9, HandsFinite, FS_CardinalityType
    <2>4. MaxAttacks > Cardinality(bout) /\ Cardinality(hands[defender]) > Cardinality(Open)
        BY <1>1, <2>1, <2>3 DEF AttacksLeft
    <2>5. Cardinality(bout') <= MaxAttacks
        BY <1>1, <2>1, <2>2, <2>4, DurakAssumption
    <2>6. Cardinality(Open') <= Cardinality(hands'[defender'])
        BY <1>1, <1>3, <1>9, <1>10, <2>1, <2>2, <2>3, <2>4
    <2> QED
        BY <2>5, <2>6 DEF DurakBout
<1> QED
    BY <1>1, <1>6, <1>7, <1>8, <1>11, <1>12 DEF DurakInv, DurakActive

\* card/defend keeps the invariant: one open attack and one card less.
LEMMA DefendKeeps ==
    ASSUME CardsTyped, CardsSorted, DurakInv, layout' = layout,
           NEW e \in bout, NEW card \in hands[defender], Defend(e, card)
    PROVE  CardsTyped' /\ CardsSorted' /\ DurakInv'
<1>1. /\ phase = "active" /\ e \in Open
      /\ hands' = [hands EXCEPT ![defender] = @ \ {card}]
      /\ bout' = (bout \ {e}) \cup {[e EXCEPT !.defend = card]}
      /\ UNCHANGED <<order, gone, phase, deck, attacker, defender, discard>>
    BY DEF Defend, Plays
<1>2. defender \in Seated /\ attacker \in Seated /\ DurakActive /\ hands \in Held
    BY <1>1 DEF DurakInv, DurakTyped, CardsTyped
<1>3. card \in Pack /\ card \notin OnTable
    BY <1>2 DEF CardsSorted, Held, Sorted
<1>4. /\ bout' \subseteq Duels /\ NoneTwice(bout') /\ OnTable' = OnTable \cup {card}
      /\ Open' = Open \ {e}
    BY <1>1, <1>3, DefenceOnTable DEF CardsTyped
<1>5. hands' \in Held /\ Sorted(hands', Range(deck), OnTable \cup {card}, discard, layout)
    <2>1. PICK less \in Held : less = hands' /\ less[defender] = hands[defender] \ {card}
                              /\ \A q \in Seated : q # defender => less[q] = hands[q]
        BY <1>1, <1>2 DEF Held
    <2>2. Sorted(hands, Range(deck), OnTable, discard, layout)
        BY DEF CardsSorted
    <2>3. hands \in Held /\ defender \in Seated /\ card \in hands[defender]
        BY <1>2
    <2>4. PICK drawn, table, thrown, laid :
             drawn = Range(deck) /\ table = OnTable /\ thrown = discard /\ laid = layout
        OBVIOUS
    <2>5. Sorted(hands, drawn, table, thrown, laid)
        BY <2>2, <2>4
    <2>6. less \in Held /\ Sorted(less, drawn, table \cup {card}, thrown, laid)
        BY <2>1, <2>3, <2>5, PutDown
    <2> QED
        BY <1>1, <2>1, <2>4, <2>6
<1>6. Seated' = Seated /\ Out' = Out /\ Playing' = Playing
    BY <1>1 DEF Seated, Out, Playing
<1>7. CardsTyped'
    <2>1. hands' \in Held' /\ bout' \subseteq Duels'
        BY <1>4, <1>5, <1>6 DEF Held
    <2> QED
        BY <1>1, <1>4, <2>1 DEF CardsTyped
<1>8. CardsSorted'
    BY <1>1, <1>4, <1>5, <1>6 DEF CardsSorted, Sorted
<1>9. DurakTyped'
    BY <1>1, <1>6 DEF DurakInv, DurakTyped
<1>10. /\ hands'[defender] = hands[defender] \ {card}
       /\ \A q \in Seated : q # defender => hands'[q] = hands[q]
    BY <1>1, <1>2 DEF Held
<1>11. DurakRoles' /\ DurakHands'
    <2>1. \A q \in Out : q \in Seated /\ q # defender
        BY <1>2 DEF DurakInv, DurakTyped, Out, Playing, Range, DurakActive, DurakRoles
    <2>2. bout' # {}
        BY <1>1
    <2> QED
        BY <1>1, <1>2, <1>6, <1>10, <2>1, <2>2 DEF DurakActive, DurakRoles, DurakHands
<1>12. DurakBout'
    <2>1. /\ IsFiniteSet(bout) /\ IsFiniteSet(Open)
          /\ Cardinality(bout) \in Nat /\ Cardinality(Open) \in Nat
        BY OpenOrBeaten DEF CardsTyped
    <2>2. IsFiniteSet(hands[defender]) /\ Cardinality(hands[defender]) \in Nat
        BY <1>2, HandsFinite, FS_CardinalityType
    <2>3. Cardinality(Open \ {e}) = Cardinality(Open) - 1
        BY <1>1, <2>1, FS_RemoveElement
    <2>4. Cardinality(hands[defender] \ {card}) = Cardinality(hands[defender]) - 1
        BY <2>2, FS_RemoveElement
    <2>5. Cardinality(Open') <= Cardinality(hands'[defender'])
        BY <1>1, <1>2, <1>4, <1>10, <2>1, <2>2, <2>3, <2>4, SMTT(40) DEF DurakActive, DurakBout
    <2>6. Cardinality(bout') <= Cardinality(bout) /\ Cardinality(bout') \in Nat
        <3>1. PICK new : new = [e EXCEPT !.defend = card]
            OBVIOUS
        <3>2. bout' = (bout \ {e}) \cup {new}
            BY <1>1, <3>1
        <3>3. IsFiniteSet(bout \ {e}) /\ Cardinality(bout \ {e}) = Cardinality(bout) - 1
            BY <2>1, FS_RemoveElement
        <3>4. IsFiniteSet(bout')
                 /\ (Cardinality(bout') = Cardinality(bout) - 1 \/ Cardinality(bout') = Cardinality(bout) - 1 + 1)
            BY <3>2, <3>3, FS_AddElement
        <3> QED
            BY <2>1, <3>4, FS_CardinalityType
    <2>7. Cardinality(bout') <= MaxAttacks
        BY <1>2, <2>1, <2>6, DurakAssumption DEF DurakActive, DurakBout
    <2> QED
        BY <2>5, <2>7 DEF DurakBout
<1> QED
    BY <1>1, <1>7, <1>8, <1>9, <1>11, <1>12 DEF DurakInv, DurakActive

\* card/take keeps the invariant.
LEMMA TakeKeeps ==
    ASSUME CardsTyped, CardsSorted, DurakInv, layout' = layout, Take
    PROVE  CardsTyped' /\ CardsSorted' /\ DurakInv'
<1> DEFINE held == [hands EXCEPT ![defender] = @ \cup OnTable]
<1>1. phase = "active" /\ FinalizeBout("take", held) /\ discard' = discard
    BY DEF Take, MayTake
<1>2. DurakTyped /\ DurakActive
    BY <1>1 DEF DurakInv
<1>3. OnTable \in SUBSET Pack
    BY TableFact DEF CardsTyped
<1>4. held \in Held /\ Sorted(held, Range(deck), {}, discard, layout)
    BY <1>2, <1>3, TakenUp DEF CardsTyped, CardsSorted, DurakTyped
<1>5. \A p \in Out : held[p] = {}
    <2>1. \A p \in Out : p \in Seated /\ p # defender
        BY <1>2 DEF DurakTyped, Out, Playing, Range, DurakActive, DurakRoles
    <2> QED
        BY <1>2, <2>1 DEF CardsTyped, Held, DurakActive, DurakHands
<1>6. discard \in SUBSET Pack
    BY DEF CardsTyped
<1> HIDE DEF held
<1> QED
    BY <1>1, <1>2, <1>4, <1>5, <1>6, BoutIsOver

\* card/pass keeps the invariant, whether or not it ends the bout.
LEMMA PassKeeps ==
    ASSUME CardsTyped, CardsSorted, DurakInv, layout' = layout, NEW p \in Seated, Pass(p)
    PROVE  CardsTyped' /\ CardsSorted' /\ DurakInv'
<1>1. phase = "active"
    BY DEF Pass, MayPass
<1>2. DurakTyped /\ DurakActive
    BY <1>1 DEF DurakInv
<1>3. CASE FinalizeBout("pass", hands) /\ discard' = discard \cup OnTable
    <2>1. OnTable \in SUBSET Pack
        BY TableFact DEF CardsTyped
    <2>2. Sorted(hands, Range(deck), {}, discard \cup OnTable, layout)
        BY ThrownAway DEF CardsSorted
    <2>3. hands \in Held /\ discard \cup OnTable \in SUBSET Pack
        BY <2>1 DEF CardsTyped
    <2>4. \A q \in Out : hands[q] = {}
        BY <1>2 DEF DurakActive, DurakHands
    <2> QED
        BY <1>2, <1>3, <2>2, <2>3, <2>4, BoutIsOver
<1>4. CASE UNCHANGED <<order, hands, gone, phase, deck, trump, bout, attacker, defender, discard>>
    <2>1. Seated' = Seated /\ Out' = Out /\ Playing' = Playing /\ Open' = Open /\ OnTable' = OnTable
        BY <1>4 DEF Seated, Out, Playing, Open, OnTable
    <2>2. CardsTyped' /\ CardsSorted'
        BY <1>4, <2>1 DEF CardsTyped, CardsSorted, Held, NoneTwice, Duels, Sorted
    <2> QED
        BY <1>4, <2>1, <2>2
        DEF DurakInv, DurakTyped, DurakActive, DurakRoles, DurakHands, DurakBout, DurakOver
<1> QED
    BY <1>3, <1>4 DEF Pass

\* A finite set of numbers is bounded.
LEMMA FiniteIsBounded ==
    ASSUME NEW S \in SUBSET Nat, IsFiniteSet(S)
    PROVE  \E m \in Nat : S \subseteq 0..m
<1> DEFINE G ==
               {n \in Nat : \A s \in SUBSET S : IsFiniteSet(s) /\ Cardinality(s) = n => \E m \in Nat : s \subseteq 0..m}
<1>1. 0 \in G
    <2> SUFFICES ASSUME NEW s \in SUBSET S, IsFiniteSet(s), Cardinality(s) = 0 PROVE s \subseteq 0..0
        OBVIOUS
    <2> QED
        BY FS_EmptySet
<1>2. ASSUME NEW n \in G PROVE n + 1 \in G
    <2> SUFFICES ASSUME NEW s \in SUBSET S, IsFiniteSet(s), Cardinality(s) = n + 1
                 PROVE  \E m \in Nat : s \subseteq 0..m
        OBVIOUS
    <2>0. s # {}
        <3>1. n \in Nat /\ Cardinality({}) = 0
            BY FS_EmptySet
        <3> QED
            BY <3>1
    <2>1. PICK x \in s : TRUE
        BY <2>0
    <2>2. IsFiniteSet(s \ {x}) /\ Cardinality(s \ {x}) = n
        BY Smaller
    <2>3. PICK m \in Nat : s \ {x} \subseteq 0..m
        BY <2>2
    <2>4. m + x \in Nat /\ s \subseteq 0 .. m + x
        BY <2>1, <2>3
    <2> QED
        BY <2>4
<1>3. Cardinality(S) \in G
    <2>1. G \in SUBSET Nat /\ Cardinality(S) \in Nat
        BY FS_CardinalityType
    <2> HIDE DEF G
    <2> QED
        BY <1>1, <1>2, <2>1, Induction
<1> QED
    BY <1>3

\* A card is known by its suit and its rank.
Card(s, r) == [suit |-> s, rank |-> r]

\* The ranks of a suit in the layout, their least and their greatest.
LEMMA RanksFact ==
    ASSUME layout \subseteq Pack, NEW s
    PROVE  /\ \A r : r \in RanksOf(s) <=> r \in Nat /\ Card(s, r) \in layout
           /\ RanksOf(s) # {} =>
                /\ Min(RanksOf(s)) \in RanksOf(s) /\ \A r \in RanksOf(s) : Min(RanksOf(s)) <= r
                /\ Max(RanksOf(s)) \in RanksOf(s) /\ \A r \in RanksOf(s) : r <= Max(RanksOf(s))
<1>1. \A c \in layout : c = Card(c.suit, c.rank) /\ c.rank \in Nat
    BY PackAssumption DEF Card
<1>2. \A r : Card(s, r).suit = s /\ Card(s, r).rank = r
    BY DEF Card
<1>3. \A r : r \in RanksOf(s) <=> r \in Nat /\ Card(s, r) \in layout
    <2>1. ASSUME NEW c \in layout, c.suit = s PROVE c.rank \in Nat /\ Card(s, c.rank) \in layout
        BY <1>1, <2>1
    <2>2. ASSUME NEW r, Card(s, r) \in layout PROVE \E c \in layout : c.suit = s /\ c.rank = r
        BY <1>2, <2>2
    <2> QED
        BY <2>1, <2>2 DEF RanksOf
<1>4. RanksOf(s) \in SUBSET Nat
    BY <1>3
<1>5. IsFiniteSet(RanksOf(s))
    <2> DEFINE f == [c \in Pack |-> c.rank]
               T == {c.rank : c \in Pack}
    <2>1. IsFiniteSet(T)
        <3>1. f \in [Pack -> T] /\ \A z \in T : \E c \in Pack : f[c] = z
            OBVIOUS
        <3> HIDE DEF f, T
        <3>2. f \in Surjection(Pack, T)
            BY <3>1 DEF Surjection
        <3> QED
            BY <3>2, PackAssumption, FS_Surjection
    <2>2. RanksOf(s) \subseteq {c.rank : c \in Pack}
        BY DEF RanksOf
    <2> QED
        BY <2>1, <2>2, FS_Subset
<1>6. PICK m \in Nat : RanksOf(s) \subseteq 0..m
    BY <1>4, <1>5, FiniteIsBounded
<1> QED
    BY <1>3, <1>4, <1>6, MinFact, MaxFact

\* A legal play makes a run longer.
LEMMA RunsGrow ==
    ASSUME layout \subseteq Pack, Runs(layout), NEW card \in Pack, LegalPlay(card)
    PROVE  Runs(layout \cup {card})
<1> DEFINE laid == layout \cup {card}
           R == RanksOf(card.suit)
<1>1. card = Card(card.suit, card.rank) /\ card.rank \in Nat
    BY PackAssumption DEF Card
<1>2. \A c \in layout : \A r \in (9 .. c.rank) \cup (c.rank .. 9) : Card(c.suit, r) \in layout
    BY DEF Runs, Card
<1>3. \A r \in (9 .. card.rank) \cup (card.rank .. 9) : Card(card.suit, r) \in laid
    <2> SUFFICES ASSUME NEW r \in (9 .. card.rank) \cup (card.rank .. 9), r # card.rank
                 PROVE  Card(card.suit, r) \in layout
        BY <1>1
    <2>1. card.rank # 9 /\ r \in Nat
        BY <1>1
    <2>2. R # {} /\ (card.rank + 1 = Min(R) \/ card.rank = Max(R) + 1)
        <3>1. NineOfSpades.rank = 9
            BY DEF NineOfSpades
        <3> QED
            BY <2>1, <3>1 DEF LegalPlay
    <2>3. /\ \A x : x \in R <=> x \in Nat /\ Card(card.suit, x) \in layout
          /\ Min(R) \in R /\ \A x \in R : Min(R) <= x
          /\ Max(R) \in R /\ \A x \in R : x <= Max(R)
        BY <2>2, RanksFact
    <2>4. \A x \in R : \A y \in (9 .. x) \cup (x .. 9) : y \in Nat => y \in R
        <3> SUFFICES ASSUME NEW x \in R, NEW y \in (9 .. x) \cup (x .. 9), y \in Nat PROVE y \in R
            OBVIOUS
        <3>1. Card(card.suit, x) \in layout
            BY <2>3
        <3>2. Card(card.suit, x).suit = card.suit /\ Card(card.suit, x).rank = x
            BY DEF Card
        <3>3. Card(card.suit, y) \in layout
            BY <1>2, <3>1, <3>2
        <3> QED
            BY <2>3, <3>3
    <2>5. 9 \in R
        BY <2>3, <2>4
    <2> HIDE DEF R
    <2>6. PICK lo, hi \in Nat : lo = Min(R) /\ hi = Max(R)
        BY <2>3
    <2>7. lo <= 9 /\ 9 <= hi
        BY <2>3, <2>5, <2>6
    <2>8. r \in R
        <3>1. CASE card.rank + 1 = lo
            <4>1. r \in lo .. 9
                BY <1>1, <2>7, <3>1
            <4> QED
                BY <2>1, <2>3, <2>4, <2>6, <4>1
        <3>2. CASE card.rank = hi + 1
            <4>1. r \in 9 .. hi
                BY <1>1, <2>7, <3>2
            <4> QED
                BY <2>1, <2>3, <2>4, <2>6, <4>1
        <3> QED
            BY <2>2, <2>6, <3>1, <3>2
    <2> QED
        BY <2>3, <2>8
<1> QED
    BY <1>2, <1>3 DEF Runs, Card

\* With the runs laid and no hand empty, some hand has a card that fits.
LEMMA SomebodyCan ==
    ASSUME layout \subseteq Pack, Runs(layout), hands \in Held, Seated # {},
           \A p \in Seated : hands[p] # {} /\ hands[p] \cap layout = {},
           \A c \in Pack : c \in layout \/ \E p \in Seated : c \in hands[p]
    PROVE  SomebodyCanPlay
<1>1. \A c \in Pack : c \notin layout /\ LegalPlay(c) => SomebodyCanPlay
    BY DEF SomebodyCanPlay
<1>2. CASE layout = {}
    <2>1. LegalPlay(NineOfSpades)
        BY <1>2 DEF LegalPlay
    <2> QED
        BY <1>1, <1>2, <2>1, NineAssumption
<1>3. CASE layout # {}
    <2>1. PICK p \in Seated : \E c \in hands[p] : TRUE
        OBVIOUS
    <2>10. PICK c \in hands[p] : TRUE
        BY <2>1
    <2>2. c \in Pack /\ c \notin layout
        BY DEF Held
    <2> DEFINE s == c.suit
               R == RanksOf(s)
    <2>3. c = Card(s, c.rank) /\ c.rank \in Nat
        BY <2>2, PackAssumption DEF Card
    <2>4. \A r \in (9 .. c.rank) \cup (c.rank .. 9) : Card(s, r) \in Pack
        BY <2>2, NineAssumption DEF Card
    <2>5. \A r : Card(s, r).suit = s /\ Card(s, r).rank = r
        BY DEF Card
    <2>6. \A x : x \in R <=> x \in Nat /\ Card(s, x) \in layout
        BY RanksFact
    <2>7. CASE R = {}
        <3>1. Card(s, 9) \in Pack /\ Card(s, 9) \notin layout
            BY <2>3, <2>4, <2>6, <2>7
        <3>2. LegalPlay(Card(s, 9))
            BY <1>3, <2>5, <2>7 DEF LegalPlay
        <3> QED
            BY <1>1, <3>1, <3>2
    <2>8. CASE R # {}
        <3>1. /\ Min(R) \in R /\ \A x \in R : Min(R) <= x
              /\ Max(R) \in R /\ \A x \in R : x <= Max(R)
            BY <2>8, RanksFact
        <3>2. \A x \in R : \A y \in (9 .. x) \cup (x .. 9) : y \in Nat => y \in R
            <4> SUFFICES ASSUME NEW x \in R, NEW y \in (9 .. x) \cup (x .. 9), y \in Nat PROVE y \in R
                OBVIOUS
            <4>1. Card(s, x) \in layout
                BY <2>6
            <4>2. Card(s, y) \in layout
                BY <2>5, <4>1 DEF Runs, Card
            <4> QED
                BY <2>6, <4>2
        <3>3. c.rank \notin R
            BY <2>2, <2>3, <2>6
        <3>4. PICK lo, hi \in Nat : lo = Min(R) /\ hi = Max(R)
            BY <2>6, <3>1
        <3>5. 9 \in R
            BY <2>6, <3>1, <3>2
        <3>6. \A r \in Nat : r # 9 /\ (r + 1 = lo \/ r = hi + 1) => LegalPlay(Card(s, r))
            BY <1>3, <2>5, <2>8, <3>4 DEF LegalPlay
        <3> HIDE DEF R, s
        <3>7. lo <= 9 /\ 9 <= hi
            BY <3>1, <3>4, <3>5
        <3>8. CASE c.rank > hi
            <4>1. hi + 1 \in 9 .. c.rank /\ hi + 1 \in Nat /\ hi + 1 # 9 /\ hi + 1 \notin R
                BY <2>3, <3>1, <3>4, <3>7, <3>8
            <4> QED
                BY <1>1, <2>4, <2>6, <3>6, <4>1
        <3>9. CASE c.rank < lo
            <4>1. lo - 1 \in c.rank .. 9 /\ lo - 1 \in Nat /\ lo - 1 # 9 /\ lo - 1 + 1 = lo
                     /\ lo - 1 \notin R
                BY <2>3, <3>1, <3>4, <3>7, <3>9
            <4> QED
                BY <1>1, <2>4, <2>6, <3>6, <4>1
        <3>10. ASSUME lo <= c.rank, c.rank <= hi PROVE FALSE
            <4>1. c.rank \in 9 .. hi \/ c.rank \in lo .. 9
                BY <2>3, <3>7, <3>10
            <4> QED
                BY <2>3, <3>1, <3>2, <3>3, <3>4, <4>1
        <3> QED
            BY <2>3, <3>8, <3>9, <3>10
    <2> QED
        BY <2>7, <2>8
<1> QED
    BY <1>2, <1>3

-----------------------------------------------------------------------------
\* The deal.
LEMMA ShuffleFact ==
    ASSUME NEW cards \in Shuffles
    PROVE  /\ cards \in Seq(Pack) /\ IsInjective(cards) /\ Range(cards) = Pack
           /\ Len(cards) \in Nat /\ DOMAIN cards = 1..Len(cards) /\ Cardinality(Pack) = Len(cards)
<1>1. cards \in Seq(Pack) /\ IsInjective(cards) /\ Range(cards) = Pack
    BY ShuffleAssumption
<1>2. Len(cards) \in Nat /\ DOMAIN cards = 1..Len(cards)
    BY <1>1, LenProperties
<1>3. cards \in [1..Len(cards) -> Pack] /\ \A z \in Pack : \E i \in 1..Len(cards) : cards[i] = z
    BY <1>1, <1>2 DEF Range
<1>4. \A i, j \in 1..Len(cards) : cards[i] = cards[j] => i = j
    BY <1>1, <1>2 DEF IsInjective
<1>5. IsFiniteSet(1..Len(cards)) /\ Cardinality(1..Len(cards)) = Len(cards)
    <2>1. PICK n \in Nat : n = Len(cards)
        BY <1>2
    <2>2. IsFiniteSet(1..n) /\ Cardinality(1..n) = n
        BY FS_Interval
    <2> QED
        BY <2>1, <2>2
<1>6. Cardinality(Pack) = Len(cards)
    BY <1>3, <1>4, <1>5, SameNumber
<1> QED
    BY <1>1, <1>2, <1>6

\* Whose card is the j-th.
DealtAt(cards, per, p) == {j \in 1..Len(cards) : j <= per * Len(order) /\ (j - 1) % Len(order) = Seat(p) - 1}

\* dealHands gives everybody a card at least, and no card to two players.
LEMMA DealFact ==
    ASSUME order \in Tables, NEW cards \in Shuffles, NEW per \in Nat \ {0}, Len(order) <= Len(cards)
    PROVE  /\ DealHands(cards, order, per) = [p \in Seated |-> {cards[j] : j \in DealtAt(cards, per, p)}]
           /\ \A p \in Seated : DealtAt(cards, per, p) # {}
           /\ \A p, q \in Seated : p # q => DealtAt(cards, per, p) \cap DealtAt(cards, per, q) = {}
           /\ \A j \in 1..Len(cards) : j <= per * Len(order) => \E p \in Seated : j \in DealtAt(cards, per, p)
<1> DEFINE n == Len(order)
<1>1. /\ n \in Nat \ {0}
      /\ \A i \in 1..n : order[i] \in Seated /\ Seat(order[i]) = i
      /\ \A p \in Seated : Seat(p) \in 1..n /\ order[Seat(p)] = p
    BY SeatsFact
<1>2. DOMAIN cards = 1..Len(cards) /\ Len(cards) \in Nat
    BY ShuffleFact
<1>3. DealHands(cards, order, per) = [p \in Seated |-> {cards[j] : j \in DealtAt(cards, per, p)}]
    BY <1>2 DEF DealHands, DealtTo, DealtAt, Seat, Seated
<1>4. PICK all \in Nat : all = per * n /\ n <= all
    BY <1>1
<1>5. \A p \in Seated : DealtAt(cards, per, p)
                              = {j \in 1..Len(cards) : j <= all /\ (j - 1) % n = Seat(p) - 1}
    BY <1>4 DEF DealtAt
<1>6. n <= Len(cards)
    OBVIOUS
<1> HIDE DEF n
<1>7. \A p \in Seated : DealtAt(cards, per, p) # {}
    <2> SUFFICES ASSUME NEW p \in Seated PROVE Seat(p) \in DealtAt(cards, per, p)
        OBVIOUS
    <2>1. Seat(p) \in 1..n
        BY <1>1
    <2>2. (Seat(p) - 1) % n = Seat(p) - 1
        BY <1>1, <2>1, SMTT(40)
    <2>3. Seat(p) \in 1..Len(cards) /\ Seat(p) <= all
        BY <1>1, <1>2, <1>4, <1>6, <2>1
    <2> QED
        BY <1>5, <2>2, <2>3
<1>8. \A p, q \in Seated : p # q => DealtAt(cards, per, p) \cap DealtAt(cards, per, q) = {}
    BY <1>1, <1>5
<1>9. \A j \in 1..Len(cards) : j <= all => \E p \in Seated : j \in DealtAt(cards, per, p)
    <2> SUFFICES ASSUME NEW j \in 1..Len(cards), j <= all
                 PROVE  \E p \in Seated : j \in DealtAt(cards, per, p)
        OBVIOUS
    <2>1. PICK r : r = (j - 1) % n
        OBVIOUS
    <2>2. r \in 0 .. n - 1
        BY <1>1, <1>2, <2>1
    <2>3. order[r + 1] \in Seated /\ Seat(order[r + 1]) - 1 = r
        BY <1>1, <2>2
    <2> QED
        BY <1>5, <2>1, <2>3
<1> QED
    BY <1>3, <1>4, <1>7, <1>8, <1>9 DEF n

\* Dealing from the front leaves the rest of the pack as the deck.
LEMMA DealSorted ==
    ASSUME order \in Tables, NEW cards \in Shuffles, NEW per \in Nat \ {0}, Len(order) <= Len(cards),
           NEW h, h = DealHands(cards, order, per), NEW rest \in Seq(Pack),
           NEW from \in Nat, Len(cards) <= per * Len(order) \/ from = per * Len(order),
           \A c : c \in Range(rest) <=> \E j \in 1..Len(cards) : j > from /\ c = cards[j],
           Len(cards) <= per * Len(order) => rest = << >>
    PROVE  /\ h \in Held /\ Sorted(h, Range(rest), {}, {}, {})
           /\ \A p \in Seated : h[p] # {}
<1> DEFINE At(p) == DealtAt(cards, per, p)
<1>1. /\ h = [p \in Seated |-> {cards[j] : j \in At(p)}]
      /\ \A p \in Seated : At(p) # {}
      /\ \A p, q \in Seated : p # q => At(p) \cap At(q) = {}
      /\ \A j \in 1..Len(cards) : j <= per * Len(order) => \E p \in Seated : j \in At(p)
    BY DealFact
<1>2. /\ Range(cards) = Pack /\ Len(cards) \in Nat /\ DOMAIN cards = 1..Len(cards)
      /\ \A i, j \in 1..Len(cards) : cards[i] = cards[j] => i = j
    BY ShuffleFact DEF IsInjective
<1>3. PICK all \in Nat : all = per * Len(order)
    BY SeatsFact
<1>4. \A p \in Seated : At(p) \subseteq 1..Len(cards) /\ \A j \in At(p) : j <= all
    BY <1>3 DEF DealtAt
<1> HIDE DEF At
<1>5. \A p \in Seated : h[p] = {cards[j] : j \in At(p)}
    BY <1>1
<1>6. \A j \in 1..Len(cards) : cards[j] \in Pack
    BY <1>2 DEF Range
<1>7. h \in Held
    BY <1>1, <1>4, <1>6 DEF Held
<1>8. \A p, q \in Seated : p # q => h[p] \cap h[q] = {}
    BY <1>1, <1>2, <1>4, <1>5
<1>9. \A p \in Seated : h[p] \cap Range(rest) = {}
    <2>1. CASE Len(cards) <= all
        <3>1. Range(rest) = {}
            BY <1>3, <2>1 DEF Range
        <3> QED
            BY <3>1
    <2>2. CASE from = all
        <3> SUFFICES ASSUME NEW p \in Seated, NEW c \in h[p], c \in Range(rest) PROVE FALSE
            OBVIOUS
        <3>1. PICK i \in At(p) : c = cards[i]
            BY <1>5
        <3>2. PICK j \in 1..Len(cards) : j > all /\ c = cards[j]
            BY <2>2
        <3>3. i \in 1..Len(cards) /\ i <= all
            BY <1>4
        <3>4. i = j
            BY <1>2, <3>1, <3>2, <3>3
        <3> QED
            BY <1>2, <1>3, <3>2, <3>3, <3>4
    <2> QED
        BY <1>3, <2>1, <2>2
<1>10. \A c \in Pack : c \in Range(rest) \/ \E p \in Seated : c \in h[p]
    <2> SUFFICES ASSUME NEW c \in Pack, \A p \in Seated : c \notin h[p] PROVE c \in Range(rest)
        OBVIOUS
    <2>1. PICK j \in 1..Len(cards) : c = cards[j]
        BY <1>2 DEF Range
    <2>2. ~(j <= all)
        BY <1>1, <1>3, <1>5, <2>1
    <2>3. from = all /\ j > all
        BY <1>2, <1>3, <2>2
    <2> QED
        BY <2>1, <2>3
<1>11. \A p \in Seated : h[p] # {}
    BY <1>1, <1>5
<1> QED
    BY <1>7, <1>8, <1>9, <1>10, <1>11 DEF Sorted

\* What is left of a list after its first cards.
LEMMA RestFact ==
    ASSUME NEW X, NEW s \in Seq(X), NEW from \in Nat, from <= Len(s)
    PROVE  /\ SubSeq(s, from + 1, Len(s)) \in Seq(X)
           /\ \A c : c \in Range(SubSeq(s, from + 1, Len(s))) <=> \E j \in 1..Len(s) : j > from /\ c = s[j]
           /\ IsInjective(s) => IsInjective(SubSeq(s, from + 1, Len(s)))
           /\ Len(s) <= from => SubSeq(s, from + 1, Len(s)) = << >>
<1> DEFINE t == SubSeq(s, from + 1, Len(s))
           n == Len(s) - from
           L == Len(s)
<1>1. L \in Nat /\ DOMAIN s = 1..L /\ n \in Nat /\ n = L - from
    BY LenProperties
<1>2. t \in Seq(X) /\ Len(t) = n /\ \A i \in 1..n : t[i] = s[from + i]
    <2>1. from + 1 \in Int /\ L \in Int /\ \A i \in from + 1 .. L : s[i] \in X
        BY <1>1
    <2>2. /\ t \in Seq(X) /\ Len(t) = IF from + 1 <= L THEN L - (from + 1) + 1 ELSE 0
          /\ \A i \in 1 .. L - (from + 1) + 1 : t[i] = s[from + 1 + i - 1]
        BY <2>1, SubSeqProperties
    <2> HIDE DEF t, L, n
    <2>3. Len(t) = n /\ L - (from + 1) + 1 = n
        BY <1>1, <2>2
    <2>4. \A i \in 1..n : from + 1 + i - 1 = from + i
        BY <1>1
    <2> QED
        BY <2>2, <2>3, <2>4
<1> HIDE DEF t, n
<1>3. DOMAIN t = 1..n
    BY <1>2
<1>4. \A i \in 1..n : from + i \in 1..Len(s) /\ from + i > from
    BY <1>1
<1>5. \A j \in 1..Len(s) : j > from => j - from \in 1..n /\ from + (j - from) = j
    BY <1>1
<1>6. \A c : c \in Range(t) <=> \E j \in 1..Len(s) : j > from /\ c = s[j]
    <2>1. ASSUME NEW i \in 1..n PROVE \E j \in 1..Len(s) : j > from /\ t[i] = s[j]
        BY <1>2, <1>4
    <2>2. ASSUME NEW j \in 1..Len(s), j > from PROVE \E i \in 1..n : t[i] = s[j]
        BY <1>2, <1>5, <2>2
    <2>3. \A c : c \in Range(t) <=> \E i \in 1..n : c = t[i]
        BY <1>3 DEF Range
    <2>4. ASSUME NEW c \in Range(t) PROVE \E j \in 1..Len(s) : j > from /\ c = s[j]
        BY <2>1, <2>3
    <2>5. ASSUME NEW j \in 1..Len(s), j > from PROVE s[j] \in Range(t)
        BY <2>2, <2>3, <2>5
    <2> QED
        BY <2>4, <2>5
<1>7. ASSUME IsInjective(s) PROVE IsInjective(t)
    <2> SUFFICES ASSUME NEW i \in 1..n, NEW k \in 1..n, t[i] = t[k] PROVE i = k
        BY <1>3 DEF IsInjective
    <2>1. from + i = from + k
        BY <1>1, <1>2, <1>4, <1>7 DEF IsInjective
    <2> QED
        BY <1>1, <2>1
<1>8. Len(s) <= from => t = << >>
    BY <1>1, <1>2
<1> QED
    BY <1>2, <1>6, <1>7, <1>8 DEF t

\* Whoever opens sits at the table.
LEMMA OpenerFact ==
    ASSUME order \in Tables, NEW h \in Held, NEW suit
    PROVE  Opener(order, h, suit) \in Seated
<1> DEFINE trumps(p) == {c.rank : c \in {d \in h[p] : d.suit = suit}}
           held == UNION {trumps(p) : p \in Seated}
<1>1. Opener(order, h, suit) = IF held = {} THEN order[1]
                               ELSE CHOOSE p \in Seated : Min(held) \in trumps(p)
    BY DEF Opener, Seated
<1>2. order[1] \in Seated
    BY SeatsFact
<1>3. CASE held # {}
    <2>1. held \in SUBSET Nat
        BY PackAssumption DEF Held
    <2> HIDE DEF trumps
    <2>2. Min(held) \in held
        <3> HIDE DEF held
        <3> QED
            BY <1>3, <2>1, MinFact
    <2>3. \E p \in Seated : Min(held) \in trumps(p)
        BY <2>2
    <2> QED
        BY <1>1, <1>3, <2>3
<1> QED
    BY <1>1, <1>2, <1>3

\* A dealt game of Durak has the invariant.
LEMMA DurakStarts ==
    ASSUME DurakInit, layout = {}
    PROVE  CardsTyped /\ CardsSorted /\ DurakInv
<1>1. PICK players \in Tables, cards \in Shuffles :
         /\ order = players
         /\ hands = DealHands(cards, players, HandSize)
         /\ deck = Undealt(cards, players, HandSize)
         /\ attacker = Opener(players, hands, trump)
         /\ defender = NextPlayer(attacker, {})
         /\ gone = << >> /\ phase = "active" /\ bout = {} /\ discard = {}
    BY DEF DurakInit
<1>2. order \in Tables /\ hands = DealHands(cards, order, HandSize)
         /\ attacker = Opener(order, hands, trump)
    BY <1>1
<1>3. cards \in Seq(Pack) /\ IsInjective(cards) /\ Len(cards) \in Nat /\ Cardinality(Pack) = Len(cards)
    BY ShuffleFact
<1>4. Len(order) \in Nat /\ Len(order) >= 2 /\ HandSize \in Nat \ {0}
    BY <1>2, SeatsFact, DurakAssumption
<1>5. PICK from \in Nat : from = HandSize * Len(order)
    BY <1>4
<1>6. Len(order) <= from /\ from <= Len(cards) /\ Len(order) <= Len(cards)
    <2>1. Len(order) <= from
        BY <1>4, <1>5
    <2>2. Len(order) * HandSize <= Len(cards)
        BY <1>2, <1>3, DurakAssumption
    <2>3. from = Len(order) * HandSize
        BY <1>4, <1>5
    <2> QED
        BY <1>3, <1>4, <2>1, <2>2, <2>3
<1>7. deck = SubSeq(cards, from + 1, Len(cards))
    BY <1>1, <1>5 DEF Undealt
<1>8. /\ deck \in Seq(Pack) /\ IsInjective(deck)
      /\ \A c : c \in Range(deck) <=> \E j \in 1..Len(cards) : j > from /\ c = cards[j]
      /\ Len(cards) <= from => deck = << >>
    BY <1>3, <1>6, <1>7, RestFact
<1>9. hands \in Held /\ Sorted(hands, Range(deck), {}, {}, {}) /\ \A p \in Seated : hands[p] # {}
    BY <1>2, <1>4, <1>5, <1>6, <1>8, DealSorted, SMTT(40)
<1>10. Open = {} /\ OnTable = {}
    BY <1>1 DEF Open, OnTable
<1>11. CardsTyped
    BY <1>1, <1>2, <1>8, <1>9 DEF CardsTyped, NoneTwice
<1>12. CardsSorted
    BY <1>1, <1>9, <1>10 DEF CardsSorted
<1>13. attacker \in Seated
    BY <1>2, <1>9, OpenerFact
<1>14. defender \in Seated /\ defender # attacker
    <2>1. order[1] \in Seated /\ order[2] \in Seated /\ order[1] # order[2]
        BY <1>2, <1>4, SeatsFact DEF IsInjective
    <2>2. PICK q \in Seated : q # attacker
        BY <2>1
    <2> QED
        BY <1>1, <1>2, <1>13, <2>2, NextPlayerFact
<1>15. Out = {} /\ Playing = Seated
    BY <1>1 DEF Out, Playing, Range
<1>16. DurakTyped
    <2>1. gone \in Seq(Seated) /\ IsInjective(gone)
        BY <1>1 DEF IsInjective
    <2> QED
        BY <1>1, <1>13, <1>14, <2>1 DEF DurakTyped
<1>17. DurakActive
    <2>1. Cardinality(Open) = 0 /\ Cardinality(bout) = 0
        BY <1>1, <1>10, FS_EmptySet
    <2>2. Cardinality(hands[defender]) \in Nat
        BY <1>9, <1>14, HandsFinite
    <2> QED
        BY <1>9, <1>13, <1>14, <1>15, <2>1, <2>2, DurakAssumption
        DEF DurakActive, DurakRoles, DurakHands, DurakBout
<1> QED
    BY <1>1, <1>11, <1>12, <1>16, <1>17 DEF DurakInv

\* A dealt game of Nine has the invariant.
LEMMA NineStarts ==
    ASSUME NineInit, deck = << >>, bout = {}, discard = {}
    PROVE  CardsTyped /\ CardsSorted /\ NineInv
<1>1. PICK players \in Tables, cards \in Shuffles :
         /\ order = players
         /\ hands = DealHands(cards, players, Len(cards))
         /\ gone = << >> /\ phase = "active" /\ layout = {}
         /\ turnPlayer \in Range(players)
    BY DEF NineInit
<1>2. order \in Tables /\ hands = DealHands(cards, order, Len(cards)) /\ turnPlayer \in Seated
    BY <1>1 DEF Seated
<1>3. cards \in Seq(Pack) /\ Range(cards) = Pack /\ Len(cards) \in Nat /\ Cardinality(Pack) = Len(cards)
    BY ShuffleFact
<1>4. Len(order) \in Nat /\ Len(order) >= 2 /\ Len(order) <= Len(cards)
    <2>1. Len(order) \in Nat /\ Len(order) >= 2 /\ HandSize \in Nat \ {0}
        BY <1>2, SeatsFact, DurakAssumption
    <2>2. Len(order) * HandSize <= Len(cards)
        BY <1>2, <1>3, DurakAssumption
    <2>3. Len(order) <= Len(order) * HandSize /\ Len(order) * HandSize \in Nat
        BY <2>1
    <2> QED
        BY <1>3, <2>1, <2>2, <2>3
<1>5. Len(cards) \in Nat \ {0} /\ Len(cards) <= Len(cards) * Len(order)
    BY <1>3, <1>4
<1>6. << >> \in Seq(Pack) /\ Range(<< >>) = {}
    BY DEF Range
<1>7. \A c : c \in Range(<< >>) <=> \E j \in 1..Len(cards) : j > Len(cards) /\ c = cards[j]
    BY <1>3, <1>6
<1>8. hands \in Held /\ Sorted(hands, Range(<< >>), {}, {}, {}) /\ \A p \in Seated : hands[p] # {}
    BY <1>2, <1>3, <1>4, <1>5, <1>6, <1>7, DealSorted
<1>9. Open = {} /\ OnTable = {}
    BY DEF Open, OnTable
<1>10. CardsTyped
    <2>1. deck \in Seq(Pack) /\ IsInjective(deck)
        BY <1>6 DEF IsInjective
    <2> QED
        BY <1>1, <1>2, <1>8, <2>1 DEF CardsTyped, NoneTwice
<1>11. CardsSorted
    BY <1>1, <1>8, <1>9 DEF CardsSorted
<1> QED
    BY <1>1, <1>2, <1>8, <1>10, <1>11 DEF NineInv, NineTyped, Runs

\* Whoever is next is at the table.
LEMMA NextIsSeated ==
    ASSUME order \in Tables, NEW p \in Seated
    PROVE  NextPlayer(p, {}) \in Seated
<1>1. order[1] \in Seated /\ order[2] \in Seated /\ order[1] # order[2]
    BY SeatsFact DEF IsInjective
<1>2. PICK q \in Seated : q # p
    BY <1>1
<1> QED
    BY <1>2, NextPlayerFact

\* nine/play keeps the invariant: the run grows from its end, and an empty hand
\* finishes the game.
LEMMA NinePlayKeeps ==
    ASSUME CardsTyped, CardsSorted, NineInv, UNCHANGED onlyDurak,
           NEW p \in Seated, NEW card \in hands[p], NinePlay(p, card)
    PROVE  CardsTyped' /\ CardsSorted' /\ NineInv'
<1>1. /\ phase = "active" /\ p \in Playing /\ p = turnPlayer /\ LegalPlay(card)
      /\ hands' = [hands EXCEPT ![p] = @ \ {card}]
      /\ layout' = layout \cup {card} /\ order' = order
      /\ deck' = deck /\ bout' = bout /\ discard' = discard
    BY DEF NinePlay, MayPlay, OnTurn, Plays, onlyDurak
<1>2. /\ hands'[p] = {} => gone' = Append(gone, p) /\ phase' = "finished" /\ turnPlayer' = p
      /\ hands'[p] # {} => turnPlayer' = NextPlayer(p, Out) /\ gone' = gone /\ phase' = phase
    BY DEF NinePlay
<1>3. /\ gone = << >> /\ (\A q \in Seated : hands[q] # {})
      /\ deck = << >> /\ bout = {} /\ discard = {} /\ Runs(layout)
    BY <1>1 DEF NineInv, NineTyped
<1>4. order \in Tables /\ hands \in Held /\ card \in Pack /\ layout \subseteq Pack
    BY DEF CardsTyped, Held
<1>5. PICK less \in Held : less = hands' /\ less[p] = hands[p] \ {card}
                           /\ \A q \in Seated : q # p => less[q] = hands[q]
    <2>1. hands' = [hands EXCEPT ![p] = @ \ {card}] /\ hands \in Held
        BY <1>1, <1>4
    <2> QED
        BY <2>1 DEF Held
<1>6. PICK drawn, table, thrown, laid :
         drawn = Range(deck) /\ table = OnTable /\ thrown = discard /\ laid = layout
    OBVIOUS
<1>7. Sorted(hands, drawn, table, thrown, laid)
    BY <1>6 DEF CardsSorted
<1>8. Sorted(less, drawn, table, thrown, laid \cup {card})
    BY <1>4, <1>5, <1>7, PutDown
<1>9. Seated' = Seated /\ Open' = Open /\ OnTable' = OnTable
    BY <1>1 DEF Seated, Open, OnTable
<1>10. CardsSorted'
    BY <1>1, <1>5, <1>6, <1>8, <1>9 DEF CardsSorted, Sorted
<1>11. CardsTyped'
    <2>1. hands' \in Held'
        BY <1>5, <1>9 DEF Held
    <2> QED
        BY <1>1, <1>3, <1>4, <2>1 DEF CardsTyped, NoneTwice
<1>12. Runs(layout')
    BY <1>1, <1>3, <1>4, RunsGrow
<1>13. Out = {}
    BY <1>3 DEF Out, Range
<1>14. CASE hands'[p] = {}
    <2>1. gone' = <<p>> /\ phase' = "finished" /\ turnPlayer' = p
        BY <1>2, <1>3, <1>14
    <2>2. \A q \in Seated : hands'[q] = {} <=> q = p
        BY <1>3, <1>5, <1>14
    <2>3. NineTyped'
        BY <1>1, <1>3, <1>9, <1>12, <2>1 DEF NineTyped
    <2> QED
        BY <1>9, <1>10, <1>11, <2>1, <2>2, <2>3 DEF NineInv
<1>15. CASE hands'[p] # {}
    <2>1. gone' = << >> /\ phase' = "active" /\ turnPlayer' = NextPlayer(p, {})
        BY <1>1, <1>2, <1>3, <1>13, <1>15
    <2>2. \A q \in Seated : hands'[q] # {}
        BY <1>3, <1>5, <1>15
    <2>3. turnPlayer' \in Seated
        BY <1>4, <2>1, NextIsSeated
    <2>4. NineTyped'
        BY <1>1, <1>3, <1>9, <1>12, <2>1, <2>3 DEF NineTyped
    <2> QED
        BY <1>9, <1>10, <1>11, <2>1, <2>2, <2>4 DEF NineInv
<1> QED
    BY <1>14, <1>15

\* nine/pass keeps the invariant.
LEMMA NinePassKeeps ==
    ASSUME CardsTyped, CardsSorted, NineInv, UNCHANGED onlyDurak, NEW p \in Seated, NinePass(p)
    PROVE  CardsTyped' /\ CardsSorted' /\ NineInv'
<1>1. /\ phase = "active" /\ turnPlayer' = NextPlayer(p, Out)
      /\ UNCHANGED <<order, hands, gone, phase, layout>>
      /\ deck' = deck /\ bout' = bout /\ discard' = discard
    BY DEF NinePass, MayPassTurn, OnTurn, onlyDurak
<1>2. gone = << >> /\ Out = {}
    BY <1>1 DEF NineInv, Out, Range
<1>3. turnPlayer' \in Seated
    BY <1>1, <1>2, NextIsSeated DEF CardsTyped
<1>4. Seated' = Seated /\ Open' = Open /\ OnTable' = OnTable
    BY <1>1 DEF Seated, Open, OnTable
<1>5. CardsTyped' /\ CardsSorted'
    BY <1>1, <1>4 DEF CardsTyped, CardsSorted, Held, NoneTwice, Duels, Sorted
<1>6. NineTyped'
    BY <1>1, <1>3, <1>4 DEF NineInv, NineTyped, Runs
<1> QED
    BY <1>1, <1>4, <1>5, <1>6 DEF NineInv

\* The games start with the invariant.
LEMMA CardsStart == CardsInit => CardsInv
<1> SUFFICES ASSUME CardsInit PROVE CardsInv
    OBVIOUS
<1>1. CASE game = "durak" /\ DurakInit /\ layout = {}
    BY <1>1, DurakStarts DEF CardsInv, InDurak, InNine
<1>2. CASE game = "nine" /\ NineInit /\ deck = << >> /\ bout = {} /\ discard = {}
    BY <1>2, NineStarts DEF CardsInv, InDurak, InNine
<1> QED
    BY <1>1, <1>2 DEF CardsInit

\* Every step of a game keeps it.
LEMMA CardsGoOn == CardsInv /\ [CardsNext]_cardVars => CardsInv'
<1> SUFFICES ASSUME CardsInv, [CardsNext]_cardVars PROVE CardsInv'
    OBVIOUS
<1>1. CardsTyped /\ CardsSorted
    BY DEF CardsInv
<1>2. ASSUME game = "durak", DurakNext, UNCHANGED <<game, onlyNine>>
      PROVE  CardsInv'
    <2>1. DurakInv /\ layout' = layout
        BY <1>2 DEF CardsInv, InDurak, onlyNine
    <2>2. CardsTyped' /\ CardsSorted' /\ DurakInv'
        <3>1. ASSUME NEW p \in Seated, NEW card \in hands[p], Attack(p, card)
              PROVE  CardsTyped' /\ CardsSorted' /\ DurakInv'
            BY <1>1, <2>1, <3>1, AttackKeeps
        <3>2. ASSUME NEW e \in bout, NEW card \in hands[defender], Defend(e, card)
              PROVE  CardsTyped' /\ CardsSorted' /\ DurakInv'
            BY <1>1, <2>1, <3>2, DefendKeeps
        <3>3. ASSUME Take PROVE CardsTyped' /\ CardsSorted' /\ DurakInv'
            BY <1>1, <2>1, <3>3, TakeKeeps
        <3>4. ASSUME NEW p \in Seated, Pass(p) PROVE CardsTyped' /\ CardsSorted' /\ DurakInv'
            BY <1>1, <2>1, <3>4, PassKeeps
        <3> QED
            BY <1>2, <3>1, <3>2, <3>3, <3>4 DEF DurakNext
    <2> QED
        BY <1>2, <2>2 DEF CardsInv, InDurak, InNine
<1>3. ASSUME game = "nine", NineNext, UNCHANGED <<game, onlyDurak>>
      PROVE  CardsInv'
    <2>1. NineInv /\ UNCHANGED onlyDurak
        BY <1>3 DEF CardsInv, InNine
    <2>2. CardsTyped' /\ CardsSorted' /\ NineInv'
        <3>1. ASSUME NEW p \in Seated, NEW card \in hands[p], NinePlay(p, card)
              PROVE  CardsTyped' /\ CardsSorted' /\ NineInv'
            BY <1>1, <2>1, <3>1, NinePlayKeeps
        <3>2. ASSUME NEW p \in Seated, NinePass(p) PROVE CardsTyped' /\ CardsSorted' /\ NineInv'
            BY <1>1, <2>1, <3>2, NinePassKeeps
        <3> QED
            BY <1>3, <3>1, <3>2 DEF NineNext
    <2> QED
        BY <1>3, <2>2 DEF CardsInv, InDurak, InNine
<1>4. ASSUME UNCHANGED cardVars PROVE CardsInv'
    <2>1. Seated' = Seated /\ Out' = Out /\ Playing' = Playing /\ Open' = Open /\ OnTable' = OnTable
        BY <1>4 DEF cardVars, Seated, Out, Playing, Open, OnTable
    <2>2. CardsTyped' /\ CardsSorted'
        BY <1>1, <1>4, <2>1 DEF cardVars, CardsTyped, CardsSorted, Held, NoneTwice, Duels, Sorted
    <2>3. DurakInv => DurakInv'
        BY <1>4, <2>1
        DEF cardVars, DurakInv, DurakTyped, DurakActive, DurakRoles, DurakHands, DurakBout, DurakOver
    <2>4. NineInv => NineInv'
        BY <1>4, <2>1 DEF cardVars, NineInv, NineTyped, Runs
    <2> QED
        BY <1>4, <2>2, <2>3, <2>4 DEF CardsInv, InDurak, InNine, cardVars
<1> QED
    BY <1>2, <1>3, <1>4 DEF CardsNext

\* A session of a card game always has the invariant.
THEOREM CardsInvariant == CardsSpec => []CardsInv
BY CardsStart, CardsGoOn, PTL DEF CardsSpec

\* However the cards are dealt, attacked with, taken, thrown away and drawn,
\* every card of the pack stays in one place: none is lost, none is doubled.
THEOREM CardsOnceCorrect == CardsSpec => []CardsOnce
<1>1. CardsInv => CardsOnce
    BY EveryCardOnce DEF CardsInv
<1> QED
    BY <1>1, CardsInvariant, PTL

\* When a bout is to begin, the attacker has a card and the defender one to
\* beat it with.
LEMMA EmptyTableCanBeAttacked ==
    ASSUME CardsTyped, DurakInv, phase = "active", bout = {}
    PROVE  hands[attacker] # {} /\ AttacksLeft
<1>1. attacker \in Playing /\ defender \in Playing /\ defender \in Seated
    BY DEF DurakInv, DurakActive, DurakRoles, DurakTyped
<1>2. hands[attacker] # {} /\ hands[defender] # {}
    BY <1>1 DEF DurakInv, DurakActive, DurakHands
<1>3. IsFiniteSet(hands[defender]) /\ Cardinality(hands[defender]) \in Nat
    BY <1>1, HandsFinite DEF CardsTyped
<1>4. Cardinality(hands[defender]) # 0
    BY <1>2, <1>3, FS_EmptySet
<1>5. Cardinality(bout) = 0 /\ Cardinality(bout \ Open) = 0
    <2>1. bout \ Open = {}
        OBVIOUS
    <2> QED
        BY <2>1, FS_EmptySet
<1> QED
    BY <1>2, <1>3, <1>4, <1>5, DurakAssumption DEF AttacksLeft

\* For every pack, shuffle and table: somebody can always move in a game that
\* is not over, and the defender is never attacked beyond their hand.
THEOREM GameGoesOnCorrect == CardsSpec => []GameGoesOn
<1>1. CardsInv => GameGoesOn
    <2> SUFFICES ASSUME CardsInv PROVE NobodyIsStuck /\ DefenderCanAnswer
        BY DEF GameGoesOn
    <2>1. CardsTyped /\ CardsSorted
        BY DEF CardsInv
    <2>2. ASSUME InDurak, phase = "active"
          PROVE  /\ {attacker, defender} \subseteq Playing /\ attacker # defender
                 /\ bout = {} => hands[attacker] # {} /\ AttacksLeft
                 /\ Cardinality(Open) <= Cardinality(hands[defender])
                 /\ Cardinality(bout) <= MaxAttacks
        <3>1. DurakInv
            BY <2>2 DEF CardsInv
        <3>2. DurakTyped /\ DurakRoles /\ DurakBout
            BY <2>2, <3>1 DEF DurakInv, DurakActive
        <3>3. bout = {} => hands[attacker] # {} /\ AttacksLeft
            BY <2>1, <2>2, <3>1, EmptyTableCanBeAttacked
        <3> QED
            BY <3>2, <3>3 DEF DurakTyped, DurakRoles, DurakBout
    <2>3. ASSUME InNine, phase = "active"
          PROVE  turnPlayer \in Playing /\ SomebodyCanPlay
        <3>1. /\ NineTyped /\ gone = << >> /\ \A p \in Seated : hands[p] # {}
            BY <2>3 DEF CardsInv, NineInv
        <3>2. turnPlayer \in Playing
            BY <3>1 DEF NineTyped, Playing, Out, Range
        <3>3. deck = << >> /\ bout = {} /\ discard = {} /\ Runs(layout) /\ turnPlayer \in Seated
            BY <3>1 DEF NineTyped
        <3>4. Range(deck) = {} /\ OnTable = {}
            BY <3>3 DEF Range, OnTable, Open
        <3>5. /\ \A p \in Seated : hands[p] \cap layout = {}
              /\ \A c \in Pack : c \in layout \/ \E p \in Seated : c \in hands[p]
            BY <2>1, <3>3, <3>4 DEF CardsSorted, Sorted
        <3>6. layout \subseteq Pack /\ hands \in Held
            BY <2>1 DEF CardsTyped
        <3>7. SomebodyCanPlay
            BY <3>1, <3>3, <3>5, <3>6, SomebodyCan
        <3> QED
            BY <3>2, <3>7
    <2> QED
        BY <2>2, <2>3 DEF NobodyIsStuck, DefenderCanAnswer
<1> QED
    BY <1>1, CardsInvariant, PTL

\* For every pack, shuffle and table: the places are given once, to players
\* without cards, and a finished game has given all it owes.
THEOREM PlacesRightCorrect == CardsSpec => []PlacesRight
<1>1. CardsInv => PlacesRight
    <2> SUFFICES ASSUME CardsInv PROVE PlacesRight
        OBVIOUS
    <2>1. CardsTyped /\ order \in Tables
        BY DEF CardsInv, CardsTyped
    <2>2. IsFiniteSet(Seated) /\ Cardinality(Seated) = Len(order) /\ Len(order) >= 2
             /\ Len(order) \in Nat
        BY <2>1, SeatedFinite, SeatsFact
    <2>3. CASE InDurak
        <3>1. DurakInv /\ DurakTyped /\ ~InNine
            BY <2>3 DEF CardsInv, DurakInv, InDurak, InNine
        <3>2. ASSUME phase = "active"
              PROVE  Cardinality(Playing) >= 2 /\ \A p \in Out : hands[p] = {} /\ deck = << >>
            <4>1. attacker \in Playing /\ defender \in Playing /\ attacker # defender
                BY <3>1, <3>2 DEF DurakInv, DurakTyped, DurakActive, DurakRoles
            <4>2. IsFiniteSet(Playing)
                BY <2>2, FS_Subset DEF Playing
            <4>3. IsFiniteSet(Playing \ {attacker})
                     /\ Cardinality(Playing \ {attacker}) = Cardinality(Playing) - 1
                BY <4>1, <4>2, FS_RemoveElement
            <4>4. Cardinality(Playing \ {attacker}) # 0 /\ Cardinality(Playing \ {attacker}) \in Nat
                     /\ Cardinality(Playing) \in Nat
                BY <4>1, <4>2, <4>3, FS_EmptySet, FS_CardinalityType
            <4> QED
                BY <3>1, <3>2, <4>3, <4>4 DEF DurakInv, DurakActive, DurakHands
        <3>3. ASSUME phase = "finished" PROVE DurakOver
            BY <3>1, <3>3 DEF DurakInv
        <3> QED
            BY <3>1, <3>2, <3>3 DEF PlacesRight, DurakTyped, DurakOver
    <2>4. CASE InNine
        <3>1. NineInv /\ ~InDurak
            BY <2>4 DEF CardsInv, InDurak, InNine
        <3>2. phase \in {"active", "finished"}
            BY <3>1 DEF NineInv, NineTyped
        <3>3. CASE phase = "active"
            <4>1. gone = << >>
                BY <3>1, <3>3 DEF NineInv
            <4>2. Out = {} /\ Playing = Seated /\ IsInjective(gone)
                BY <4>1 DEF Out, Playing, Range, IsInjective
            <4> QED
                BY <2>2, <3>1, <3>3, <4>2 DEF PlacesRight
        <3>4. CASE phase = "finished"
            <4>1. PICK p \in Seated : gone = <<p>> /\ \A q \in Seated : hands[q] = {} <=> q = p
                BY <3>1, <3>4 DEF NineInv
            <4>2. Len(gone) = 1 /\ Out = {p} /\ IsInjective(gone)
                BY <4>1 DEF Out, Range, IsInjective
            <4> QED
                BY <3>1, <3>4, <4>1, <4>2 DEF PlacesRight
        <3> QED
            BY <3>2, <3>3, <3>4
    <2> QED
        BY <2>3, <2>4 DEF CardsInv, InDurak, InNine
<1> QED
    BY <1>1, CardsInvariant, PTL

\* Less than the smaller of two numbers is less than both.
LEMMA LessThanBoth ==
    ASSUME NEW a \in Nat, NEW b \in Nat, NEW k \in Nat
    PROVE  k < Min({a, b}) <=> k < a /\ k < b
<1>1. Min({a, b}) \in {a, b} /\ Min({a, b}) <= a /\ Min({a, b}) <= b
    <2>1. {a, b} \in SUBSET Nat /\ {a, b} # {}
        OBVIOUS
    <2> QED
        BY <2>1, MinFact
<1> QED
    BY <1>1

\* The screen's copy of the ranks on the table.
LEMMA SameRanks == RanksOnTable(bout) = {c.rank : c \in OnTable}
BY DEF RanksOnTable, OnTable, Open

\* The screen's copy of Nine's rule is the rule.
LEMMA SameNineRule == \A card : IsLegalNinePlay(layout, card) <=> LegalPlay(card)
BY DEF IsLegalNinePlay, LegalPlay, RanksOf

\* For every pack, shuffle and table: the buttons and cards the screen enables
\* from its own copy of the rules are the moves that the rules allow.
THEOREM ScreenMatchesRulesCorrect == CardsSpec => []ScreenMatchesRules
<1>1. ASSUME CardsInv, NEW p \in Seated
      PROVE  LET v == View(p)
             IN  /\ \A card \in v.hand :
                       /\ InDurak /\ p # defender =>
                             (IsHandCardEnabled(p, v, card) <=> MayAttack(p, card))
                       /\ InNine => (IsHandCardEnabled(p, v, card) <=> MayPlay(p, card))
                 /\ CanTake(p, v) <=> InDurak /\ p = defender /\ MayTake
                 /\ InDurak /\ MayPass(p) => CanDurakPass(p, v)
                 /\ CanNinePass(p, v) <=> InNine /\ MayPassTurn(p)
    <2>1. PICK v : v = View(p)
        OBVIOUS
    <2>2. /\ v.phase = phase /\ v.hand = hands[p] /\ v.table = bout /\ v.layout = layout
          /\ v.counts = [q \in Seated \ {p} |-> Cardinality(hands[q])]
        BY <2>1 DEF View
    <2>3. InDurak <=> ~InNine
        BY <1>1 DEF CardsInv, InDurak, InNine
    <2>4. phase = "active" => /\ InDurak => v.turn = attacker /\ v.defender = defender
                              /\ InNine => v.turn = turnPlayer
        BY <2>1, <2>3 DEF View, Finished
    <2>5. CardsTyped
        BY <1>1 DEF CardsInv
    <2>6. ASSUME InDurak, p # defender, NEW card \in hands[p]
          PROVE  IsHandCardEnabled(p, v, card) <=> MayAttack(p, card)
        <3>1. DurakInv
            BY <1>1, <2>6 DEF CardsInv
        <3>2. CASE phase = "active"
            <4>1. /\ v.turn = attacker /\ v.defender = defender
                  /\ IsHandCardEnabled(p, v, card) <=> CanAttackWithCard(p, v, card)
                BY <2>2, <2>3, <2>4, <2>6, <3>2 DEF IsHandCardEnabled
            <4>2. p \in Attackers
                BY <2>6, <3>1, <3>2 DEF DurakInv, DurakActive, DurakHands, Attackers, Playing
            <4>3. CASE bout = {}
                <5>1. AttacksLeft
                    BY <2>5, <3>1, <3>2, <4>3, EmptyTableCanBeAttacked
                <5> QED
                    BY <2>2, <2>6, <3>2, <4>1, <4>2, <4>3, <5>1 DEF CanAttackWithCard, MayAttack
            <4>4. CASE bout # {}
                <5>1. defender \in Seated
                    BY <3>1 DEF DurakInv, DurakTyped
                <5>2. v.counts[v.defender] = Cardinality(hands[defender])
                    BY <2>2, <2>6, <4>1, <5>1
                <5>3. {e \in v.table : e.defend # NoCard} = bout \ Open
                    BY <2>2 DEF Open
                <5>4. MaxAttacksAllowed(v, v.counts[v.defender])
                         = Min({MaxAttacks, Cardinality(hands[defender]) + Cardinality(bout \ Open)})
                    BY <5>2, <5>3 DEF MaxAttacksAllowed
                <5>5. Cardinality(hands[defender]) \in Nat /\ Cardinality(bout) \in Nat
                         /\ Cardinality(bout \ Open) \in Nat
                    BY <2>5, <5>1, OpenOrBeaten, HandsFinite DEF CardsTyped
                <5>6. Cardinality(bout) < MaxAttacksAllowed(v, v.counts[v.defender]) <=> AttacksLeft
                    <6>0. /\ MaxAttacks \in Nat
                          /\ Cardinality(hands[defender]) + Cardinality(bout \ Open) \in Nat
                        BY <5>5, DurakAssumption
                    <6>1. PICK a, b, k \in Nat :
                             /\ a = MaxAttacks /\ k = Cardinality(bout)
                             /\ b = Cardinality(hands[defender]) + Cardinality(bout \ Open)
                        BY <5>5, <6>0, Zenon
                    <6>2. k < Min({a, b}) <=> k < a /\ k < b
                        BY LessThanBoth
                    <6>3. AttacksLeft <=> k < a /\ k < b
                        BY <6>1 DEF AttacksLeft
                    <6> QED
                        BY <5>4, <6>1, <6>2, <6>3
                <5>7. RanksOnTable(v.table) = {c.rank : c \in OnTable}
                    BY <2>2, SameRanks
                <5> QED
                    BY <2>2, <2>6, <3>2, <4>1, <4>2, <4>4, <5>6, <5>7 DEF CanAttackWithCard, MayAttack
            <4> QED
                BY <4>3, <4>4
        <3>3. CASE phase # "active"
            BY <2>2, <3>3 DEF IsHandCardEnabled, MayAttack
        <3> QED
            BY <3>2, <3>3
    <2>7. InNine /\ phase = "active" => p \in Playing
        BY <1>1 DEF CardsInv, NineInv, Playing, Out, Range
    <2>8. \A card : InNine => (IsHandCardEnabled(p, v, card) <=> MayPlay(p, card))
        BY <2>2, <2>4, <2>7, SameNineRule DEF IsHandCardEnabled, MayPlay, OnTurn
    <2>9. CanTake(p, v) <=> InDurak /\ p = defender /\ MayTake
        BY <2>2, <2>4 DEF CanTake, MayTake
    <2>10. InDurak /\ MayPass(p) => CanDurakPass(p, v)
        BY <2>2, <2>4 DEF CanDurakPass, MayPass, Attackers
    <2>11. CanNinePass(p, v) <=> InNine /\ MayPassTurn(p)
        BY <2>2, <2>4, <2>7, SameNineRule DEF CanNinePass, MayPassTurn, OnTurn
    <2> QED
        BY <2>1, <2>2, <2>6, <2>8, <2>9, <2>10, <2>11
<1>2. CardsInv => ScreenMatchesRules
    BY <1>1 DEF ScreenMatchesRules
<1> QED
    BY <1>2, CardsInvariant, PTL

-----------------------------------------------------------------------------
\* The screen of a word game.

\* Every word of the history was scored in a turn that has begun.
Listed == \A i \in DOMAIN results : results[i].turn <= IF started THEN turn ELSE turn - 1

LEMMA EntryTurn ==
    ASSUME TypeOK
    PROVE  turn \in Nat /\ \A i \in DOMAIN results : results[i].turn \in Nat
<1> SUFFICES ASSUME NEW i \in DOMAIN results PROVE turn \in Nat /\ results[i].turn \in Nat
    BY TotalTurnsNat DEF TypeOK
<1>1. results[i] \in Entry
    BY DEF TypeOK
<1>2. \A e \in Entry : e.turn \in 1..TotalTurns
    BY DEF Entry
<1> QED
    BY <1>1, <1>2, TotalTurnsNat DEF TypeOK

\* Scoring lists the word under the turn in progress.
LEMMA ScoreLists ==
    ASSUME TypeOK, Listed, started, NEW guessed \in BOOLEAN, ScoreWord(guessed)
    PROVE  Listed'
<1> DEFINE entry == [word |-> word, guessed |-> guessed, turn |-> turn]
<1>1. results' = Append(results, entry) /\ turn' = turn /\ started' = started
    BY DEF ScoreWord, rotation
<1>2. entry.turn = turn
    OBVIOUS
<1> HIDE DEF entry
<1>3. results \in Seq(Entry) /\ turn \in Nat
    BY EntryTurn DEF TypeOK
<1>4. \A i \in DOMAIN results' : results'[i] = entry \/ (i \in DOMAIN results /\ results'[i] = results[i])
    <2>1. PICK X : results \in Seq(X) /\ entry \in X
        <3>1. results \in Seq(Entry \cup {entry}) /\ entry \in Entry \cup {entry}
            BY <1>3
        <3> QED
            BY <3>1
    <2>2. /\ Len(results) \in Nat /\ DOMAIN results = 1..Len(results)
          /\ DOMAIN results' = 1 .. Len(results) + 1
          /\ \A i \in 1..Len(results) : results'[i] = results[i]
          /\ results'[Len(results) + 1] = entry
        BY <1>1, <2>1, AppendProperties
    <2>3. \A i \in 1 .. Len(results) + 1 : i \in 1..Len(results) \/ i = Len(results) + 1
        BY <2>2
    <2> SUFFICES ASSUME NEW i \in 1 .. Len(results) + 1
                 PROVE  results'[i] = entry \/ (i \in DOMAIN results /\ results'[i] = results[i])
        BY <2>2
    <2>4. i \in 1..Len(results) => i \in DOMAIN results /\ results'[i] = results[i]
        BY <2>2
    <2>5. i = Len(results) + 1 => results'[i] = entry
        BY <2>2
    <2> QED
        BY <2>3, <2>4, <2>5
<1>5. \A i \in DOMAIN results : results[i].turn <= turn
    BY DEF Listed
<1>6. \A i \in DOMAIN results' : results'[i].turn <= turn
    BY <1>2, <1>3, <1>4, <1>5
<1> QED
    BY <1>1, <1>6 DEF Listed

\* Turns only go on, so what is listed stays listed for a turn that has begun.
LEMMA ListedStep == TypeOK /\ Listed /\ [Next]_vars => Listed'
<1> SUFFICES ASSUME TypeOK, Listed, [Next]_vars PROVE Listed'
    OBVIOUS
<1>1. ASSUME NEW p \in PlayerSet, NEW guesser \in PlayerSet, Correct(p, guesser) PROVE Listed'
    BY <1>1, ScoreLists DEF Correct, MayCredit, WordInPlay
<1>2. ASSUME NEW p \in PlayerSet, Skip(p) PROVE Listed'
    BY <1>2, ScoreLists DEF Skip, WordInPlay
<1>3. ASSUME NEW p \in PlayerSet, StartRound(p) PROVE Listed'
    <2>1. results' = results /\ turn' = turn /\ started' = TRUE /\ ~started
        BY <1>3 DEF StartRound, MayStart, board
    <2> QED
        BY <2>1, EntryTurn DEF Listed
<1>4. ASSUME FinishTurn PROVE Listed'
    <2>1. results' = results /\ turn' = turn + 1 /\ started' = FALSE
        BY <1>4 DEF FinishTurn, board
    <2>2. \A i \in DOMAIN results : results[i].turn <= turn
        BY EntryTurn DEF Listed
    <2> QED
        BY <2>1, <2>2, EntryTurn DEF Listed
<1>5. ASSUME UNCHANGED <<rotation, board>> PROVE Listed'
    BY <1>5 DEF Listed, rotation, board
<1>6. ASSUME NEW p \in PlayerSet, Pause(p) \/ Resume(p) PROVE UNCHANGED <<rotation, board>>
    BY <1>6 DEF Pause, Resume
<1>7. TimerFires => FinishTurn \/ UNCHANGED <<rotation, board>>
    BY DEF TimerFires
<1>8. Tick \/ UNCHANGED vars => UNCHANGED <<rotation, board>>
    BY DEF Tick, vars
<1> QED
    BY <1>1, <1>2, <1>3, <1>4, <1>5, <1>6, <1>7, <1>8 DEF Next, EndRound, MayEnd

\* What a division and its remainder are.
LEMMA Division ==
    ASSUME NEW x \in Nat, NEW n \in Nat \ {0}
    PROVE  x = n * (x \div n) + (x % n) /\ x % n \in 0 .. n - 1 /\ x \div n \in Nat
<1> DEFINE q == x \div n
           r == x % n
<1>1. x = n * q + r /\ r \in 0 .. n - 1 /\ q \in Nat
    OBVIOUS
<1> QED
    BY <1>1

\* Division with a remainder has one quotient.
LEMMA OneQuotient ==
    ASSUME NEW n \in Nat \ {0}, NEW k \in Nat, NEW a \in 0 .. n - 1
    PROVE  (k * n + a) \div n = k
<1> DEFINE x == k * n + a
           q == x \div n
           r == x % n
<1>1. x \in Nat /\ k * n \in Nat
    OBVIOUS
<1>2. x = n * q + r /\ q \in Nat
    <2> HIDE DEF x
    <2> QED
        BY <1>1
<1>3. r = a
    BY OneRemainder
<1>4. x = k * n + a
    OBVIOUS
<1> HIDE DEF x, q, r
<1>5. ASSUME k < q PROVE FALSE
    <2>1. PICK d \in Nat : q = k + 1 + d
        BY <1>2, <1>5, q - k - 1 \in Nat
    <2>2. n * q = k * n + n + d * n /\ d * n \in Nat
        BY <2>1
    <2> QED
        BY <1>1, <1>2, <1>3, <1>4, <2>2
<1>6. ASSUME k > q PROVE FALSE
    <2>1. PICK d \in Nat : k = q + 1 + d
        BY <1>2, <1>6, k - q - 1 \in Nat
    <2>2. k * n = n * q + n + d * n /\ d * n \in Nat /\ n * q \in Nat
        BY <1>2, <2>1
    <2> QED
        BY <1>1, <1>2, <1>3, <1>4, <2>2
<1>7. q = k
    BY <1>2, <1>5, <1>6
<1> QED
    BY <1>7 DEF q, x

\* The round a view shows counts the turns of the active team.
LEMMA WhichRound == TypeOK /\ TurnCount => (turn - 1) \div TeamCount = explained[active]
<1> SUFFICES ASSUME TypeOK, TurnCount PROVE (turn - 1) \div TeamCount = explained[active]
    OBVIOUS
<1>1. explained[active] \in Nat /\ active \in 0 .. TeamCount - 1
         /\ explained[active] * TeamCount \in Nat
    BY TeamsFact DEF TypeOK, Teams
<1>2. turn - 1 = explained[active] * TeamCount + active
    BY <1>1 DEF TurnCount
<1> QED
    BY <1>1, <1>2, TeamsFact, OneQuotient

\* A team has members, who have seats at the table, TeamCount apart.
SeatOf(t, k) == (k - 1) * TeamCount + t + 1

LEMMA TeamSeats ==
    ASSUME NEW t \in Teams
    PROVE  \E m \in Nat \ {0} :
              /\ Members(t) = [k \in 1..m |-> Players[SeatOf(t, k)]]
              /\ Len(Members(t)) = m
              /\ \A k \in 1..m : SeatOf(t, k) \in 1..Len(Players)
<1> DEFINE n == TeamCount
           L == Len(Players)
           x == L - t + n - 1
           m == x \div n
<1>1. n \in Nat \ {0} /\ L \in Nat /\ n <= L /\ t \in 0 .. n - 1 /\ Players \in Seq(STRING)
    BY EngineAssumption DEF Teams
<1>2. x \in Nat /\ x >= n /\ x = L - t + n - 1
    BY <1>1
<1>3. Members(t) = [k \in 1..m |-> Players[SeatOf(t, k)]]
    BY DEF Members, SeatOf
<1>4. \A k \in Nat : SeatOf(t, k) = (k - 1) * n + t + 1
    BY DEF SeatOf
<1>5. x = n * m + (x % n) /\ x % n \in 0 .. n - 1 /\ m \in Nat
    <2>1. PICK y \in Nat, z \in Nat \ {0} : y = x /\ z = n
        BY <1>1, <1>2
    <2>2. y = z * (y \div z) + (y % z) /\ y % z \in 0 .. z - 1 /\ y \div z \in Nat
        BY Division
    <2> QED
        BY <2>1, <2>2
<1> HIDE DEF n, L, x, m
<1>6. m # 0
    <2> SUFFICES ASSUME m = 0 PROVE FALSE
        OBVIOUS
    <2>1. n * m = 0
        BY <1>1
    <2> QED
        BY <1>1, <1>2, <1>5, <2>1
<1>7. ASSUME NEW k \in 1..m PROVE SeatOf(t, k) \in 1..L
    <2>1. PICK d \in Nat : m = k + d
        BY <1>5, m - k \in Nat
    <2>2. n * m = (k - 1) * n + n + d * n /\ d * n \in Nat /\ (k - 1) * n \in Nat
        BY <1>1, <2>1
    <2>3. (k - 1) * n + n <= x
        BY <1>1, <1>2, <1>5, <2>2
    <2>4. SeatOf(t, k) = (k - 1) * n + t + 1
        BY <1>4
    <2>5. PICK y \in Nat : y = (k - 1) * n
        BY <2>2
    <2> QED
        BY <1>1, <1>2, <2>3, <2>4, <2>5
<1>8. \A k \in 1..m : Players[SeatOf(t, k)] \in STRING
    BY <1>1, <1>7 DEF L
<1>9. Members(t) \in Seq(STRING) /\ DOMAIN Members(t) = 1..m
    BY <1>3, <1>5, <1>8, SeqDef
<1>10. Len(Members(t)) = m
    BY <1>5, <1>9, LenProperties
<1> QED
    BY <1>3, <1>5, <1>6, <1>7, <1>10 DEF L

\* Nobody is in two teams.
LEMMA TeamsApart ==
    ASSUME NEW t \in Teams, NEW s \in Teams, NEW p \in Range(Members(t)), p \in Range(Members(s))
    PROVE  t = s
<1>1. PICK m \in Nat \ {0} :
         /\ Members(t) = [k \in 1..m |-> Players[SeatOf(t, k)]]
         /\ \A k \in 1..m : SeatOf(t, k) \in 1..Len(Players)
    BY TeamSeats
<1>2. PICK o \in Nat \ {0} :
         /\ Members(s) = [k \in 1..o |-> Players[SeatOf(s, k)]]
         /\ \A k \in 1..o : SeatOf(s, k) \in 1..Len(Players)
    BY TeamSeats
<1>3. PICK k \in 1..m : p = Players[SeatOf(t, k)]
    BY <1>1 DEF Range
<1>4. PICK j \in 1..o : p = Players[SeatOf(s, j)]
    BY <1>2 DEF Range
<1>5. SeatOf(t, k) = SeatOf(s, j)
    <2>1. DOMAIN Players = 1..Len(Players)
        BY EngineAssumption
    <2> QED
        BY <1>1, <1>2, <1>3, <1>4, <2>1, TableOfPlayers
<1>6. PICK a, b \in Nat : a = k - 1 /\ b = j - 1
    OBVIOUS
<1>7. a * TeamCount + t = b * TeamCount + s
    <2>1. a * TeamCount \in Nat /\ b * TeamCount \in Nat /\ t \in Nat /\ s \in Nat
        BY TeamsFact DEF Teams
    <2>2. a * TeamCount + t + 1 = b * TeamCount + s + 1
        BY <1>5, <1>6 DEF SeatOf
    <2> QED
        BY <2>1, <2>2
<1>8. (a * TeamCount + t) % TeamCount = t /\ (b * TeamCount + s) % TeamCount = s
    BY OneRemainder, TeamsFact DEF Teams
<1> QED
    BY <1>7, <1>8

\* Whoever explains is a member of the active team, and of no other.
LEMMA ExplainerTeam ==
    ASSUME TypeOK, NEW t \in Teams
    PROVE  t = active <=> Explainer \in Range(Members(t))
<1>1. active \in Teams /\ explained[active] \in Nat
    BY DEF TypeOK
<1>2. PICK m \in Nat \ {0} :
         /\ Members(active) = [k \in 1..m |-> Players[SeatOf(active, k)]]
         /\ Len(Members(active)) = m
    BY <1>1, TeamSeats
<1>3. (explained[active] % m) + 1 \in 1..m
    <2>1. PICK e \in Nat : e = explained[active]
        BY <1>1
    <2>2. e % m \in 0 .. m - 1
        OBVIOUS
    <2> QED
        BY <2>1, <2>2
<1>4. Explainer = Members(active)[(explained[active] % m) + 1]
    BY <1>2 DEF Explainer
<1>5. DOMAIN Members(active) = 1..m
    BY <1>2
<1>6. Explainer \in Range(Members(active))
    BY <1>3, <1>4, <1>5 DEF Range
<1> QED
    BY <1>1, <1>6, TeamsApart

LEMMA ListedInvariant == Spec => []Listed
<1>1. Init => Listed
    BY DEF Init, Listed
<1>2. TypeOK /\ Listed /\ [Next]_vars => Listed'
    BY ListedStep
<1>3. Spec => []TypeOK
    BY InductiveIInv, PTL DEF IInv
<1> QED
    BY <1>1, <1>2, <1>3, PTL DEF Spec

\* The four phases of a view, and the moves they offer: somebody else has a seat
\* to be paid when a guess pays the guesser.
LEMMA Buttons == TypeOK => ButtonsRight
<1> SUFFICES ASSUME TypeOK, NEW p \in PlayerSet
             PROVE  /\ OffersStart(p, WordGameView(p)) <=> MayStart(p)
                    /\ OffersScoring(p, WordGameView(p)) <=> MayEnd(p)
                    /\ WordInPlay(p) => OffersScoring(p, WordGameView(p))
                    /\ OffersScoring(p, WordGameView(p)) /\ WordGameView(p).secretWord # 0 =>
                          WordInPlay(p) /\ \E g \in PlayerSet : MayCredit(p, g)
    BY DEF ButtonsRight
<1> DEFINE v == WordGameView(p)
<1>1. /\ v.explainer = Explainer
      /\ v.secretWord = IF p = Explainer THEN word ELSE 0
      /\ v.phase = IF finished THEN "finished" ELSE IF started THEN "active"
                   ELSE IF turn = 1 THEN "preparing" ELSE "between_rounds"
    BY DEF WordGameView
<1> HIDE DEF v
<1>2. (v.phase = "finished" <=> finished) /\ (v.phase = "active" <=> ~finished /\ started)
    BY <1>1
<1>3. OffersStart(p, v) <=> MayStart(p)
    BY <1>1, <1>2 DEF OffersStart, IsExplainerScreen, MayStart
<1>4. OffersScoring(p, v) <=> MayEnd(p)
    BY <1>1, <1>2 DEF OffersScoring, IsExplainerScreen, MayEnd
<1>5. WordInPlay(p) => MayEnd(p)
    BY DEF WordInPlay, MayEnd
<1>6. MayEnd(p) /\ v.secretWord # 0 => WordInPlay(p)
    BY <1>1 DEF WordInPlay, MayEnd
<1>7. \E g \in PlayerSet : PaysGuesser => g # p
    <2>1. CASE PaysGuesser
        <3>1. 1 \in DOMAIN Players /\ 2 \in DOMAIN Players
            BY <2>1, TableOfPlayers, EngineAssumption
        <3>2. Players[1] # Players[2]
            BY <3>1, TableOfPlayers
        <3> QED
            BY <3>1, <3>2 DEF PlayerSet
    <2> QED
        BY <2>1
<1>8. WordInPlay(p) => \E g \in PlayerSet : MayCredit(p, g)
    BY <1>7 DEF MayCredit
<1> QED
    BY <1>3, <1>4, <1>5, <1>6, <1>8 DEF v

\* Nobody is ahead of a team in the first place.
LEMMA WinnersFirst ==
    ASSUME TypeOK, NEW t \in Teams
    PROVE  t \in Winners <=> Placement(t) = 1
<1> DEFINE better == {other \in Teams : score[other] > score[t]}
<1>1. IsFiniteSet(better)
    <2>1. PICK n \in Nat : Teams = 0..n
        BY TeamsFact, TeamCount - 1 \in Nat DEF Teams
    <2>2. IsFiniteSet(Teams)
        BY <2>1, FS_Interval
    <2> QED
        BY <2>2, FS_Subset
<1>2. Cardinality(better) = 0 <=> better = {}
    BY <1>1, FS_EmptySet
<1>3. Cardinality(better) \in Nat /\ Placement(t) = 1 + Cardinality(better)
    BY <1>1, FS_CardinalityType DEF Placement
<1>4. \A s \in Teams : score[s] \in Int
    BY DEF TypeOK
<1>5. better = {} <=> \A other \in Teams : score[other] <= score[t]
    BY <1>4
<1>6. t \in Winners <=> \A other \in Teams : score[other] <= score[t]
    BY DEF Winners
<1> HIDE DEF better
<1> QED
    BY <1>2, <1>3, <1>5, <1>6

\* The last turn's list holds all that was listed from that turn on.
LEMMA Listing ==
    ASSUME TypeOK, Listed
    PROVE  ResultsForTurn(IF started THEN turn ELSE turn - 1)
             = {i \in DOMAIN results : results[i].turn >= turn - (IF started THEN 0 ELSE 1)}
<1> DEFINE last == IF started THEN turn ELSE turn - 1
<1>1. last = turn - (IF started THEN 0 ELSE 1) /\ last \in Int
    BY EntryTurn
<1>2. \A i \in DOMAIN results : results[i].turn <= last /\ results[i].turn \in Nat
    BY EntryTurn DEF Listed
<1> HIDE DEF last
<1>3. \A i \in DOMAIN results : results[i].turn = last <=> results[i].turn >= last
    BY <1>1, <1>2
<1>4. ResultsForTurn(last) = {i \in DOMAIN results : results[i].turn >= last}
    BY <1>3 DEF ResultsForTurn
<1> QED
    BY <1>1, <1>4 DEF last

\* What is shown fits the session.
LEMMA Display == IInv /\ Listed /\ NoWordTwice => DisplayRight
<1> SUFFICES ASSUME IInv, Listed, NoWordTwice, NEW p \in PlayerSet
             PROVE
               /\ p # Explainer /\ word # 0 =>
                     \A i \in ShownResults(p, WordGameView(p)) : results[i].word # word
               /\ WordGameView(p).lastResults =
                     {i \in DOMAIN results : results[i].turn >= turn - (IF started THEN 0 ELSE 1)}
               /\ ~finished => WordGameView(p).round = explained[active] + 1
               /\ \A t \in Teams :
                     /\ ~finished => (IsActive(t, WordGameView(p)) <=>
                                        WordGameView(p).explainer \in Range(Members(t)))
                     /\ finished => (t \in WordGameView(p).winnerTeams <=> Placement(t) = 1)
               /\ started => RoundTimer(WordGameView(p)) =
                                IF timer = Null THEN "paused" ELSE "countdown"
    BY DEF DisplayRight
<1> DEFINE v == WordGameView(p)
<1>1. /\ v.explainer = Explainer
      /\ v.round = (turn - 1) \div TeamCount + 1
      /\ v.activeTeam = active
      /\ v.roundEndsAt = endsAt
      /\ v.lastResults = ResultsForTurn(IF started THEN turn ELSE turn - 1)
      /\ v.winnerTeams = IF finished THEN Winners ELSE {}
    BY DEF WordGameView
<1>2. v.roundPaused <=> banked # Null
    BY DEF WordGameView
<1> HIDE DEF v
<1>3. TypeOK /\ TurnCount /\ BalancedTurns
    BY DEF IInv
<1>4. \A i \in ShownResults(p, v) : word # 0 => results[i].word # word
    <2>1. ShownResults(p, v) \subseteq DOMAIN results
        BY <1>1 DEF ShownResults, ResultsForTurn
    <2>2. results \in Seq(Entry) /\ word \in Nat
        BY <1>3, EngineAssumption DEF TypeOK
    <2>3. \A i \in DOMAIN results : results[i].word \in Nat
        <3>1. \A e \in Entry : e.word \in 1..DeckSize
            BY DEF Entry
        <3> QED
            BY <2>2, <3>1, EngineAssumption
    <2> QED
        BY <2>1, <2>2, <2>3 DEF NoWordTwice
<1>5. v.lastResults =
        {i \in DOMAIN results : results[i].turn >= turn - (IF started THEN 0 ELSE 1)}
    BY <1>1, <1>3, Listing
<1>6. v.round = explained[active] + 1
    BY <1>1, <1>3, WhichRound
<1>7. ASSUME NEW t \in Teams
      PROVE  /\ ~finished => (IsActive(t, v) <=> v.explainer \in Range(Members(t)))
             /\ finished => (t \in v.winnerTeams <=> Placement(t) = 1)
    BY <1>1, <1>3, ExplainerTeam, WinnersFirst DEF IsActive
<1>8. started => RoundTimer(v) = IF timer = Null THEN "paused" ELSE "countdown"
    <2>1. started => timer = endsAt /\ (banked # Null <=> endsAt = Null)
        BY DEF IInv, ClockInv, ClockShape, TimerFollowsClock, Null, TypeOK
    <2> QED
        BY <1>1, <1>2, <2>1 DEF RoundTimer
<1> QED
    BY <1>4, <1>5, <1>6, <1>7, <1>8 DEF v

\* What a player of a word game sees and may click fits the session, whatever
\* the players, the teams and the deck: see WordScreenRight.
THEOREM WordScreenRightCorrect == Spec => []WordScreenRight
<1>1. IInv => TypeOK
    BY DEF IInv
<1>2. IInv /\ Listed /\ NoWordTwice => WordScreenRight
    BY <1>1, Buttons, Display DEF WordScreenRight
<1> QED
    BY <1>2, InductiveIInv, ListedInvariant, NoWordTwiceCorrect, PTL
=============================================================================
