----------------------------- MODULE WordScreen -----------------------------
(***************************************************************************)
(* What a player of a word game sees and may click: buildWordGameView's    *)
(* view of the session for one viewer, and what the screen makes of it     *)
(* (word-game-screen.tsx and the components it renders).  The view is the  *)
(* one of the present state; while a newer one is on its way a click may   *)
(* be rejected.                                                            *)
(***************************************************************************)
EXTENDS WordGame

\* A session has a player once, and who explains in Crocodile has somebody to
\* pay.
ASSUME TableOfPlayers ==
    /\ \A i, j \in DOMAIN Players : Players[i] = Players[j] => i = j
    /\ PaysGuesser => Len(Players) >= 2

ResultsForTurn(t) == {i \in DOMAIN results : results[i].turn = t}
Winners == {t \in Teams : \A other \in Teams : score[other] <= score[t]}

\* What viewer p receives
WordGameView(p) ==
    [phase        |-> IF finished THEN "finished" ELSE IF started THEN "active"
                      ELSE IF turn = 1 THEN "preparing" ELSE "between_rounds",
     round        |-> (turn - 1) \div TeamCount + 1,
     activeTeam   |-> active,
     explainer    |-> Explainer,
     secretWord   |-> IF p = Explainer THEN word ELSE 0,
     roundEndsAt  |-> endsAt,
     roundPaused  |-> banked # Null,
     lastResults  |-> ResultsForTurn(IF started THEN turn ELSE turn - 1),
     winnerTeams  |-> IF finished THEN Winners ELSE {}]

\* The final standings: a team's place, which its members share
Placement(t) == 1 + Cardinality({other \in Teams : score[other] > score[t]})

-----------------------------------------------------------------------------
\* The notice of a finished game replaces both kinds of controls.
IsExplainerScreen(p, v) == v.phase # "finished" /\ v.explainer = p

\* Deviation: the start button belongs to the first turn alone.
OffersStartFirst(p, v) == IsExplainerScreen(p, v) /\ v.phase = "preparing"

OffersStart(p, v) == IsExplainerScreen(p, v) /\ v.phase # "active"

\* Correct, Skip and End are there for a whole turn, even when the deck has no
\* word left to score.  (Crocodile has a Correct button for every guesser.)
OffersScoring(p, v) == IsExplainerScreen(p, v) /\ v.phase = "active"

\* A guesser's list is that of the last turn; no word is shown in any form.
ShownResults(p, v) ==
    IF v.phase # "finished" /\ ~IsExplainerScreen(p, v) THEN v.lastResults ELSE {}

\* The countdown; the paused notice comes before it.
RoundTimer(v) ==
    IF v.roundPaused THEN "paused"
    ELSE IF v.roundEndsAt = Null THEN "nothing" ELSE "countdown"

\* On the scoreboard the team whose turn it is is marked.
IsActive(t, v) == t = v.activeTeam

-----------------------------------------------------------------------------
\* A player is offered exactly the moves that the reducers accept from that
\* player; only scoring is offered too much, when the deck is exhausted
\* (isExplainer in word-game-screen.tsx, roundActive in explainer-controls.tsx).
ButtonsRight ==
    \A p \in PlayerSet :
        LET v == WordGameView(p)
        IN  /\ OffersStart(p, v) <=> MayStart(p)
            /\ OffersScoring(p, v) <=> MayEnd(p)
            /\ WordInPlay(p) => OffersScoring(p, v)
            /\ OffersScoring(p, v) /\ v.secretWord # 0 =>
                  WordInPlay(p) /\ \E g \in PlayerSet : MayCredit(p, g)

\* What is shown fits what happened: the results listed for a turn never give
\* away the word in play, together with the turns before them they are what
\* the scores count, the round counts the active team's turns, the winners are
\* those whom the standings place first, and while a turn is on its timer
\* shows a countdown exactly when the server's timer will end it.
DisplayRight ==
    \A p \in PlayerSet :
        LET v == WordGameView(p)
        IN  /\ p # Explainer /\ word # 0 =>
                  \A i \in ShownResults(p, v) : results[i].word # word
            /\ v.lastResults =
                  {i \in DOMAIN results : results[i].turn >= turn - (IF started THEN 0 ELSE 1)}
            /\ ~finished => v.round = explained[active] + 1
            /\ \A t \in Teams :
                  /\ ~finished => (IsActive(t, v) <=> v.explainer \in Range(Members(t)))
                  /\ finished => (t \in v.winnerTeams <=> Placement(t) = 1)
            /\ started => RoundTimer(v) = IF timer = Null THEN "paused" ELSE "countdown"

\* The screen of every player agrees with the rules of the session.
WordScreenRight == ButtonsRight /\ DisplayRight
=============================================================================
