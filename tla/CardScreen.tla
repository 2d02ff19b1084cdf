----------------------------- MODULE CardScreen -----------------------------
(***************************************************************************)
(* What a player of a card game sees and may click: the view that the      *)
(* game's definition makes for one viewer, and the rules that the screen   *)
(* (card-game-screen.tsx) derives from it a second time, to enable cards   *)
(* and buttons.  The view is the one of the present state; while a newer   *)
(* one is on its way a click may be rejected.                              *)
(***************************************************************************)
EXTENDS CardGames

Nobody == "null"
Finished == phase = "finished"

\* The views of durak.ts and nine.ts, for viewer p
View(p) ==
    [phase  |-> phase,
     hand   |-> hands[p],
     counts |-> [q \in Seated \ {p} |-> Cardinality(hands[q])],
     table  |-> bout,
     layout |-> layout,
     turn   |-> IF Finished THEN Nobody ELSE IF InDurak THEN attacker ELSE turnPlayer,
     defender |-> IF Finished \/ InNine THEN Nobody ELSE defender]

-----------------------------------------------------------------------------
RanksOnTable(table) ==
    {e.attack.rank : e \in table} \cup {e.defend.rank : e \in {d \in table : d.defend # NoCard}}

\* Deviation: the cards that the defender has played already do not count.
MaxAttacksByHand(v, defenderCardCount) == Min({MaxAttacks, defenderCardCount})

MaxAttacksAllowed(v, defenderCardCount) ==
    Min({MaxAttacks, defenderCardCount + Cardinality({e \in v.table : e.defend # NoCard})})

IsLegalNinePlay(shown, card) ==
    LET ranks == {c.rank : c \in {l \in shown : l.suit = card.suit}}
    IN  \/ shown = {} /\ card = NineOfSpades
        \/ shown # {} /\ card.rank = 9 /\ ranks = {}
        \/ shown # {} /\ card.rank # 9 /\ ranks # {} /\ card.rank + 1 = Min(ranks)
        \/ shown # {} /\ card.rank # 9 /\ ranks # {} /\ card.rank = Max(ranks) + 1

CanAttackWithCard(p, v, card) ==
    /\ v.phase = "active" /\ p # v.defender
    /\ IF v.table = {}
       THEN v.turn = p
       ELSE /\ card.rank \in RanksOnTable(v.table)
            /\ Cardinality(v.table) < MaxAttacksAllowed(v, v.counts[v.defender])

\* Outside a defence, where any card may be tried against the selected attack
IsHandCardEnabled(p, v, card) ==
    /\ v.phase = "active"
    /\ IF InNine THEN v.turn = p /\ IsLegalNinePlay(v.layout, card)
                 ELSE CanAttackWithCard(p, v, card)

CanTake(p, v) == InDurak /\ p = v.defender /\ v.table # {} /\ v.phase = "active"
CanDurakPass(p, v) == InDurak /\ p # v.defender /\ v.table # {} /\ v.phase = "active"
CanNinePass(p, v) ==
    /\ InNine /\ v.turn = p /\ v.phase = "active"
    /\ \A card \in v.hand : ~IsLegalNinePlay(v.layout, card)

-----------------------------------------------------------------------------
\* The screen enables exactly the cards that the reducers would accept as an
\* attack or a play, offers Take and Nine's pass exactly when they are legal,
\* and never withholds Durak's pass: the second copy of the rules agrees with
\* the first, so nobody who has a move is left without a button ("mirrors ...
\* exactly", isLegalNinePlay; maxAttacksAllowed in card-game-screen.tsx).
ScreenMatchesRules ==
    \A p \in Seated :
        LET v == View(p)
        IN  /\ \A card \in v.hand :
                  /\ InDurak /\ p # defender =>
                        (IsHandCardEnabled(p, v, card) <=> MayAttack(p, card))
                  /\ InNine => (IsHandCardEnabled(p, v, card) <=> MayPlay(p, card))
            /\ CanTake(p, v) <=> InDurak /\ p = defender /\ MayTake
            /\ InDurak /\ MayPass(p) => CanDurakPass(p, v)
            /\ CanNinePass(p, v) <=> InNine /\ MayPassTurn(p)
=============================================================================
