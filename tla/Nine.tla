-------------------------------- MODULE Nine --------------------------------
(***************************************************************************)
(* The card game Nine (games/nine.ts): the whole pack is dealt, the nine   *)
(* of spades opens, and every suit's run grows from its nine, one card at  *)
(* a time.  Who has no card that fits must pass.  The first empty hand     *)
(* wins.                                                                   *)
(***************************************************************************)
EXTENDS CardTable

NineOfSpades == [suit |-> "spades", rank |-> 9]

\* A suit has every rank between its nine and its other cards.
ASSUME NineAssumption ==
    /\ NineOfSpades \in Pack
    /\ \A c \in Pack : \A r \in (9 .. c.rank) \cup (c.rank .. 9) :
          [suit |-> c.suit, rank |-> r] \in Pack

VARIABLES
    layout,  \* the cards played so far
    turnPlayer \* turnPlayerId

nineVars == <<order, hands, gone, phase, layout, turnPlayer>>

\* Every player is dealt Ceiling(pack / players) cards, or what is left.
NineInit ==
    \E players \in Tables, deck \in Shuffles :
        LET dealt == DealHands(deck, players, Len(deck))
        IN  /\ order = players
            /\ hands = dealt
            /\ gone = << >>
            /\ phase = "active"
            /\ layout = {}
            /\ turnPlayer \in {p \in Range(players) : NineOfSpades \in dealt[p]}

RanksOf(suit) == {c.rank : c \in {l \in layout : l.suit = suit}}

\* suitBounds and isLegalPlay
LegalPlay(card) ==
    IF layout = {} THEN card = NineOfSpades
    ELSE IF card.rank = 9 THEN RanksOf(card.suit) = {}
    ELSE /\ RanksOf(card.suit) # {}
         /\ \/ card.rank + 1 = Min(RanksOf(card.suit))
            \/ card.rank = Max(RanksOf(card.suit)) + 1

OnTurn(p) == phase = "active" /\ p \in Playing /\ p = turnPlayer

MayPlay(p, card) == OnTurn(p) /\ LegalPlay(card)
MayPassTurn(p) == OnTurn(p) /\ \A card \in hands[p] : ~LegalPlay(card)

\* nine/play
NinePlay(p, card) ==
    /\ MayPlay(p, card)
    /\ Plays(p, card)
    /\ layout' = layout \cup {card}
    /\ IF hands'[p] = {}
       THEN gone' = Append(gone, p) /\ phase' = "finished" /\ turnPlayer' = p
       ELSE turnPlayer' = NextPlayer(p, Out) /\ UNCHANGED <<gone, phase>>
    /\ UNCHANGED order

\* nine/pass
NinePass(p) ==
    /\ MayPassTurn(p)
    /\ turnPlayer' = NextPlayer(p, Out)
    /\ UNCHANGED <<order, hands, gone, phase, layout>>

NineNext ==
    \/ \E p \in Seated : \E card \in hands[p] : NinePlay(p, card)
    \/ \E p \in Seated : NinePass(p)

NineSpec == NineInit /\ [][NineNext]_nineVars

-----------------------------------------------------------------------------
\* Somebody at the table has a card that fits.
SomebodyCanPlay == \E p \in Seated : \E card \in hands[p] : LegalPlay(card)
=============================================================================
