------------------------------- MODULE Durak -------------------------------
(***************************************************************************)
(* The card game Durak (games/durak.ts): the attacker opens a bout, every  *)
(* other player but the defender may add cards of the ranks on the table,  *)
(* the defender beats each card or takes them all.  A bout ends with       *)
(* finalizeBout: hands are refilled, whoever has run out of cards is out,  *)
(* and the roles move on.                                                  *)
(***************************************************************************)
EXTENDS CardTable

CONSTANTS
    HandSize,   \* HAND_SIZE
    MaxAttacks  \* MAX_ATTACKS

NoSuit == "no suit"
NoCard == [suit |-> NoSuit, rank |-> 0]

ASSUME DurakAssumption ==
    /\ HandSize \in Nat \ {0}
    /\ MaxAttacks \in Nat \ {0}
    /\ NoCard \notin Pack
    /\ \A t \in Tables : Len(t) * HandSize <= Cardinality(Pack)

VARIABLES
    deck,      \* the draw pile, the front first; the last card is the trump
    trump,     \* the trump suit, or NoSuit when no card was left to expose
    bout,      \* the table: the attack cards with what beat them, or NoCard
    attacker, defender,
    discard,
    passed     \* the attackers who have nothing to add to this bout

durakVars == <<order, hands, gone, phase, deck, trump, bout, attacker, defender, discard, passed>>

\* The holder of the lowest trump opens, or the first player.
Opener(players, dealt, suit) ==
    LET trumps(p) == {c.rank : c \in {d \in dealt[p] : d.suit = suit}}
        held == UNION {trumps(p) : p \in Range(players)}
    IN  IF held = {} THEN players[1]
        ELSE CHOOSE p \in Range(players) : Min(held) \in trumps(p)

DurakInit ==
    \E players \in Tables, cards \in Shuffles :
        LET rest == Undealt(cards, players, HandSize)
        IN  /\ order = players
            /\ hands = DealHands(cards, players, HandSize)
            /\ deck = rest
            /\ trump = IF rest = << >> THEN NoSuit ELSE Last(rest).suit
            /\ attacker = Opener(players, hands, trump)
            /\ defender = NextPlayer(attacker, {})
            /\ gone = << >>
            /\ phase = "active"
            /\ bout = {}
            /\ discard = {}
            /\ passed = {}

-----------------------------------------------------------------------------
\* A trump beats any card but a higher trump; no trump suit beats nothing.
Beats(attack, defend) ==
    IF defend.suit = attack.suit THEN defend.rank > attack.rank ELSE defend.suit = trump

Open == {e \in bout : e.defend = NoCard}
OnTable == {e.attack : e \in bout} \cup {e.defend : e \in bout \ Open}
Attackers == Playing \ {defender}

\* maxAttacksAllowed: what the defender held when the bout began, and no more
\* than MaxAttacks.
AttacksLeft ==
    /\ MaxAttacks > Cardinality(bout)
    /\ Cardinality(hands[defender]) + Cardinality(bout \ Open) > Cardinality(bout)

MayAttack(p, card) ==
    /\ phase = "active"
    /\ p \in Attackers
    /\ IF bout = {} THEN p = attacker ELSE card.rank \in {c.rank : c \in OnTable}
    /\ AttacksLeft

\* card/attack
Attack(p, card) ==
    /\ MayAttack(p, card)
    /\ Plays(p, card)
    /\ bout' = bout \cup {[attack |-> card, defend |-> NoCard]}
    /\ passed' = {}
    /\ UNCHANGED <<order, gone, phase, deck, trump, attacker, defender, discard>>

\* card/defend
Defend(e, card) ==
    /\ phase = "active"
    /\ e \in Open
    /\ Beats(e.attack, card)
    /\ Plays(defender, card)
    /\ bout' = (bout \ {e}) \cup {[e EXCEPT !.defend = card]}
    /\ passed' = {}
    /\ UNCHANGED <<order, gone, phase, deck, trump, attacker, defender, discard>>

\* refillHands: in turn, each player draws up to HandSize while the deck lasts.
RefillHands(held, players) ==
    LET missing(p) == IF Cardinality(held[p]) < HandSize THEN HandSize - Cardinality(held[p]) ELSE 0
        before(i) == MapThenSumSet(missing, {players[j] : j \in 1..i - 1})
        drawn(i) == {k \in DOMAIN deck : before(i) < k /\ k <= before(i + 1)}
    IN  [hands |-> [p \in DOMAIN held |->
                      held[p] \cup {deck[k] : k \in UNION {drawn(i) : i \in {j \in DOMAIN players : players[j] = p}}}],
         deck |-> SubSeq(deck, before(Len(players) + 1) + 1, Len(deck))]

\* rotateFrom: the players who are in, the bout's attacker first
FromAttacker ==
    Keeping(SubSeq(order, Seat(attacker), Len(order)) \o SubSeq(order, 1, Seat(attacker) - 1), Playing)

\* Deviation: on a pass the defender attacks, in or out.
NextAttackerRegardless(mode, out) ==
    IF mode = "pass" THEN defender ELSE NextPlayer(defender, out)

\* After a pass the defender attacks, unless that defence was their last card.
NextAttacker(mode, out) ==
    IF mode = "pass" /\ defender \notin out THEN defender ELSE NextPlayer(defender, out)

\* Deviation: whoever is left over when the game ends gets no place.
PlacesOf(left, over) == << >>

\* The last player left over is placed last.
LastPlaces(left, over) == IF over THEN left ELSE << >>

\* finalizeBout
FinalizeBout(mode, held) ==
    LET refilled == RefillHands(held, FromAttacker)
        empty == {p \in Playing : refilled.hands[p] = {} /\ refilled.deck = << >>}
        placed == gone \o Keeping(FromAttacker, empty)
        left == Keeping(order, Seated \ Range(placed))
        over == Len(left) <= 1
    IN  /\ hands' = refilled.hands
        /\ deck' = refilled.deck
        /\ gone' = placed \o LastPlaces(left, over)
        /\ phase' = IF over THEN "finished" ELSE "active"
        /\ attacker' = IF over THEN attacker ELSE NextAttacker(mode, Range(placed))
        /\ defender' = IF over THEN defender ELSE NextPlayer(attacker', Range(placed))
        /\ bout' = {}
        /\ passed' = {}
        /\ UNCHANGED <<order, trump>>

MayTake == phase = "active" /\ bout # {}

\* Deviation: the cards that beat an attack are not taken up.
TakeAttacksOnly ==
    /\ MayTake
    /\ FinalizeBout("take", [hands EXCEPT ![defender] = @ \cup {e.attack : e \in bout}])
    /\ UNCHANGED discard

\* card/take
Take ==
    /\ MayTake
    /\ FinalizeBout("take", [hands EXCEPT ![defender] = @ \cup OnTable])
    /\ UNCHANGED discard

MayPass(p) == phase = "active" /\ p \in Attackers /\ bout # {} /\ p \notin passed

\* card/pass; the bout ends when every card is beaten and every attacker passed.
Pass(p) ==
    /\ MayPass(p)
    /\ IF Open = {} /\ Attackers \subseteq passed \cup {p}
       THEN /\ FinalizeBout("pass", hands)
            /\ discard' = discard \cup OnTable
       ELSE /\ passed' = passed \cup {p}
            /\ UNCHANGED <<order, hands, gone, phase, deck, trump, bout, attacker, defender, discard>>

DurakNext ==
    \/ \E p \in Seated : \E card \in hands[p] : Attack(p, card)
    \/ \E e \in bout, card \in hands[defender] : Defend(e, card)
    \/ Take
    \/ \E p \in Seated : Pass(p)

DurakSpec == DurakInit /\ [][DurakNext]_durakVars
=============================================================================
