----------------------------- MODULE CardGames -----------------------------
(***************************************************************************)
(* A session of a card game as registry.ts builds it: the room's game id   *)
(* picks Durak or Nine once, and every move goes to that definition.  The  *)
(* other game's variables keep their initial values.                       *)
(***************************************************************************)
EXTENDS Durak, Nine

VARIABLE game  \* "durak" or "nine"

cardVars == <<order, hands, gone, phase, deck, trump, bout, attacker, defender,
          discard, passed, layout, turnPlayer, game>>

onlyDurak == <<deck, trump, bout, attacker, defender, discard, passed>>
onlyNine == <<layout, turnPlayer>>

NoPlayer == "nobody"

CardsInit ==
    \/ /\ game = "durak"
       /\ DurakInit
       /\ layout = {}
       /\ turnPlayer = NoPlayer
    \/ /\ game = "nine"
       /\ NineInit
       /\ deck = << >> /\ trump = NoSuit /\ bout = {} /\ discard = {} /\ passed = {}
       /\ attacker = NoPlayer /\ defender = NoPlayer

CardsNext ==
    \/ game = "durak" /\ DurakNext /\ UNCHANGED <<game, onlyNine>>
    \/ game = "nine" /\ NineNext /\ UNCHANGED <<game, onlyDurak>>

CardsSpec == CardsInit /\ [][CardsNext]_cardVars

-----------------------------------------------------------------------------
InDurak == game = "durak"
InNine == game = "nine"

\* Every card of the pack is in exactly one place, whatever is drawn, taken,
\* beaten or thrown away (refillHands and finalizeBout copy and rebuild the
\* hands and the deck): no card is lost and none is dealt twice.
CardsOnce ==
    /\ (UNION {hands[p] : p \in Seated}) \cup Range(deck) \cup OnTable
         \cup discard \cup layout = Pack
    /\ MapThenSumSet(LAMBDA p : Cardinality(hands[p]), Seated) + Len(deck)
         + Cardinality(bout) + Cardinality(bout \ Open) + Cardinality(discard)
         + Cardinality(layout) = Cardinality(Pack)

\* While the game is active somebody has a move.  Durak: the roles belong to
\* two different players who are still in, and with an empty table the attacker
\* holds a card and may play it (the deadlock the comment in finalizeBout
\* tells of).  Nine: the player on turn is in, and some hand has a card that
\* fits, so a round of passes comes to somebody who can play.
NobodyIsStuck ==
    phase = "active" =>
        /\ InDurak => /\ {attacker, defender} \subseteq Playing
                      /\ attacker # defender
                      /\ bout = {} => hands[attacker] # {} /\ AttacksLeft
        /\ InNine => turnPlayer \in Playing /\ SomebodyCanPlay

\* The defender is never attacked with more cards than they could beat, were
\* their cards high enough, nor with more than MAX_ATTACKS (maxAttacksAllowed
\* derives the hand the defender began the bout with from the table).
DefenderCanAnswer ==
    InDurak /\ phase = "active" =>
        /\ Cardinality(Open) <= Cardinality(hands[defender])
        /\ Cardinality(bout) <= MaxAttacks

\* Somebody can always move, and what is asked of the defender can be done.
GameGoesOn == NobodyIsStuck /\ DefenderCanAnswer

\* Places are given once and only to players who are out of cards; a game goes
\* on while two are in, and a finished Durak has placed everybody, the one
\* left with cards last; a finished Nine has the one winner.
PlacesRight ==
    /\ IsInjective(gone)
    /\ phase = "active" => /\ Cardinality(Playing) >= 2
                           /\ \A p \in Out : hands[p] = {} /\ deck = << >>
    /\ phase = "finished" /\ InDurak =>
          /\ Out = Seated
          /\ deck = << >> /\ bout = {}
          /\ \A i \in 1..Len(gone) - 1 : hands[gone[i]] = {}
    /\ phase = "finished" /\ InNine =>
          Len(gone) = 1 /\ {p \in Seated : hands[p] = {}} = Out
=============================================================================
