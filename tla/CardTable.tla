----------------------------- MODULE CardTable -----------------------------
(***************************************************************************)
(* What Durak and Nine share: the state every card game keeps and the      *)
(* helpers of engines/card-engine.ts.  A card has a suit and a rank and is *)
(* in the pack once, so hands are sets: a card in a hand is found by its   *)
(* key, and the order of a hand is only shown.  The shuffle (rng.ts) may   *)
(* give any order of the pack.                                             *)
(***************************************************************************)
EXTENDS Naturals, SequencesExt

CONSTANTS
    Tables,  \* the orders of players a session may have
    Pack,    \* the cards of buildDeck36
    Shuffles \* the orders of the pack the seeded shuffle may give

ASSUME PackAssumption ==
    /\ IsFiniteSet(Pack)
    /\ \A c \in Pack : c = [suit |-> c.suit, rank |-> c.rank] /\ c.rank \in Nat

ASSUME ShuffleAssumption ==
    \A s \in Shuffles : s \in Seq(Pack) /\ IsInjective(s) /\ Range(s) = Pack

ASSUME TableAssumption ==
    \A t \in Tables : t \in Seq(STRING) /\ Len(t) >= 2 /\ IsInjective(t)

VARIABLES
    order,  \* the playerIds in turn order
    hands,  \* each player's cards
    gone,   \* finished: the players who are out, in the order of their places
    phase   \* "active" or "finished"

Seated == Range(order)
Out == Range(gone)
Playing == Seated \ Out

\* dealHands: one card per player and round, from the front of the deck
DealtTo(deck, seats, seat, perPlayer) ==
    {deck[i] : i \in {j \in DOMAIN deck :
                        j <= perPlayer * seats /\ (j - 1) % seats = seat - 1}}
DealHands(deck, players, perPlayer) ==
    [p \in Range(players) |->
        DealtTo(deck, Len(players), CHOOSE i \in DOMAIN players : players[i] = p, perPlayer)]
Undealt(deck, players, perPlayer) == SubSeq(deck, perPlayer * Len(players) + 1, Len(deck))

Seat(p) == CHOOSE i \in DOMAIN order : order[i] = p
After(p, k) == order[((Seat(p) - 1 + k) % Len(order)) + 1]

\* The next player in turn order who is not to be skipped
NextPlayer(p, skip) ==
    LET steps == {k \in 1..Len(order) : After(p, k) \notin skip}
    IN  IF steps = {} THEN p ELSE After(p, Min(steps))

\* A sequence without the members that are not in S: SelectSeq, as a function.
Keeping(s, S) ==
    LET kept[i \in 0..Len(s)] ==
            IF i = 0 THEN << >>
            ELSE IF s[i] \in S THEN Append(kept[i - 1], s[i]) ELSE kept[i - 1]
    IN  kept[Len(s)]

\* A player puts a card down.
Plays(p, card) ==
    /\ card \in hands[p]
    /\ hands' = [hands EXCEPT ![p] = @ \ {card}]
=============================================================================
