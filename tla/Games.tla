------------------------------- MODULE Games -------------------------------
(***************************************************************************)
(* The games of the catalogue: a session of a word game or one of a card   *)
(* game (registry.ts).  A room plays one at a time and they share nothing, *)
(* so a behaviour follows one of the two sessions and the other stays as   *)
(* it begins.                                                              *)
(***************************************************************************)
EXTENDS WordScreen, CardScreen

VARIABLE part  \* the session that is followed

games == <<vars, cardVars, part>>

GamesInit == part \in {"words", "cards"} /\ Init /\ CardsInit

GamesNext ==
    \/ part = "words" /\ UNCHANGED <<cardVars, part>> /\ Next
    \/ part = "cards" /\ UNCHANGED <<vars, part>> /\ CardsNext

GamesSpec == GamesInit /\ [][GamesNext]_games
=============================================================================
