--------------------------- MODULE RoomLifecycle ---------------------------
(***************************************************************************)
(* The life of a room as its members see it: lobby, in_game, results,      *)
(* lobby.  A session begins in the lobby and ends once: it is finished,    *)
(* and its results are shown before the room returns, or it is aborted     *)
(* and the room is in the lobby at once.  RoomRuntime implements this.     *)
(***************************************************************************)
EXTENDS Naturals

VARIABLES
    status,   \* "lobby", "in_game" or "results"
    session   \* how many sessions the room has begun

vars == <<status, session>>

Init == status = "lobby" /\ session = 0

Begin == status = "lobby" /\ status' = "in_game" /\ session' = session + 1

Finish == status = "in_game" /\ status' = "results" /\ session' = session

Abort == status = "in_game" /\ status' = "lobby" /\ session' = session

Return == status = "results" /\ status' = "lobby" /\ session' = session

Next == Begin \/ Finish \/ Abort \/ Return

Spec == Init /\ [][Next]_vars
=============================================================================
