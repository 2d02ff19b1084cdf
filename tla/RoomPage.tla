------------------------------ MODULE RoomPage ------------------------------
(***************************************************************************)
(* A room as it is stored and as it is seen: the rows that RoomsService    *)
(* writes (Rooms), and what the players' pages show of what the room does  *)
(* (Screens).  They share no step, so a behaviour follows one of them and  *)
(* the other stays as it begins.                                           *)
(***************************************************************************)
EXTENDS Rooms, Screens

VARIABLE part  \* the one that is followed

PageInit == part \in {"rows", "screens"} /\ Init /\ ScreensInit

PageNext ==
    \/ part = "rows" /\ UNCHANGED <<screens, part>> /\ Next
    \/ part = "screens" /\ UNCHANGED <<vars, part>> /\ ScreensNext

PageSpec == PageInit /\ [][PageNext]_<<vars, screens, part>>
=============================================================================
