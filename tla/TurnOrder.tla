----------------------------- MODULE TurnOrder -----------------------------
(***************************************************************************)
(* What a word game promises its players, whatever its words and scores    *)
(* and however its operations interleave: turns are taken one at a time, a *)
(* turn begins, its clock may be frozen and thawed while it lasts, it ends *)
(* once, and after the last one the game is over for good.                 *)
(* WordGame and WordSession implement this specification.                  *)
(***************************************************************************)
EXTENDS Naturals

CONSTANT TotalTurns

VARIABLES
    turn,   \* the turn to be taken, from 1 on
    phase   \* of that turn: "waiting" to begin, "running", "frozen"; or "over"

vars == <<turn, phase>>

Init == turn = 1 /\ phase = "waiting"

Begin == phase = "waiting" /\ phase' = "running" /\ turn' = turn

Freeze == phase = "running" /\ phase' = "frozen" /\ turn' = turn

Thaw == phase = "frozen" /\ phase' = "running" /\ turn' = turn

End ==
    /\ phase \in {"running", "frozen"}
    /\ turn' = turn + 1
    /\ phase' = IF turn' > TotalTurns THEN "over" ELSE "waiting"

Next == Begin \/ Freeze \/ Thaw \/ End

Spec == Init /\ [][Next]_vars
=============================================================================
