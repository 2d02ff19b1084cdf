---------------------------- MODULE MCWordSession ----------------------------
(* Two explainers and three turns; two requests of players and a timer's in  *)
(* flight at a time.                                                         *)
EXTENDS WordSession
CONSTANTS r1, r2, r3
MCPlayers == <<"ann", "bob">>
MCRequests == {r1, r2, r3}
=============================================================================
