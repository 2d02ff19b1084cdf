---------------------------- MODULE MCRoomRuntime ----------------------------
(* Two users, two sessions and three calls in flight, one of them a removal. *)
EXTENDS RoomRuntime
CONSTANTS ann, bob, c1, c2, c3
MCUsers == {ann, bob}
MCCalls == {c1, c2, c3}
MCRemovals == {c3}
=============================================================================
