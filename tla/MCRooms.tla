------------------------------ MODULE MCRooms ------------------------------
(* Three users for two places; two calls in flight. *)
EXTENDS RoomPage
CONSTANTS ann, bob, cat, c1, c2
MCUsers == {ann, bob, cat}
MCCalls == {c1, c2}
MCSymmetry == Permutations(MCUsers) \cup Permutations(MCCalls)
=============================================================================
