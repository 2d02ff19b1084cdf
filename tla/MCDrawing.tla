----------------------------- MODULE MCDrawing -----------------------------
(* Values for the constants of Drawing: three players, the smallest table   *)
(* that the catalogue seats for Crocodile, one turn each.  No action of     *)
(* Drawing but the scoring ones looks at the words and the scores, so the   *)
(* run takes states that differ in nothing else for one.                    *)
EXTENDS Drawing
MCTable == <<"ann", "bob", "cat">>
MCView == <<rotation, clock, now, channel>>
=============================================================================
