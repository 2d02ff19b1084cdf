----------------------------- MODULE MCServices -----------------------------
(* Three callers of one lock; an OAuth identity with an address that may be  *)
(* registered here too, and one without.                                     *)
EXTENDS Services
MCMail == [o \in Identities |-> IF o = "mailed" THEN "e1" ELSE Null]
=============================================================================
