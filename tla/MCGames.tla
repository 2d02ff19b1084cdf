------------------------------ MODULE MCGames ------------------------------
(* Values for the constants of Games: a word game of five players in two     *)
(* teams, one of which is smaller; and a pack of three suits around the      *)
(* nines, every order of it, at tables of two and three.  The session that   *)
(* is not followed never changes, so the run takes states that differ in it  *)
(* for one.                                                                  *)
EXTENDS Games
MCTable == <<"ann", "bob", "cat", "dan", "eve">>
MCSkipPoints == -1
Suit(name, from, to) == {[suit |-> name, rank |-> r] : r \in from..to}
MCPack == Suit("spades", 8, 9) \cup Suit("hearts", 9, 10) \cup Suit("diamonds", 9, 10)
MCShuffles == SetToSeqs(MCPack)
MCTables == {<<"ann", "bob">>, <<"ann", "bob", "cat">>}
MCView == IF part = "words" THEN <<part, vars>> ELSE <<part, cardVars>>
=============================================================================
