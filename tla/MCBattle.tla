------------------------------ MODULE MCBattle ------------------------------
(* A short battle of two players, one of whom is followed to the client.  *)
EXTENDS Battle

\* From its first input on a player moves, as far as the walls allow, and
\* attacks as fast as the cooldown allows.
MCInputs == {[move |-> TRUE, attack |-> TRUE]}
=============================================================================
