---------------------------- MODULE MCGameServer ----------------------------
(* GameServer on small instances.                                          *)
EXTENDS GameServer, TLC

Symmetry == Permutations(Conns) \cup Permutations(Accounts)
=============================================================================
