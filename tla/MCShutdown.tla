----------------------------- MODULE MCShutdown -----------------------------
(* Shutdown with two rooms; the constants are given by the cfg.            *)
EXTENDS Shutdown
=============================================================================
