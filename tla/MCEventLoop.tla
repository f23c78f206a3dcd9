---------------------------- MODULE MCEventLoop -----------------------------
(* The loop with two posting threads; the constants are given by the cfg.  *)
EXTENDS EventLoop
=============================================================================
