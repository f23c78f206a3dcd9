---------------------------- MODULE MCTimerWheel ----------------------------
(* A wheel of three slots per level: L0 covers 3 ticks and L1 covers 9.    *)
(* Ticks are 2 ms, so that rounding and the remainder matter.              *)
EXTENDS TimerWheel

\* Delays of 1, 1, 2, 3, 5, 8 and 20 ticks: within L0, exactly a lap, the middle
\* and the farthest tick of L1, and far beyond it.
MCDelays == {0, 1, 4, 6, 9, 16, 40}
=============================================================================
