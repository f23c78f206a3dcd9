------------------------------ MODULE MCLobby -------------------------------
(***************************************************************************)
(* The parts of the lobby thread that share no state, checked side by      *)
(* side: its EventLoop with two posting threads, its TimerWheel and its    *)
(* MatchQueue.  part says which of them a behaviour is about; the other    *)
(* two stay as they are built.                                             *)
(*                                                                         *)
(* The wheel has three slots per level: L0 covers 3 ticks and L1 covers 9. *)
(* Ticks are 2 ms, so that rounding and the remainder matter.              *)
(***************************************************************************)
EXTENDS EventLoop, TimerWheel, MatchQueueSpec

VARIABLE part
partVars == <<vars, wheelVars, queueVars, part>>

\* Delays of 1, 2, 3, 5, 8 and 20 ticks: within L0, exactly a lap, the middle
\* and the farthest tick of L1, and far beyond it.
MCDelays == {0, 4, 6, 9, 16, 40}

LobbyInit ==
  /\ part \in {"loop", "wheel", "queue"}
  /\ Init /\ WheelInit /\ QueueInit

LoopPart  == part = "loop"  /\ Next      /\ UNCHANGED <<wheelVars, queueVars, part>>
WheelPart == part = "wheel" /\ WheelNext /\ UNCHANGED <<vars, queueVars, part>>
QueuePart == part = "queue" /\ QueueNext /\ UNCHANGED <<vars, wheelVars, part>>

\* The fairness is EventLoop's, for the behaviours that are about it.
FairLobby ==
  /\ LobbyInit /\ [][LoopPart \/ WheelPart \/ QueuePart]_partVars
  /\ WF_vars(part = "loop" /\ ThreadStep)
  /\ WF_vars(part = "loop" /\ OwnerStep)
  /\ \A x \in Producers : WF_vars(part = "loop" /\ QueueWrite(x))
=============================================================================
