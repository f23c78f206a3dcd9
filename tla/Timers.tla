------------------------------- MODULE Timers -------------------------------
(***************************************************************************)
(* What a user of timer/TimerWheel.h relies on: a timer fires once, at the *)
(* tick it was set for, unless it is cancelled first.                      *)
(***************************************************************************)
EXTENDS Naturals

VARIABLES
  now,    \* the current tick
  armed,  \* [id, due] of the timers that will fire
  fired   \* ids that have fired

vars == <<now, armed, fired>>

Init == now = 0 /\ armed = {} /\ fired = {}

\* A new timer is due at a later tick.
Add ==
  \E a \in armed' \ armed :
    /\ armed' = armed \cup {a}
    /\ a.due > now
    /\ a.id \notin fired /\ \A b \in armed : b.id # a.id
    /\ UNCHANGED <<now, fired>>

Cancel ==
  /\ \E a \in armed : armed' = armed \ {a}
  /\ UNCHANGED <<now, fired>>

\* Time does not pass a timer that is due.
Tick ==
  /\ \A a \in armed : a.due > now
  /\ now' = now + 1
  /\ UNCHANGED <<armed, fired>>

Fire ==
  /\ \E a \in armed :
       /\ a.due = now
       /\ armed' = armed \ {a}
       /\ fired' = fired \cup {a.id}
  /\ UNCHANGED now

Next == Add \/ Cancel \/ Tick \/ Fire

Spec == Init /\ [][Next]_vars
=============================================================================
