----------------------------- MODULE WriteQueue -----------------------------
(***************************************************************************)
(* What storage/AsyncWriter.h promises its callers: tasks submitted by any *)
(* thread run one at a time, in the order of submission, and the           *)
(* destructor returns only after every task submitted before it began has  *)
(* run ("flush").                                                          *)
(***************************************************************************)
EXTENDS Naturals, Sequences

CONSTANT MaxTasks  \* bound: how many tasks are submitted; task n is the n-th

VARIABLES
  submitted,  \* how many tasks were submitted so far
  pending,    \* submitted, not yet run
  done,       \* run, in the order in which they ran
  stopAt,     \* how many were submitted when the destructor began, -1 before
  closed      \* whether the destructor has returned

vars == <<submitted, pending, done, stopAt, closed>>

Init ==
  /\ submitted = 0
  /\ pending = <<>>
  /\ done = <<>>
  /\ stopAt = 0 - 1
  /\ closed = FALSE

Submit ==
  /\ submitted < MaxTasks
  /\ submitted' = submitted + 1
  /\ pending' = Append(pending, submitted + 1)
  /\ UNCHANGED <<done, stopAt, closed>>

RunNext ==
  /\ pending # <<>>
  /\ done' = Append(done, Head(pending))
  /\ pending' = Tail(pending)
  /\ UNCHANGED <<submitted, stopAt, closed>>

BeginStop ==
  /\ stopAt < 0
  /\ stopAt' = submitted
  /\ UNCHANGED <<submitted, pending, done, closed>>

Close ==
  /\ stopAt >= 0
  /\ \A n \in 1..stopAt : \E i \in DOMAIN done : done[i] = n
  /\ closed' = TRUE
  /\ UNCHANGED <<submitted, pending, done, stopAt>>

Next == Submit \/ RunNext \/ BeginStop \/ Close

Spec == Init /\ [][Next]_vars
=============================================================================
