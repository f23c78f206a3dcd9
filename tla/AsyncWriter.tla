---------------------------- MODULE AsyncWriter -----------------------------
(***************************************************************************)
(* The asynchronous writer of src/src/storage/AsyncWriter.cc: producers    *)
(* push tasks into front_ under a mutex and then notify a condition        *)
(* variable; the storage thread swaps the whole buffer out under the mutex *)
(* and runs the batch outside it; the destructor sets stop_, notifies and  *)
(* joins.                                                                  *)
(*                                                                         *)
(* A step is a critical section or what happens between two of them.  The  *)
(* condition variable is modelled by what it guarantees: checking the      *)
(* predicate and going to sleep is one step (wait releases the mutex       *)
(* atomically), notify_one wakes the thread only if it sleeps, and it may  *)
(* also wake for no reason.                                                *)
(***************************************************************************)
EXTENDS Integers, Sequences

CONSTANTS
  Producers,  \* the threads that call enqueue
  MaxTasks    \* bound: how many tasks are enqueued; task n is the n-th pushed

ASSUME MaxTasksAssumption == MaxTasks \in Nat

VARIABLES
  front,      \* front_
  stop,       \* stop_
  batch,      \* what is left of the storage thread's batch
  pc,         \* where the storage thread is
  notified,   \* whether the sleeping thread was woken
  ppc,        \* per producer: whether a notify is still to be done
  dpc,        \* where the destructor is
  pushed,     \* how many tasks were pushed so far
  executed,   \* the tasks that ran, in order
  stopAt      \* how many were pushed when stop_ was set, -1 before

vars == <<front, stop, batch, pc, notified, ppc, dpc, pushed, executed, stopAt>>

\* The values each variable ranges over.
TypeOK ==
  /\ front \in Seq(1..MaxTasks) /\ batch \in Seq(1..MaxTasks)
  /\ executed \in Seq(1..MaxTasks)
  /\ stop \in BOOLEAN /\ notified \in BOOLEAN
  /\ pc \in {"check", "asleep", "run", "exited"}
  /\ ppc \in [Producers -> {"idle", "notify"}]
  /\ dpc \in {"alive", "notify", "join", "joined"}
  /\ pushed \in 0..MaxTasks
  /\ stopAt \in -1..MaxTasks

Init ==
  /\ front = <<>> /\ batch = <<>> /\ executed = <<>>
  /\ stop = FALSE
  /\ pc = "check" /\ notified = FALSE
  /\ ppc = [x \in Producers |-> "idle"]
  /\ dpc = "alive"
  /\ pushed = 0
  /\ stopAt = -1

\* Mutants: a notify that no one hears; a task pushed at the wrong end.
NotifyLost == UNCHANGED notified
PushedFirst(t) == <<t>> \o front

\* cond_.notify_one().
Notify == notified' = (notified \/ pc = "asleep")

\* front_.push_back(t).
Pushed(t) == Append(front, t)

\* enqueue: the critical section, then the notify.
EnqueuePush(x) ==
  /\ ppc[x] = "idle" /\ dpc # "joined"
  /\ pushed < MaxTasks
  /\ front' = Pushed(pushed + 1)
  /\ pushed' = pushed + 1
  /\ ppc' = [ppc EXCEPT ![x] = "notify"]
  /\ UNCHANGED <<stop, batch, pc, notified, dpc, executed, stopAt>>

EnqueueNotify(x) ==
  /\ ppc[x] = "notify"
  /\ ppc' = [ppc EXCEPT ![x] = "idle"]
  /\ Notify
  /\ UNCHANGED <<front, stop, batch, pc, dpc, pushed, executed, stopAt>>

\* The destructor: set stop_, notify, join.
DtorStop ==
  /\ dpc = "alive"
  /\ stop' = TRUE
  /\ stopAt' = pushed
  /\ dpc' = "notify"
  /\ UNCHANGED <<front, batch, pc, notified, ppc, pushed, executed>>

DtorNotify ==
  /\ dpc = "notify"
  /\ Notify
  /\ dpc' = "join"
  /\ UNCHANGED <<front, stop, batch, pc, ppc, pushed, executed, stopAt>>

DtorJoin ==
  /\ dpc = "join" /\ pc = "exited"
  /\ dpc' = "joined"
  /\ UNCHANGED <<front, stop, batch, pc, notified, ppc, pushed, executed, stopAt>>

\* Mutant: stop_ alone ends the thread.
MayExitAtOnce == stop

\* The exit test: nothing left in front_ and told to stop.
MayExit == front = <<>> /\ stop

\* threadFunc, one critical section: sleep, leave, or take the whole buffer.
ThreadSleep ==
  /\ pc = "check"
  /\ ~stop /\ front = <<>>
  /\ pc' = "asleep" /\ notified' = FALSE
  /\ UNCHANGED <<front, stop, batch, ppc, dpc, pushed, executed, stopAt>>

ThreadExit ==
  /\ pc = "check"
  /\ MayExit
  /\ pc' = "exited"
  /\ UNCHANGED <<front, stop, batch, notified, ppc, dpc, pushed, executed, stopAt>>

ThreadSwap ==
  /\ pc = "check"
  /\ front # <<>> /\ ~MayExit
  /\ batch' = front /\ front' = batch
  /\ pc' = "run"
  /\ UNCHANGED <<stop, notified, ppc, dpc, pushed, executed, stopAt>>

\* Waking up: the predicate is checked again.
ThreadWake ==
  /\ pc = "asleep"
  /\ pc' = "check" /\ notified' = FALSE
  /\ UNCHANGED <<front, stop, batch, ppc, dpc, pushed, executed, stopAt>>

\* Outside the mutex: run the batch, task by task, then clear it.
ThreadRun ==
  /\ pc = "run" /\ batch # <<>>
  /\ executed' = Append(executed, Head(batch))
  /\ batch' = Tail(batch)
  /\ UNCHANGED <<front, stop, pc, notified, ppc, dpc, pushed, stopAt>>

ThreadBatchDone ==
  /\ pc = "run" /\ batch = <<>>
  /\ pc' = "check"
  /\ UNCHANGED <<front, stop, batch, notified, ppc, dpc, pushed, executed, stopAt>>

ThreadStep == ThreadSleep \/ ThreadExit \/ ThreadSwap \/ ThreadRun \/ ThreadBatchDone

Next ==
  \/ \E x \in Producers : EnqueuePush(x) \/ EnqueueNotify(x)
  \/ DtorStop \/ DtorNotify \/ DtorJoin
  \/ ThreadStep \/ ThreadWake

Spec == Init /\ [][Next]_vars

\* The threads are scheduled; a sleeping thread need wake only once notified.
Fairness ==
  /\ WF_vars(ThreadStep)
  /\ WF_vars(notified /\ ThreadWake)
  /\ \A x \in Producers : WF_vars(EnqueueNotify(x))
  /\ WF_vars(DtorNotify) /\ WF_vars(DtorJoin)

-----------------------------------------------------------------------------

\* The writer implements the FIFO with flush that its header describes: the two
\* buffers together are the pending queue.
Abstract == INSTANCE WriteQueue WITH
  submitted <- pushed, pending <- batch \o front, done <- executed,
  closed <- dpc = "joined"

\* Tasks run in the order of the pushes, none twice, and the destructor returns
\* only when everything pushed before it has run.
ImplementsWriteQueue == Abstract!Spec

\* No task is lost or reordered between the two buffers: what ran, then the rest
\* of the batch, then front_, is the sequence of all pushes.
NothingLost == executed \o batch \o front = [n \in 1..pushed |-> n]

\* The thread never sleeps through work: while it sleeps un-notified with a task
\* or a stop waiting, the notify of whoever caused it is still to come.
NoLostWakeup ==
  pc = "asleep" /\ ~notified /\ (front # <<>> \/ stop)
    => dpc = "notify" \/ \E x \in Producers : ppc[x] = "notify"

\* Every task pushed before the destructor sets stop_ is eventually run.
EveryTaskRuns ==
  \A n \in 1..MaxTasks :
    (pushed >= n /\ ~stop) ~> (\E i \in DOMAIN executed : executed[i] = n)
=============================================================================
