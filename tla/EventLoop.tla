------------------------------ MODULE EventLoop ------------------------------
(***************************************************************************)
(* One EventLoop and the EventLoopThread that runs it (src/src/net):       *)
(* queueInLoop from other threads and from functors, the eventfd wakeup,   *)
(* the loop itself, quit, and the start and the destruction of the thread. *)
(*                                                                         *)
(* Steps are critical sections and system calls.  The eventfd is watched   *)
(* edge-triggered: a write raises an edge, and epoll_wait reports it if    *)
(* the counter is still positive.  epoll_wait may also return because of   *)
(* its 10 s timeout or another channel.                                    *)
(***************************************************************************)
EXTENDS Naturals, Sequences

CONSTANTS
  Producers,  \* threads other than the loop's that post functors
  MaxTasks    \* bound: how many functors are posted; n is the n-th pushed

ASSUME MaxTasksAssumption == MaxTasks \in Nat

VARIABLES
  tpc,       \* where the loop thread is
  loopSet,   \* EventLoopThread::loop_ is not null
  quit,      \* quit_
  counter,   \* the eventfd counter (0, or 1 for positive)
  edge,      \* an edge of the eventfd is not reported yet
  pending,   \* pendingFunctors_
  functors,  \* what is left of doPendingFunctors' local batch
  ppc,       \* per producer: between the push and the write of queueInLoop
  nested,    \* the running functor is between push and write of its own post
  opc,       \* where the owner of the EventLoopThread is
  pushed,    \* how many functors were pushed
  executed   \* the functors that ran, in order

vars == <<tpc, loopSet, quit, counter, edge, pending, functors, ppc, nested,
          opc, pushed, executed>>

\* The values each variable ranges over.
TypeOK ==
  /\ tpc \in {"unborn", "built", "published", "test", "poll", "wakeup",
              "swap", "run", "left", "dead"}
  /\ loopSet \in BOOLEAN /\ quit \in BOOLEAN /\ edge \in BOOLEAN
  /\ counter \in {0, 1}
  /\ pending \in Seq(1..MaxTasks) /\ functors \in Seq(1..MaxTasks)
  /\ ppc \in [Producers -> {"idle", "write"}] /\ nested \in BOOLEAN
  /\ opc \in {"start", "wait", "use", "quit", "write", "join", "done"}
  /\ pushed \in 0..MaxTasks /\ executed \in Seq(1..MaxTasks)

Init ==
  /\ tpc = "unborn" /\ loopSet = FALSE /\ quit = FALSE
  /\ counter = 0 /\ edge = FALSE
  /\ pending = <<>> /\ functors = <<>>
  /\ ppc = [x \in Producers |-> "idle"] /\ nested = FALSE
  /\ opc = "start" /\ pushed = 0 /\ executed = <<>>

\* Mutant: the write of the eventfd is left out.
WakeupNot == UNCHANGED <<counter, edge>>

\* ::write(wakeupFd_, ...).
Wakeup == counter' = 1 /\ edge' = TRUE

\* EventLoopThread::mutex_ is held by the owner while it calls quit.
OwnerLocks == opc \in {"quit", "write"}

-----------------------------------------------------------------------------
(* The loop thread: threadFunc, and loop() inside it.                      *)

\* The EventLoop is constructed on the thread's stack.
ThreadBuild ==
  /\ tpc = "unborn" /\ opc # "start"
  /\ tpc' = "built"
  /\ UNCHANGED <<loopSet, quit, counter, edge, pending, functors, ppc, nested,
                 opc, pushed, executed>>

\* loop_ = &loop under the mutex, then notify.
ThreadPublish ==
  /\ tpc = "built" /\ ~OwnerLocks
  /\ loopSet' = TRUE
  /\ tpc' = "published"
  /\ UNCHANGED <<quit, counter, edge, pending, functors, ppc, nested, opc,
                 pushed, executed>>

\* loop() begins by clearing quit_.
LoopEnter ==
  /\ tpc = "published"
  /\ quit' = FALSE
  /\ tpc' = "test"
  /\ UNCHANGED <<loopSet, counter, edge, pending, functors, ppc, nested, opc,
                 pushed, executed>>

\* The test of the while loop.
LoopTest ==
  /\ tpc = "test"
  /\ tpc' = IF quit THEN "left" ELSE "poll"
  /\ UNCHANGED <<loopSet, quit, counter, edge, pending, functors, ppc, nested,
                 opc, pushed, executed>>

\* epoll_wait reports the eventfd.
PollWakeup ==
  /\ tpc = "poll" /\ edge /\ counter > 0
  /\ edge' = FALSE
  /\ tpc' = "wakeup"
  /\ UNCHANGED <<loopSet, quit, counter, pending, functors, ppc, nested, opc,
                 pushed, executed>>

\* epoll_wait returns without it: the timeout, or other channels only.
PollOther ==
  /\ tpc = "poll"
  /\ tpc' = "swap"
  /\ UNCHANGED <<loopSet, quit, counter, edge, pending, functors, ppc, nested,
                 opc, pushed, executed>>

\* handleWakeup: the read clears the counter.
HandleWakeup ==
  /\ tpc = "wakeup"
  /\ counter' = 0
  /\ tpc' = "swap"
  /\ UNCHANGED <<loopSet, quit, edge, pending, functors, ppc, nested, opc,
                 pushed, executed>>

\* Mutant: the functors are copied, and stay pending.
SwapPendingCopies ==
  /\ tpc = "swap"
  /\ functors' = pending
  /\ tpc' = "run"
  /\ UNCHANGED <<loopSet, quit, counter, edge, pending, ppc, nested, opc, pushed,
                 executed>>

\* doPendingFunctors: the swap under the mutex.
SwapPending ==
  /\ tpc = "swap"
  /\ functors' = pending /\ pending' = <<>>
  /\ tpc' = "run"
  /\ UNCHANGED <<loopSet, quit, counter, edge, ppc, nested, opc, pushed, executed>>

\* doPendingFunctors: one functor.  It may itself post a functor with
\* queueInLoop, whose push is part of this step and whose write is the next.
RunFunctor(posts) ==
  /\ tpc = "run" /\ functors # <<>> /\ ~nested
  /\ executed' = Append(executed, Head(functors))
  /\ functors' = Tail(functors)
  /\ posts => pushed < MaxTasks
  /\ pending' = IF posts THEN Append(pending, pushed + 1) ELSE pending
  /\ pushed' = IF posts THEN pushed + 1 ELSE pushed
  /\ nested' = posts
  /\ UNCHANGED <<tpc, loopSet, quit, counter, edge, ppc, opc>>

NestedWrite ==
  /\ nested
  /\ Wakeup
  /\ nested' = FALSE
  /\ UNCHANGED <<tpc, loopSet, quit, pending, functors, ppc, opc, pushed, executed>>

FunctorsDone ==
  /\ tpc = "run" /\ functors = <<>> /\ ~nested
  /\ tpc' = "test"
  /\ UNCHANGED <<loopSet, quit, counter, edge, pending, functors, ppc, nested,
                 opc, pushed, executed>>

\* Mutant: the thread does not wait for the mutex before it leaves.
MayDieUnlocked == tpc = "left"

\* loop() has returned and the mutex is free.
MayDie == tpc = "left" /\ ~OwnerLocks

\* loop_ = nullptr under the mutex; then the EventLoop is destroyed.
ThreadEnd ==
  /\ MayDie
  /\ loopSet' = FALSE
  /\ tpc' = "dead"
  /\ UNCHANGED <<quit, counter, edge, pending, functors, ppc, nested, opc,
                 pushed, executed>>

ThreadStep ==
  \/ ThreadBuild \/ ThreadPublish \/ LoopEnter \/ LoopTest \/ PollWakeup
  \/ HandleWakeup \/ SwapPending \/ NestedWrite \/ FunctorsDone \/ ThreadEnd
  \/ \E posts \in BOOLEAN : RunFunctor(posts)

-----------------------------------------------------------------------------
(* Other threads.                                                          *)

\* queueInLoop: push under the mutex, then write.  Callers have the pointer
\* startLoop returned and stop posting before the owner destroys the thread.
QueuePush(x) ==
  /\ opc = "use" /\ ppc[x] = "idle" /\ pushed < MaxTasks
  /\ pending' = Append(pending, pushed + 1)
  /\ pushed' = pushed + 1
  /\ ppc' = [ppc EXCEPT ![x] = "write"]
  /\ UNCHANGED <<tpc, loopSet, quit, counter, edge, functors, nested, opc, executed>>

QueueWrite(x) ==
  /\ ppc[x] = "write"
  /\ Wakeup
  /\ ppc' = [ppc EXCEPT ![x] = "idle"]
  /\ UNCHANGED <<tpc, loopSet, quit, pending, functors, nested, opc, pushed, executed>>

\* startLoop: spawn the thread, then wait until loop_ is set.
OwnerSpawn ==
  /\ opc = "start"
  /\ opc' = "wait"
  /\ UNCHANGED <<tpc, loopSet, quit, counter, edge, pending, functors, ppc,
                 nested, pushed, executed>>

OwnerGetsLoop ==
  /\ opc = "wait" /\ loopSet
  /\ opc' = "use"
  /\ UNCHANGED <<tpc, loopSet, quit, counter, edge, pending, functors, ppc,
                 nested, pushed, executed>>

\* ~EventLoopThread: take the mutex and, if loop_ is set, call quit(): first the
\* flag, then the eventfd; then release the mutex and join.
DtorLock ==
  /\ opc = "use" /\ \A x \in Producers : ppc[x] = "idle"
  /\ opc' = IF loopSet THEN "quit" ELSE "join"
  /\ UNCHANGED <<tpc, loopSet, quit, counter, edge, pending, functors, ppc,
                 nested, pushed, executed>>

DtorQuit ==
  /\ opc = "quit"
  /\ quit' = TRUE
  /\ opc' = "write"
  /\ UNCHANGED <<tpc, loopSet, counter, edge, pending, functors, ppc, nested,
                 pushed, executed>>

DtorWrite ==
  /\ opc = "write"
  /\ Wakeup
  /\ opc' = "join"
  /\ UNCHANGED <<tpc, loopSet, quit, pending, functors, ppc, nested, pushed, executed>>

DtorJoin ==
  /\ opc = "join" /\ tpc = "dead"
  /\ opc' = "done"
  /\ UNCHANGED <<tpc, loopSet, quit, counter, edge, pending, functors, ppc,
                 nested, pushed, executed>>

OwnerStep == OwnerSpawn \/ OwnerGetsLoop \/ DtorQuit \/ DtorWrite \/ DtorJoin

Next ==
  \/ ThreadStep \/ PollOther \/ OwnerStep \/ DtorLock
  \/ \E x \in Producers : QueuePush(x) \/ QueueWrite(x)

Spec == Init /\ [][Next]_vars

\* The threads are scheduled.  epoll_wait need not time out: what the loop does
\* promptly it does because the eventfd wakes it.  The owner need not destroy
\* the thread.
FairSpec ==
  /\ Spec
  /\ WF_vars(ThreadStep) /\ WF_vars(OwnerStep)
  /\ \A x \in Producers : WF_vars(QueueWrite(x))

-----------------------------------------------------------------------------

\* Functors run in the order of the pushes, none lost or run twice, whichever
\* threads post them and wherever the swap falls.
RunInOrder == executed \o functors \o pending = [n \in 1..pushed |-> n]

\* The loop is never left waiting in epoll_wait with a functor or a quit to look
\* at, unless the eventfd is about to be written: nothing waits for the 10 s
\* timeout.
NoLostWakeup ==
  tpc = "poll" /\ ~(edge /\ counter > 0) /\ (pending # <<>> \/ quit)
    => opc = "write" \/ \E x \in Producers : ppc[x] = "write"

\* quit() never touches a destroyed EventLoop: the mutex keeps the thread from
\* leaving while the destructor is inside quit().
QuitTouchesLiveLoop == OwnerLocks => tpc # "dead"

\* A posted functor runs promptly, unless the loop is told to quit.
PostedRuns ==
  \A n \in 1..MaxTasks :
    (pushed >= n) ~> (quit \/ \E i \in DOMAIN executed : executed[i] = n)

\* A quit that finds the loop running ends it.
QuitEndsRunningLoop ==
  (quit /\ tpc \in {"test", "poll", "wakeup", "swap", "run"}) ~> (tpc = "dead")

\* "quit: thread-safe, wakes the loop when called from another thread": the
\* destructor's quit() ends the loop and join returns.  The code does not keep
\* this when quit() comes before loop() has cleared quit_.
DtorReturns == (opc = "quit") ~> (opc = "done")
=============================================================================
