--------------------------- MODULE ShutdownProofs ---------------------------
(***************************************************************************)
(* The safety of AsyncWriter and of Shutdown, which composes it with the   *)
(* threads that feed it and end it.                                        *)
(*                                                                         *)
(* First the writer, for any set of producers and any number of tasks:     *)
(* nothing lost, no lost wakeup, and the refinement of WriteQueue.  Then   *)
(* the server's end, for any number of rooms, producers, queries and       *)
(* failures, with two invariants: DownInv is about the main thread, the    *)
(* lobby and the game loops, StoreInv about the tasks that they enqueue    *)
(* and what the storage thread has made of them.                           *)
(***************************************************************************)
EXTENDS Shutdown, QueueLemmas

-----------------------------------------------------------------------------
(* The writer (src/src/storage/AsyncWriter.cc).                            *)

\* Only a running batch holds tasks (threadFunc swaps with an empty buffer).
BatchOnlyRuns == batch # <<>> => pc = "run"

\* The destructor's progress, stop_ and the record of when it was set agree.
StopRecorded ==
  /\ stop <=> dpc # "alive"
  /\ IF stop THEN stopAt \in 0..pushed ELSE stopAt = -1

\* The thread leaves only after everything pushed before stop_ has run.
ExitedFlushed == pc = "exited" => stop /\ stopAt <= Len(executed)

\* The inductive invariant.
WriterInv ==
  /\ TypeOK
  /\ NothingLost
  /\ NoLostWakeup
  /\ BatchOnlyRuns
  /\ StopRecorded
  /\ ExitedFlushed

\* A push: the task goes to the end of the history and its notify is due.
LEMMA PushStep ==
  ASSUME WriterInv, NEW x \in Producers, EnqueuePush(x)
  PROVE  WriterInv'
<1>1. TypeOK'
  <2>1. pushed + 1 \in 1..MaxTasks /\ stopAt \in -1..MaxTasks
    BY MaxTasksAssumption DEF WriterInv, TypeOK, EnqueuePush
  <2>2. front' \in Seq(1..MaxTasks)
    BY <2>1, AppendProperties DEF WriterInv, TypeOK, EnqueuePush, Pushed
  <2> QED
    BY <2>1, <2>2 DEF WriterInv, TypeOK, EnqueuePush
<1>2. NothingLost'
  <2>1. executed \o batch \o Append(front, pushed + 1)
          = Append(executed \o batch \o front, pushed + 1)
    <3>1. /\ executed \in Seq(1..MaxTasks) /\ batch \in Seq(1..MaxTasks)
          /\ front \in Seq(1..MaxTasks) /\ pushed + 1 \in 1..MaxTasks
      BY MaxTasksAssumption DEF WriterInv, TypeOK, EnqueuePush
    <3> QED
      BY SMTT(60), <3>1, PushAppends
  <2>2. Append(executed \o batch \o front, pushed + 1) = [n \in 1..(pushed + 1) |-> n]
    <3>1. pushed \in Nat /\ executed \o batch \o front = [n \in 1..pushed |-> n]
      BY DEF WriterInv, TypeOK, NothingLost
    <3> QED
      BY <3>1, HistoryGrows
  <2>3. /\ executed' = executed /\ batch' = batch
        /\ front' = Append(front, pushed + 1) /\ pushed' = pushed + 1
    BY DEF EnqueuePush, Pushed
  <2> QED
    BY Zenon, <2>1, <2>2, <2>3 DEF NothingLost
<1>3. NoLostWakeup'
  BY DEF WriterInv, TypeOK, NoLostWakeup, EnqueuePush
<1>4. BatchOnlyRuns' /\ StopRecorded' /\ ExitedFlushed'
  BY DEF WriterInv, TypeOK, BatchOnlyRuns, StopRecorded, ExitedFlushed, EnqueuePush
<1> QED
  BY <1>1, <1>2, <1>3, <1>4 DEF WriterInv

\* The two notifies, the rest of the destructor, and sleeping and waking leave
\* the tasks where they are.
LEMMA SignalStep ==
  ASSUME WriterInv,
         \/ \E x \in Producers : EnqueueNotify(x)
         \/ DtorStop \/ DtorNotify \/ DtorJoin \/ ThreadSleep \/ ThreadWake
  PROVE  WriterInv'
<1>1. UNCHANGED <<front, batch, executed, pushed>>
  BY DEF EnqueueNotify, DtorStop, DtorNotify, DtorJoin, ThreadSleep, ThreadWake
<1>2. NothingLost'
  BY <1>1 DEF WriterInv, NothingLost
<1>3. ASSUME NEW x \in Producers, EnqueueNotify(x) PROVE WriterInv'
  <2>1. TypeOK'
    BY <1>3 DEF WriterInv, TypeOK, EnqueueNotify, Notify
  <2>2. NoLostWakeup' /\ BatchOnlyRuns' /\ StopRecorded' /\ ExitedFlushed'
    BY Zenon, <1>3 DEF WriterInv, TypeOK, NoLostWakeup, BatchOnlyRuns, StopRecorded,
                ExitedFlushed, EnqueueNotify, Notify
  <2> QED
    BY <1>2, <2>1, <2>2 DEF WriterInv
<1>4. CASE DtorStop
  <2>1. TypeOK'
    BY <1>4 DEF WriterInv, TypeOK, DtorStop
  <2>2. NoLostWakeup' /\ BatchOnlyRuns' /\ StopRecorded' /\ ExitedFlushed'
    BY <1>4 DEF WriterInv, TypeOK, NoLostWakeup, BatchOnlyRuns, StopRecorded,
                ExitedFlushed, DtorStop
  <2> QED
    BY <1>2, <2>1, <2>2 DEF WriterInv
<1>5. CASE DtorNotify
  <2>1. TypeOK'
    BY <1>5 DEF WriterInv, TypeOK, DtorNotify, Notify
  <2>2. NoLostWakeup' /\ BatchOnlyRuns' /\ StopRecorded' /\ ExitedFlushed'
    BY Zenon, <1>5 DEF WriterInv, TypeOK, NoLostWakeup, BatchOnlyRuns, StopRecorded,
                ExitedFlushed, DtorNotify, Notify
  <2> QED
    BY <1>2, <2>1, <2>2 DEF WriterInv
<1>6. CASE DtorJoin
  BY <1>2, <1>6 DEF WriterInv, TypeOK, NoLostWakeup, BatchOnlyRuns, StopRecorded,
                    ExitedFlushed, DtorJoin
<1>7. CASE ThreadSleep
  BY Zenon, <1>2, <1>7 DEF WriterInv, TypeOK, NoLostWakeup, BatchOnlyRuns, StopRecorded,
                    ExitedFlushed, ThreadSleep
<1>8. CASE ThreadWake
  BY Zenon, <1>2, <1>8 DEF WriterInv, TypeOK, NoLostWakeup, BatchOnlyRuns, StopRecorded,
                    ExitedFlushed, ThreadWake
<1> QED
  BY <1>3, <1>4, <1>5, <1>6, <1>7, <1>8

\* Taking the whole buffer, leaving, running a task, ending a batch.
LEMMA ThreadWorkStep ==
  ASSUME WriterInv, ThreadExit \/ ThreadSwap \/ ThreadRun \/ ThreadBatchDone
  PROVE  WriterInv'
<1>1. /\ executed \in Seq(1..MaxTasks) /\ batch \in Seq(1..MaxTasks)
      /\ front \in Seq(1..MaxTasks) /\ pushed \in Nat
      /\ executed \o batch \o front = [n \in 1..pushed |-> n]
  BY MaxTasksAssumption DEF WriterInv, TypeOK, NothingLost
<1>2. CASE ThreadExit
  <2>1. batch = <<>> /\ front = <<>> /\ stop
    BY <1>2 DEF WriterInv, BatchOnlyRuns, ThreadExit, MayExit
  <2>2. executed = [n \in 1..pushed |-> n]
    BY <1>1, <2>1, ConcatEmptySeq
  <2>3. ExitedFlushed'
    <3>1. Len(executed) = pushed
      BY <1>1, <2>2
    <3> QED
      BY <1>2, <2>1, <3>1 DEF WriterInv, StopRecorded, ExitedFlushed, ThreadExit
  <2> QED
    BY <1>2, <2>1, <2>3 DEF WriterInv, TypeOK, NothingLost, NoLostWakeup, BatchOnlyRuns,
                            StopRecorded, ThreadExit
<1>3. CASE ThreadSwap
  <2>1. batch = <<>>
    BY <1>3 DEF WriterInv, BatchOnlyRuns, ThreadSwap
  <2>2. executed \o front \o <<>> = executed \o <<>> \o front
    BY <1>1, ConcatEmptySeq, ConcatProperties
  <2>3. NothingLost'
    BY <1>1, <1>3, <2>1, <2>2 DEF NothingLost, ThreadSwap
  <2> QED
    BY <1>3, <2>1, <2>3 DEF WriterInv, TypeOK, NoLostWakeup, BatchOnlyRuns, StopRecorded,
                            ExitedFlushed, ThreadSwap
<1>4. CASE ThreadRun
  <2>1. Append(executed, Head(batch)) \o Tail(batch) = executed \o batch
    BY SMTT(60), <1>1, <1>4, HeadMoves DEF ThreadRun
  <2>2. NothingLost'
    BY Zenon, <1>1, <1>4, <2>1 DEF NothingLost, ThreadRun
  <2>3. executed' \in Seq(1..MaxTasks) /\ batch' \in Seq(1..MaxTasks)
    BY Zenon, <1>1, <1>4, HeadTailProperties, AppendProperties DEF ThreadRun
  <2> QED
    BY <1>4, <2>2, <2>3 DEF WriterInv, TypeOK, NoLostWakeup, BatchOnlyRuns, StopRecorded,
                            ExitedFlushed, ThreadRun
<1>5. CASE ThreadBatchDone
  BY <1>5 DEF WriterInv, TypeOK, NothingLost, NoLostWakeup, BatchOnlyRuns, StopRecorded,
              ExitedFlushed, ThreadBatchDone
<1> QED
  BY <1>2, <1>3, <1>4, <1>5

-----------------------------------------------------------------------------

\* The invariant holds in every reachable state of the writer.
THEOREM WriterInvHolds == Spec => []WriterInv
<1>1. Init => WriterInv
  <2> SUFFICES ASSUME Init PROVE WriterInv
    OBVIOUS
  <2>1. NoLostWakeup /\ BatchOnlyRuns /\ StopRecorded /\ ExitedFlushed
    BY DEF Init, NoLostWakeup, BatchOnlyRuns, StopRecorded, ExitedFlushed
  <2>3. TypeOK
    <3>1. -1 \in -1..MaxTasks /\ 0 \in 0..MaxTasks
      BY MaxTasksAssumption
    <3>2. <<>> \in Seq(1..MaxTasks)
      OBVIOUS
    <3> QED
      BY Zenon, <3>1, <3>2 DEF Init, TypeOK
  <2>2. <<>> \o <<>> \o <<>> = [n \in 1..0 |-> n]
    OBVIOUS
  <2> QED
    BY <2>1, <2>2, <2>3 DEF Init, WriterInv, NothingLost
<1>2. WriterInv /\ [Next]_vars => WriterInv'
  <2> SUFFICES ASSUME WriterInv, [Next]_vars PROVE WriterInv'
    OBVIOUS
  <2>1. CASE UNCHANGED vars
    BY <2>1 DEF vars, WriterInv, TypeOK, NothingLost, NoLostWakeup, BatchOnlyRuns,
                StopRecorded, ExitedFlushed
  <2>2. CASE Next
    BY <2>2, PushStep, SignalStep, ThreadWorkStep DEF Next, ThreadStep
  <2> QED
    BY <2>1, <2>2
<1> QED
  BY <1>1, <1>2, PTL DEF Spec

\* No task is lost, duplicated or reordered by the buffer swap.
THEOREM NothingLostHolds == Spec => []NothingLost
<1>1. WriterInv => NothingLost
  BY DEF WriterInv
<1> QED
  BY <1>1, WriterInvHolds, PTL

\* The storage thread never sleeps through a task or a stop.
THEOREM NoLostWakeupHolds == Spec => []NoLostWakeup
<1>1. WriterInv => NoLostWakeup
  BY DEF WriterInv
<1> QED
  BY <1>1, WriterInvHolds, PTL

\* A step of the writer is a step of the FIFO with flush, or none of its own:
\* a push submits, a task that runs is the next one, stop_ begins the stop, and
\* the join closes, by when the thread has left with everything flushed.
LEMMA WriteQueueStep ==
  ASSUME WriterInv, [Next]_vars
  PROVE  [Abstract!Next]_(Abstract!vars)
<1>1. /\ executed \in Seq(1..MaxTasks) /\ batch \in Seq(1..MaxTasks)
      /\ front \in Seq(1..MaxTasks) /\ pushed \in 0..MaxTasks
  BY DEF WriterInv, TypeOK
<1>2. ASSUME NEW x \in Producers, EnqueuePush(x) PROVE Abstract!Submit
  <2>1. batch \o Append(front, pushed + 1) = Append(batch \o front, pushed + 1)
    <3>1. pushed + 1 \in 1..MaxTasks /\ <<>> \in Seq(1..MaxTasks)
      BY <1>1, <1>2, MaxTasksAssumption DEF EnqueuePush
    <3>2. <<>> \o batch \o Append(front, pushed + 1) = Append(<<>> \o batch \o front, pushed + 1)
      BY SMTT(60), <1>1, <3>1, PushAppends
    <3> QED
      BY SMTT(60), <1>1, <3>2, ConcatEmptySeq
  <2> QED
    BY SMTT(60), <1>2, <2>1 DEF EnqueuePush, Pushed, Abstract!Submit
<1>3. CASE ThreadRun
  <2>1. batch # <<>>
    BY <1>3 DEF ThreadRun
  <2>2. /\ batch \o front # <<>> /\ Head(batch \o front) = Head(batch)
        /\ Tail(batch \o front) = Tail(batch) \o front
    BY SMTT(60), <1>1, <2>1
  <2> QED
    BY SMTT(60), <1>3, <2>2 DEF ThreadRun, Abstract!RunNext, Abstract!Next
<1>4. CASE DtorStop
  BY <1>4 DEF WriterInv, StopRecorded, DtorStop, Abstract!BeginStop, Abstract!Next
<1>5. CASE DtorJoin
  <2>1. stopAt \in 0..pushed /\ stopAt <= Len(executed)
    BY <1>5 DEF WriterInv, StopRecorded, ExitedFlushed, DtorJoin
  <2>2. ASSUME NEW n \in 1..stopAt PROVE n \in DOMAIN executed /\ executed[n] = n
    <3>1. n \in 1..pushed /\ n \in 1..Len(executed) /\ n \in DOMAIN executed
      BY <1>1, <2>1
    <3>2. (executed \o batch \o front)[n] = n
      BY <3>1 DEF WriterInv, NothingLost
    <3>3. (executed \o batch)[n] = executed[n] /\ (executed \o batch \o front)[n] = (executed \o batch)[n]
      BY <1>1, <3>1, ConcatProperties
    <3> QED
      BY <3>1, <3>2, <3>3
  <2>3. \A n \in 1..stopAt : \E i \in DOMAIN executed : executed[i] = n
    BY <2>2
  <2> QED
    BY <1>5, <2>1, <2>3 DEF DtorJoin, Abstract!Close, Abstract!Next
<1>6. CASE ThreadSwap
  <2>1. batch = <<>>
    BY <1>6 DEF WriterInv, BatchOnlyRuns, ThreadSwap
  <2>2. front \o <<>> = <<>> \o front
    BY <1>1, ConcatEmptySeq
  <2> QED
    BY <1>6, <2>1, <2>2 DEF ThreadSwap, Abstract!vars
<1>7. CASE \/ \E x \in Producers : EnqueueNotify(x)
           \/ DtorNotify \/ ThreadSleep \/ ThreadExit \/ ThreadBatchDone \/ ThreadWake
           \/ UNCHANGED vars
  BY <1>7 DEF EnqueueNotify, DtorNotify, ThreadSleep, ThreadExit, ThreadBatchDone,
              ThreadWake, vars, Abstract!vars
<1> QED
  BY <1>2, <1>3, <1>4, <1>5, <1>6, <1>7 DEF Next, ThreadStep, Abstract!Next

\* The writer implements the FIFO with flush, for any producers and tasks.
THEOREM ImplementsWriteQueueHolds == Spec => ImplementsWriteQueue
<1>1. Init => Abstract!Init
  <2>1. <<>> \o <<>> = <<>> /\ -1 = 0 - 1
    OBVIOUS
  <2> QED
    BY <2>1 DEF Init, Abstract!Init
<1>2. WriterInv /\ [Next]_vars => [Abstract!Next]_(Abstract!vars)
  BY WriteQueueStep
<1> QED
  BY <1>1, <1>2, WriterInvHolds, PTL DEF Spec, ImplementsWriteQueue, Abstract!Spec

-----------------------------------------------------------------------------
(* The end of the server (src/src/game/GameServer.cc, Room.cc).            *)

\* The functors of the lobby and of a game loop, and the kinds of the tasks.
Take == <<"take">>
Final == <<"final">>
End(r) == <<"onRoomEnd", r>>
Result(r) == <<"result", r>>

Job == {Take, Final} \cup {End(r) : r \in Rooms}
GameOp == {"start", "reset", "stop"}
TaskKind == {<<"connect">>, <<"query">>} \cup {Result(r) : r \in Rooms}
Battles == {"none", "made", "running", "ended", "stopped"}

\* The values the variables of the threads range over.
DownType ==
  /\ lobbyQ \in Seq(Job) /\ kind \in Seq(TaskKind)
  /\ gameQ \in [Rooms -> Seq(GameOp)]
  /\ battle \in [Rooms -> Battles]
  /\ rooms \subseteq Rooms /\ looping \subseteq Rooms /\ ticker \subseteq Rooms
  /\ late \subseteq Rooms
  /\ main \in {"start", "started", "up", "waiting", "stopping", "joining", "done", "crashed"}

\* The destructor was not entered; its functor has not run; the pool is going or
\* gone; the rooms whose stop() is still to run.
Early == main \in {"start", "started", "up"}
Untaken == Early \/ main = "waiting"
PoolGoes == main \in {"joining", "done", "crashed"}
ToStop == {r \in Rooms : Occurs(gameQ[r], "stop")}

\* A battle that ended is on its way to onRoomEnd or has its result enqueued,
\* and never both; until the rooms are taken, the result alone removes a room.
Settled(r) ==
  /\ Once(lobbyQ, End(r)) /\ Once(kind, Result(r))
  /\ ~(Occurs(lobbyQ, End(r)) /\ Occurs(kind, Result(r)))
  /\ battle[r] = "ended" <=> Occurs(lobbyQ, End(r)) \/ Occurs(kind, Result(r))
  /\ Untaken => (r \in rooms <=> battle[r] # "none" /\ ~Occurs(kind, Result(r)))

\* The destructor's functor is pending at most once, and only while main waits;
\* before it has run nothing has been stopped, and no room is late.
BeforeTake ==
  /\ Once(lobbyQ, Take) /\ Once(lobbyQ, Final)
  /\ Occurs(lobbyQ, Take) => main = "waiting"
  /\ Untaken => ~Occurs(lobbyQ, Final) /\ ToStop = {} /\ late = {}

\* After it has run, only late rooms are left in rooms_, and every other battle
\* that runs, or will, has a stop() to come; the counter counts those, and the
\* last functor is posted when none is left, behind what they have posted; once
\* the pool goes the lobby has nothing of theirs to do.
InTime == Rooms \ late
AfterTake ==
  ~Untaken =>
    /\ rooms \subseteq late
    /\ \A r \in InTime : battle[r] \in {"made", "running"} => r \in ToStop
    /\ main = "stopping" => /\ remain = Cardinality(ToStop)
                            /\ ToStop # {} => ~Occurs(lobbyQ, Final)
    /\ \A r \in InTime : Ahead(lobbyQ, End(r), Final)
    /\ PoolGoes => /\ ~Occurs(lobbyQ, Final) /\ ToStop = {}
                   /\ \A r \in InTime : ~Occurs(lobbyQ, End(r))

\* The game loops run until they are joined; one that has left has no functor
\* and, unless its room is late, no ticker; on a loop that runs a ticker outlives
\* its battle only while its reset is pending; a room is started once, before it
\* is stopped.
LoopOK(r) ==
  /\ Once(gameQ[r], "stop") /\ Once(gameQ[r], "start")
  /\ Ahead(gameQ[r], "start", "stop")
  /\ r \notin looping => gameQ[r] = <<>> /\ (r \notin late => r \notin ticker)
  /\ r \in ticker \cap looping /\ battle[r] # "running" => Occurs(gameQ[r], "reset")
  /\ Occurs(gameQ[r], "start") => battle[r] = "made"
  /\ battle[r] = "made" /\ r \in looping => Occurs(gameQ[r], "start")
  /\ battle[r] = "none" => gameQ[r] = <<>>

Loops ==
  /\ ~PoolGoes => looping = Rooms
  /\ main \in {"done", "crashed"} => looping = {}
  /\ \A r \in Rooms : LoopOK(r)

\* The first inductive invariant.
DownInv ==
  /\ DownType
  /\ \A r \in Rooms : Settled(r)
  /\ BeforeTake
  /\ AfterTake
  /\ Loops

\* Functors and kinds are told apart by their names and rooms.
LEMMA NamesDiffer ==
  /\ Take # Final
  /\ \A r : End(r) # Take /\ End(r) # Final
  /\ \A r, s : End(r) = End(s) <=> r = s
  /\ \A r : Result(r) # <<"connect">> /\ Result(r) # <<"query">>
  /\ \A r, s : Result(r) = Result(s) <=> r = s
  BY SMTT(60) DEF Take, Final, End, Result

\* Every functor of the lobby is one of these.
LEMMA JobCases ==
  /\ Take \in Job /\ Final \in Job /\ \A r \in Rooms : End(r) \in Job
  /\ \A r \in Rooms : Result(r) \in TaskKind
  /\ <<"connect">> \in TaskKind /\ <<"query">> \in TaskKind
  /\ "start" \in GameOp /\ "reset" \in GameOp /\ "stop" \in GameOp
  BY ZenonT(60) DEF Job, TaskKind, GameOp

\* A functor posted to a game loop.
LEMMA GamePost ==
  ASSUME NEW q \in Seq(GameOp), NEW t \in GameOp
  PROVE  /\ Append(q, t) \in Seq(GameOp)
         /\ \A x : Occurs(Append(q, t), x) <=> Occurs(q, x) \/ t = x
         /\ \A x : Once(q, x) /\ (t # x \/ ~Occurs(q, x)) => Once(Append(q, t), x)
         /\ /\ Ahead(q, "start", "stop")
            /\ t # "start" \/ ~Occurs(q, "stop")
            => Ahead(Append(q, t), "start", "stop")
<1>1. Append(q, t) \in Seq(GameOp)
  BY ZenonT(60), AppendAt
<1>2. \A x : Occurs(Append(q, t), x) <=> Occurs(q, x) \/ t = x
  BY ZenonT(60), OccursAppend
<1>3. \A x : Once(q, x) /\ (t # x \/ ~Occurs(q, x)) => Once(Append(q, t), x)
  BY ZenonT(60), OnceAppend
<1>4. ASSUME Ahead(q, "start", "stop"), t # "start" \/ ~Occurs(q, "stop")
      PROVE  Ahead(Append(q, t), "start", "stop")
  <2>1. "start" # "stop" /\ (t = "start" => ~Occurs(q, "stop"))
    BY ZenonT(60), <1>4
  <2> QED
    BY ZenonT(60), <1>4, <2>1, AheadAppend
<1> QED
  BY ZenonT(60), <1>1, <1>2, <1>3, <1>4

-----------------------------------------------------------------------------
(* Each step keeps DownInv.                                                *)

\* Initially there is no room and every queue is empty.
LEMMA DownInit == ShutdownInit => DownInv
<1> SUFFICES ASSUME ShutdownInit PROVE DownInv
  OBVIOUS
<1>1. \A x, y : ~Occurs(<<>>, x) /\ Once(<<>>, x) /\ Ahead(<<>>, x, y)
  BY SMTT(60) DEF Occurs, Once, Ahead
<1>2. \A S : <<>> \in Seq(S)
  BY SMTT(60)
<1>3. /\ lobbyQ = <<>> /\ kind = <<>> /\ rooms = {} /\ looping = Rooms /\ ticker = {}
      /\ gameQ = [r \in Rooms |-> <<>>] /\ battle = [r \in Rooms |-> "none"]
      /\ main = "start" /\ late = {}
  BY ZenonT(60) DEF ShutdownInit
<1>4. DownType
  BY ZenonT(60), <1>2, <1>3 DEF DownType, Battles
<1>5. Untaken /\ ToStop = {} /\ ~PoolGoes
  BY ZenonT(60), <1>1, <1>3 DEF Untaken, Early, ToStop, PoolGoes
<1>6. ASSUME NEW r \in Rooms PROVE Settled(r) /\ LoopOK(r)
  <2>1. battle[r] = "none" /\ gameQ[r] = <<>>
    BY ZenonT(60), <1>3
  <2> QED
    BY ZenonT(60), <1>1, <1>3, <2>1 DEF Settled, LoopOK
<1>7. BeforeTake /\ AfterTake
  BY ZenonT(60), <1>1, <1>3, <1>5 DEF BeforeTake, AfterTake
<1>8. Loops
  BY ZenonT(60), <1>3, <1>6 DEF Loops
<1> QED
  BY ZenonT(60), <1>4, <1>6, <1>7, <1>8 DEF DownInv

\* A task that is no result changes nothing for the rooms.
LEMMA OtherTask ==
  ASSUME DownInv, NEW k \in TaskKind, \A r \in Rooms : k # Result(r),
         kind' = Append(kind, k)
  PROVE  /\ kind' \in Seq(TaskKind)
         /\ \A r \in Rooms : /\ Occurs(kind', Result(r)) <=> Occurs(kind, Result(r))
                             /\ Once(kind', Result(r))
<1>1. kind \in Seq(TaskKind)
  BY ZenonT(60) DEF DownInv, DownType
<1>2. kind' \in Seq(TaskKind)
  BY ZenonT(60), <1>1, AppendAt
<1>3. ASSUME NEW r \in Rooms
      PROVE  /\ Occurs(kind', Result(r)) <=> Occurs(kind, Result(r))
             /\ Once(kind', Result(r))
  <2>1. Once(kind, Result(r)) /\ k # Result(r)
    BY ZenonT(60) DEF DownInv, Settled
  <2> QED
    BY ZenonT(60), <1>1, <2>1, OccursAppend, OnceOther
<1> QED
  BY ZenonT(60), <1>2, <1>3

\* A step that leaves the threads alone, but for start() and a crash, and enqueues
\* no result.
Quiet ==
  /\ UNCHANGED <<lobbyQ, rooms, remain, gameQ, looping, battle, ticker, late>>
  /\ \/ main' = main
     \/ Early /\ main' \in {"started", "up"}
     \/ main = "done" /\ main' = "crashed"
  /\ kind' = kind \/ \E k \in {<<"connect">>, <<"query">>} : kind' = Append(kind, k)

\* Such a step keeps DownInv.
LEMMA QuietDown == ASSUME DownInv, Quiet PROVE DownInv'
<1>0. /\ kind' \in Seq(TaskKind)
      /\ \A r \in Rooms : /\ Occurs(kind', Result(r)) <=> Occurs(kind, Result(r))
                          /\ Once(kind', Result(r))
  <2>1. CASE kind' = kind
    BY ZenonT(60), <2>1 DEF DownInv, DownType, Settled
  <2>2. ASSUME NEW k \in {<<"connect">>, <<"query">>}, kind' = Append(kind, k)
        PROVE  /\ kind' \in Seq(TaskKind)
               /\ \A r \in Rooms : /\ Occurs(kind', Result(r)) <=> Occurs(kind, Result(r))
                                   /\ Once(kind', Result(r))
    <3>1. k \in TaskKind /\ \A r \in Rooms : k # Result(r)
      BY ZenonT(60), NamesDiffer, JobCases
    <3> QED
      BY ZenonT(60), <2>2, <3>1, OtherTask
  <2> QED
    BY ZenonT(60), <2>1, <2>2 DEF Quiet
<1>1. /\ lobbyQ' = lobbyQ /\ rooms' = rooms /\ remain' = remain /\ gameQ' = gameQ
      /\ looping' = looping /\ battle' = battle /\ ticker' = ticker /\ late' = late
  BY ZenonT(60) DEF Quiet
<1>2. /\ Untaken' <=> Untaken
      /\ main' = "waiting" <=> main = "waiting"
      /\ main' = "stopping" <=> main = "stopping"
      /\ PoolGoes' <=> PoolGoes
      /\ main' \in {"done", "crashed"} <=> main \in {"done", "crashed"}
  BY ZenonT(60), <1>1 DEF Quiet, Early, Untaken, PoolGoes
<1>3. ToStop' = ToStop /\ InTime' = InTime
  BY ZenonT(60), <1>1 DEF ToStop, InTime
<1>4. DownType'
  BY ZenonT(60), <1>0, <1>1, <1>2 DEF DownInv, DownType, Quiet
<1>5. ASSUME NEW r \in Rooms PROVE Settled(r)' /\ LoopOK(r)'
  <2>1. Settled(r)'
    BY ZenonT(60), <1>0, <1>1, <1>2 DEF DownInv, Settled
  <2>2. LoopOK(r)'
    BY ZenonT(60), <1>1 DEF DownInv, Loops, LoopOK
  <2> QED
    BY ZenonT(60), <2>1, <2>2
<1>6. BeforeTake'
  BY ZenonT(60), <1>1, <1>2, <1>3 DEF DownInv, BeforeTake
<1>7. AfterTake'
  BY ZenonT(60), <1>1, <1>2, <1>3 DEF DownInv, AfterTake
<1>8. Loops'
  BY ZenonT(60), <1>1, <1>2, <1>5 DEF DownInv, Loops
<1> QED
  BY ZenonT(60), <1>4, <1>5, <1>6, <1>7, <1>8 DEF DownInv

\* ~GameServer posts its functor.
LEMMA DtorDown == ASSUME DownInv, Dtor PROVE DownInv'
<1>1. /\ rooms' = rooms /\ remain' = remain /\ gameQ' = gameQ /\ kind' = kind
      /\ looping' = looping /\ battle' = battle /\ ticker' = ticker /\ late' = late
      /\ main = "up" /\ main' = "waiting" /\ lobbyQ' = Append(lobbyQ, Take)
  BY ZenonT(60) DEF Dtor, Take
<1>2. lobbyQ \in Seq(Job) /\ Take \in Job
  BY ZenonT(60), JobCases DEF DownInv, DownType
<1>3. \A x : Occurs(lobbyQ', x) <=> Occurs(lobbyQ, x) \/ Take = x
  BY ZenonT(60), <1>1, <1>2, OccursAppend
<1>4. Untaken /\ Untaken' /\ ~Occurs(lobbyQ, Take) /\ ~PoolGoes /\ ~PoolGoes'
  BY ZenonT(60), <1>1 DEF Early, Untaken, PoolGoes, DownInv, BeforeTake
<1>5. \A x : Once(lobbyQ, x) => Once(lobbyQ', x)
  BY ZenonT(60), <1>1, <1>2, <1>4, OnceFresh
<1>6. ToStop' = ToStop
  BY ZenonT(60), <1>1 DEF ToStop
<1>7. DownType'
  BY ZenonT(60), <1>1, <1>2, AppendAt DEF DownInv, DownType
<1>8. ASSUME NEW r \in Rooms PROVE Settled(r)' /\ LoopOK(r)'
  <2>1. Occurs(lobbyQ', End(r)) <=> Occurs(lobbyQ, End(r))
    BY ZenonT(60), <1>3, NamesDiffer
  <2>2. Settled(r)'
    BY ZenonT(60), <1>1, <1>4, <1>5, <2>1 DEF DownInv, Settled
  <2>3. LoopOK(r)'
    BY ZenonT(60), <1>1 DEF DownInv, Loops, LoopOK
  <2> QED
    BY ZenonT(60), <2>2, <2>3
<1>9. BeforeTake' /\ AfterTake'
  BY ZenonT(60), <1>1, <1>3, <1>4, <1>5, <1>6, NamesDiffer DEF DownInv, BeforeTake, AfterTake
<1>10. Loops'
  BY ZenonT(60), <1>1, <1>4, <1>8 DEF DownInv, Loops
<1> QED
  BY ZenonT(60), <1>7, <1>8, <1>9, <1>10 DEF DownInv

\* What the lobby knows when it runs a functor.
LEMMA LobbyRuns ==
  ASSUME DownInv, RunsLobby
  PROVE  /\ lobbyQ' \in Seq(Job)
         /\ \A x : Occurs(lobbyQ, x) <=> Occurs(lobbyQ', x) \/ Head(lobbyQ) = x
         /\ \A x : Once(lobbyQ, x) => Once(lobbyQ', x) /\ (Head(lobbyQ) = x => ~Occurs(lobbyQ', x))
         /\ \A x, y : Ahead(lobbyQ, x, y) =>
                        Ahead(lobbyQ', x, y) /\ (Head(lobbyQ) = y => ~Occurs(lobbyQ, x))
<1>1. lobbyQ \in Seq(Job) /\ lobbyQ # <<>> /\ lobbyQ' = Tail(lobbyQ)
  BY ZenonT(60) DEF DownInv, DownType, RunsLobby
<1>2. lobbyQ' \in Seq(Job)
  BY ZenonT(60), <1>1, TailAt
<1>3. \A x : Occurs(lobbyQ, x) <=> Occurs(lobbyQ', x) \/ Head(lobbyQ) = x
  BY ZenonT(60), <1>1, OccursTail
<1>4. \A x : Once(lobbyQ, x) => Once(lobbyQ', x) /\ (Head(lobbyQ) = x => ~Occurs(lobbyQ', x))
  BY ZenonT(60), <1>1, OnceTail
<1>5. \A x, y : Ahead(lobbyQ, x, y) =>
                  Ahead(lobbyQ', x, y) /\ (Head(lobbyQ) = y => ~Occurs(lobbyQ, x))
  BY ZenonT(60), <1>1, AheadTail
<1> QED
  BY ZenonT(60), <1>2, <1>3, <1>4, <1>5

\* A pair is matched: its room is late if the others are being stopped; when the
\* pool is gone the process crashes.
LEMMA MatchDown ==
  ASSUME DownInv, NEW r \in Rooms, Match(r)
  PROVE  DownInv'
<1>1. /\ lobbyQ' = lobbyQ /\ kind' = kind /\ remain' = remain /\ looping' = looping
      /\ ticker' = ticker /\ battle[r] = "none" /\ LobbyFree
  BY ZenonT(60) DEF Match
<1>2. CASE main = "done"
  <2>1. Quiet
    BY ZenonT(60), <1>1, <1>2 DEF Match, Quiet
  <2> QED
    BY ZenonT(60), <2>1, QuietDown
<1>3. CASE main # "done"
  <2>1. /\ rooms' = rooms \cup {r} /\ battle' = [battle EXCEPT ![r] = "made"]
        /\ gameQ' = [gameQ EXCEPT ![r] = Append(gameQ[r], "start")]
        /\ late' = (IF main = "stopping" THEN late \cup {r} ELSE late) /\ main' = main
    BY ZenonT(60), <1>3 DEF Match
  <2>2. ~PoolGoes /\ ~PoolGoes' /\ looping = Rooms
    BY ZenonT(60), <1>1, <1>3, <2>1 DEF LobbyFree, PoolGoes, DownInv, Loops
  <2>3. gameQ \in [Rooms -> Seq(GameOp)] /\ battle \in [Rooms -> Battles] /\ gameQ[r] = <<>>
    BY ZenonT(60), <1>1 DEF DownInv, DownType, Loops, LoopOK
  <2>4. ~Occurs(lobbyQ, End(r)) /\ ~Occurs(kind, Result(r)) /\ r \notin ticker
    <3>1. ~Occurs(<<>>, "reset")
      BY SMTT(60) DEF Occurs
    <3>2. ~Occurs(lobbyQ, End(r)) /\ ~Occurs(kind, Result(r))
      BY ZenonT(60), <1>1 DEF DownInv, Settled
    <3>3. r \in looping /\ ~Occurs(gameQ[r], "reset")
      BY ZenonT(60), <2>2, <2>3, <3>1
    <3>4. r \notin ticker
      BY ZenonT(60), <1>1, <3>3 DEF DownInv, Loops, LoopOK
    <3> QED
      BY ZenonT(60), <3>2, <3>4
  <2>5. /\ gameQ'[r] \in Seq(GameOp) /\ Once(gameQ'[r], "stop") /\ Once(gameQ'[r], "start")
        /\ Ahead(gameQ'[r], "start", "stop") /\ Occurs(gameQ'[r], "start")
        /\ ~Occurs(gameQ'[r], "stop")
    <3>1. /\ gameQ'[r] = Append(<<>>, "start") /\ <<>> \in Seq(GameOp) /\ "start" \in GameOp
          /\ "start" # "stop"
      <4>1. gameQ'[r] = Append(gameQ[r], "start")
        BY ZenonT(60), <2>1, <2>3
      <4>2. <<>> \in Seq(GameOp)
        BY SMTT(60)
      <4> QED
        BY ZenonT(60), <2>3, <4>1, <4>2, JobCases
    <3>2. \A x, y : ~Occurs(<<>>, x) /\ Once(<<>>, x) /\ Ahead(<<>>, x, y)
      BY SMTT(60) DEF Occurs, Once, Ahead
    <3> HIDE DEF GameOp
    <3> DEFINE e == <<>>
    <3> HIDE DEF e
    <3>3. e \in Seq(GameOp) /\ \A x, y : ~Occurs(e, x) /\ Once(e, x) /\ Ahead(e, x, y)
      BY ZenonT(60), <3>1, <3>2 DEF e
    <3>4. /\ Append(e, "start") \in Seq(GameOp)
          /\ \A x : Occurs(Append(e, "start"), x) <=> Occurs(e, x) \/ "start" = x
          /\ \A x : Once(e, x) /\ ("start" # x \/ ~Occurs(e, x)) => Once(Append(e, "start"), x)
          /\ /\ Ahead(e, "start", "stop")
             /\ "start" # "start" \/ ~Occurs(e, "stop")
             => Ahead(Append(e, "start"), "start", "stop")
      BY ZenonT(60), <3>1, <3>3, GamePost
    <3>5. gameQ'[r] = Append(e, "start")
      BY ZenonT(60), <3>1 DEF e
    <3> QED
      BY ZenonT(60), <3>1, <3>3, <3>4, <3>5
  <2>6. /\ battle'[r] = "made"
        /\ \A s \in Rooms : s # r => gameQ'[s] = gameQ[s] /\ battle'[s] = battle[s]
        /\ gameQ' \in [Rooms -> Seq(GameOp)] /\ battle' \in [Rooms -> Battles]
    <3>1. "made" \in Battles
      BY ZenonT(60) DEF Battles
    <3>2. /\ battle'[r] = "made" /\ battle' \in [Rooms -> Battles]
          /\ \A s \in Rooms : s # r => battle'[s] = battle[s]
      BY ZenonT(60), <2>1, <2>3, <3>1
    <3>3. \A s \in Rooms : s # r => gameQ'[s] = gameQ[s]
      BY ZenonT(60), <2>1, <2>3
    <3>4. gameQ' \in [Rooms -> Seq(GameOp)]
      BY ZenonT(60), <2>1, <2>3, <2>5, <3>3
    <3> QED
      BY ZenonT(60), <3>2, <3>3, <3>4
  <2>7. ToStop' = ToStop
    <3>1. ~Occurs(gameQ[r], "stop")
      <4>1. ~Occurs(<<>>, "stop")
        BY SMTT(60) DEF Occurs
      <4> QED
        BY ZenonT(60), <2>3, <4>1
    <3>2. \A s \in Rooms : Occurs(gameQ'[s], "stop") <=> Occurs(gameQ[s], "stop")
      BY ZenonT(60), <2>5, <2>6, <3>1
    <3> QED
      BY ZenonT(60), <3>2 DEF ToStop
  <2>8. Untaken' <=> Untaken
    BY ZenonT(60), <2>1 DEF Untaken, Early
  <2>9. DownType'
    BY ZenonT(60), <1>1, <2>1, <2>6 DEF DownInv, DownType
  <2>10. ASSUME NEW s \in Rooms PROVE Settled(s)' /\ LoopOK(s)'
    <3>1. CASE s = r
      <4>1. Settled(s)'
        BY ZenonT(60), <1>1, <2>1, <2>4, <2>6, <3>1 DEF DownInv, Settled
      <4>2. LoopOK(s)'
        BY ZenonT(60), <1>1, <2>2, <2>4, <2>5, <2>6, <3>1 DEF LoopOK
      <4> QED
        BY ZenonT(60), <4>1, <4>2
    <3>2. CASE s # r
      <4>1. gameQ'[s] = gameQ[s] /\ battle'[s] = battle[s] /\ (s \in rooms' <=> s \in rooms)
        BY ZenonT(60), <2>1, <2>6, <3>2
      <4>2. Settled(s)'
        BY ZenonT(60), <1>1, <2>8, <4>1 DEF DownInv, Settled
      <4>3. s \in looping'
        BY ZenonT(60), <1>1, <2>2
      <4>4. LoopOK(s)'
        BY ZenonT(60), <1>1, <4>1, <4>3 DEF DownInv, Loops, LoopOK
      <4> QED
        BY ZenonT(60), <4>2, <4>4
    <3> QED
      BY ZenonT(60), <3>1, <3>2
  <2>11. BeforeTake'
    <3>1. Untaken => main # "stopping"
      BY ZenonT(60) DEF Untaken, Early
    <3> QED
      BY ZenonT(60), <1>1, <2>1, <2>7, <2>8, <3>1 DEF DownInv, BeforeTake
  <2>12. AfterTake'
    <3> SUFFICES ASSUME ~Untaken PROVE AfterTake'
      BY ZenonT(60), <2>8 DEF AfterTake
    <3>1. main = "stopping" /\ late' = late \cup {r}
      <4>1. main = "stopping"
        BY ZenonT(60), <2>2 DEF DownInv, DownType, Untaken, Early, PoolGoes
      <4> QED
        BY ZenonT(60), <2>1, <4>1
    <3>2. /\ \A s \in InTime' : s \in InTime /\ s # r /\ s \in Rooms
          /\ rooms' \subseteq late'
      BY ZenonT(60), <2>1, <3>1 DEF InTime, DownInv, AfterTake
    <3>3. \A s \in InTime' : battle'[s] \in {"made", "running"} => s \in ToStop'
      BY ZenonT(60), <2>6, <2>7, <3>2 DEF DownInv, AfterTake
    <3>4. /\ remain' = Cardinality(ToStop')
          /\ ToStop' # {} => ~Occurs(lobbyQ', Final)
          /\ \A s \in InTime' : Ahead(lobbyQ', End(s), Final)
      BY ZenonT(60), <1>1, <2>7, <3>1, <3>2 DEF DownInv, AfterTake
    <3> QED
      BY ZenonT(60), <2>2, <3>2, <3>3, <3>4 DEF AfterTake
  <2>13. Loops'
    BY ZenonT(60), <1>1, <2>1, <2>2, <2>10 DEF Loops, PoolGoes
  <2> QED
    BY ZenonT(60), <2>9, <2>10, <2>11, <2>12, <2>13 DEF DownInv
<1> QED
  BY ZenonT(60), <1>2, <1>3

\* onRoomEnd: the result takes the place of the functor.
LEMMA RoomEndDown ==
  ASSUME DownInv, NEW r \in Rooms, OnRoomEnd(r)
  PROVE  DownInv'
<1>1. /\ RunsLobby /\ Head(lobbyQ) = End(r) /\ rooms' = rooms \ {r} /\ main' = main
      /\ remain' = remain /\ gameQ' = gameQ /\ looping' = looping /\ battle' = battle
      /\ ticker' = ticker /\ late' = late /\ kind' = Append(kind, Result(r))
  BY ZenonT(60) DEF OnRoomEnd, Enqueue, End, Result
<1>2. /\ lobbyQ' \in Seq(Job)
      /\ \A x : Occurs(lobbyQ, x) <=> Occurs(lobbyQ', x) \/ End(r) = x
      /\ \A x : Once(lobbyQ, x) => Once(lobbyQ', x) /\ (End(r) = x => ~Occurs(lobbyQ', x))
      /\ \A x, y : Ahead(lobbyQ, x, y) => Ahead(lobbyQ', x, y)
  BY ZenonT(60), <1>1, LobbyRuns
<1>3. kind \in Seq(TaskKind) /\ Result(r) \in TaskKind
  BY ZenonT(60), JobCases DEF DownInv, DownType
<1>4. \A x : Occurs(kind', x) <=> Occurs(kind, x) \/ Result(r) = x
  BY ZenonT(60), <1>1, <1>3, OccursAppend
<1>5. Occurs(lobbyQ, End(r)) /\ ~Occurs(lobbyQ', End(r)) /\ ~Occurs(kind, Result(r))
  BY ZenonT(60), <1>2 DEF DownInv, Settled
<1>6. \A x : Once(kind, x) => Once(kind', x)
  BY ZenonT(60), <1>1, <1>3, <1>5, OnceFresh
<1>7. (Untaken' <=> Untaken) /\ (PoolGoes' <=> PoolGoes) /\ InTime' = InTime
  BY ZenonT(60), <1>1 DEF Untaken, Early, PoolGoes, InTime
<1>8. ToStop' = ToStop
  BY ZenonT(60), <1>1 DEF ToStop
<1>9. DownType'
  BY ZenonT(60), <1>1, <1>2, <1>3, AppendAt DEF DownInv, DownType
<1>10. ASSUME NEW s \in Rooms PROVE Settled(s)' /\ LoopOK(s)'
  <2>1. /\ Occurs(lobbyQ, End(s)) <=> Occurs(lobbyQ', End(s)) \/ r = s
        /\ Occurs(kind', Result(s)) <=> Occurs(kind, Result(s)) \/ r = s
    BY ZenonT(60), <1>2, <1>4, NamesDiffer
  <2>2. Settled(s)'
    BY ZenonT(60), <1>1, <1>2, <1>5, <1>6, <1>7, <2>1 DEF DownInv, Settled
  <2>3. LoopOK(s)'
    BY ZenonT(60), <1>1 DEF DownInv, Loops, LoopOK
  <2> QED
    BY ZenonT(60), <2>2, <2>3
<1>11. BeforeTake'
  BY ZenonT(60), <1>1, <1>2, <1>7, <1>8 DEF DownInv, BeforeTake
<1>12. AfterTake'
  BY ZenonT(60), <1>1, <1>2, <1>7, <1>8, NamesDiffer DEF DownInv, AfterTake
<1>13. Loops'
  BY ZenonT(60), <1>1, <1>7, <1>10 DEF DownInv, Loops
<1> QED
  BY ZenonT(60), <1>9, <1>10, <1>11, <1>12, <1>13 DEF DownInv

\* The functor of ~GameServer: a battle that runs or will keeps its room until
\* here, so it gets its stop(); and without rooms no onRoomEnd can be pending.
LEMMA TakeDown == ASSUME DownInv, TakeRooms PROVE DownInv'
<1>1. /\ RunsLobby /\ Head(lobbyQ) = Take /\ rooms' = {} /\ remain' = Cardinality(rooms)
      /\ gameQ' = [r \in Rooms |-> IF r \in rooms THEN Append(gameQ[r], "stop") ELSE gameQ[r]]
      /\ main' = (IF rooms = {} THEN "joining" ELSE "stopping")
      /\ kind' = kind /\ looping' = looping /\ battle' = battle /\ ticker' = ticker
      /\ late' = late
  BY ZenonT(60) DEF TakeRooms, Take
<1>2. /\ lobbyQ' \in Seq(Job)
      /\ \A x : Occurs(lobbyQ, x) <=> Occurs(lobbyQ', x) \/ Take = x
      /\ \A x : Once(lobbyQ, x) => Once(lobbyQ', x) /\ (Take = x => ~Occurs(lobbyQ', x))
  BY ZenonT(60), <1>1, LobbyRuns
<1>3. /\ main = "waiting" /\ Untaken /\ ~PoolGoes /\ ToStop = {} /\ ~Occurs(lobbyQ, Final)
      /\ late = {}
  BY ZenonT(60), <1>2 DEF DownInv, BeforeTake, Untaken, PoolGoes
<1>4. ~Occurs(lobbyQ', Take) /\ ~Occurs(lobbyQ', Final) /\ ~Untaken' /\ looping = Rooms
  BY ZenonT(60), <1>1, <1>2, <1>3 DEF DownInv, BeforeTake, Untaken, Early, Loops
<1>5. ASSUME NEW r \in Rooms
      PROVE  /\ gameQ'[r] \in Seq(GameOp)
             /\ Occurs(gameQ'[r], "stop") <=> r \in rooms
             /\ Once(gameQ'[r], "stop") /\ Once(gameQ'[r], "start")
             /\ Ahead(gameQ'[r], "start", "stop")
             /\ Occurs(gameQ'[r], "reset") <=> Occurs(gameQ[r], "reset")
             /\ Occurs(gameQ'[r], "start") <=> Occurs(gameQ[r], "start")
             /\ r \notin rooms => gameQ'[r] = gameQ[r]
  <2>1. /\ gameQ[r] \in Seq(GameOp) /\ Once(gameQ[r], "stop") /\ Once(gameQ[r], "start")
        /\ ~Occurs(gameQ[r], "stop") /\ Ahead(gameQ[r], "start", "stop")
    BY ZenonT(60), <1>3 DEF DownInv, DownType, Loops, LoopOK, ToStop
  <2>2. CASE r \in rooms
    <3>1. gameQ'[r] = Append(gameQ[r], "stop")
      BY ZenonT(60), <1>1, <2>2
    <3>2. "stop" \in GameOp
      BY ZenonT(60), JobCases
    <3>3. /\ Append(gameQ[r], "stop") \in Seq(GameOp)
          /\ \A x : Occurs(Append(gameQ[r], "stop"), x) <=> Occurs(gameQ[r], x) \/ "stop" = x
          /\ Once(Append(gameQ[r], "stop"), "stop") /\ Once(Append(gameQ[r], "stop"), "start")
          /\ Ahead(Append(gameQ[r], "stop"), "start", "stop")
      BY ZenonT(60), <2>1, <3>2, GamePost
    <3> QED
      BY ZenonT(60), <2>1, <2>2, <3>1, <3>3
  <2>3. CASE r \notin rooms
    BY ZenonT(60), <1>1, <2>1, <2>3
  <2> QED
    BY ZenonT(60), <2>2, <2>3
<1>6. ToStop' = rooms /\ rooms \subseteq Rooms
  <2>1. rooms \subseteq Rooms
    BY ZenonT(60) DEF DownInv, DownType
  <2>2. \A r : r \in ToStop' <=> r \in rooms
    BY ZenonT(60), <1>5, <2>1 DEF ToStop
  <2> QED
    BY ZenonT(60), <2>1, <2>2
<1>7. DownType'
  <2>1. gameQ' \in [Rooms -> Seq(GameOp)]
    BY ZenonT(60), <1>1, <1>5
  <2> QED
    BY ZenonT(60), <1>1, <1>2, <2>1 DEF DownInv, DownType
<1>8. ASSUME NEW r \in Rooms PROVE Settled(r)' /\ LoopOK(r)'
  <2>1. Occurs(lobbyQ', End(r)) <=> Occurs(lobbyQ, End(r))
    BY ZenonT(60), <1>2, NamesDiffer
  <2>2. Settled(r)'
    BY ZenonT(60), <1>1, <1>2, <1>4, <2>1 DEF DownInv, Settled
  <2>3. r \in looping' /\ (battle[r] = "none" => r \notin rooms)
    BY ZenonT(60), <1>1, <1>3, <1>4 DEF DownInv, Settled
  <2>4. LoopOK(r)'
    BY ZenonT(60), <1>1, <1>5, <2>3 DEF DownInv, Loops, LoopOK
  <2> QED
    BY ZenonT(60), <2>2, <2>4
<1>9. BeforeTake'
  BY ZenonT(60), <1>2, <1>4 DEF DownInv, BeforeTake
<1>10. AfterTake'
  <2>1. \A r \in Rooms : battle'[r] \in {"made", "running"} => r \in ToStop'
    <3>1. \A r \in Rooms : battle[r] \in {"made", "running"} =>
            battle[r] # "none" /\ battle[r] # "ended"
      BY ZenonT(60)
    <3> QED
      BY ZenonT(60), <1>1, <1>3, <1>6, <3>1 DEF DownInv, Settled
  <2>2. rooms = {} => \A r \in Rooms : ~Occurs(lobbyQ', End(r))
    BY ZenonT(60), <1>2, <1>3 DEF DownInv, Settled
  <2>3. \A r \in Rooms : Ahead(lobbyQ', End(r), Final)
    BY ZenonT(60), <1>4 DEF Ahead, Occurs
  <2>4. InTime' \subseteq Rooms /\ rooms' \subseteq late' /\ (PoolGoes' => rooms = {})
    BY ZenonT(60), <1>1 DEF InTime, PoolGoes
  <2> QED
    BY ZenonT(60), <1>1, <1>4, <1>6, <2>1, <2>2, <2>3, <2>4 DEF AfterTake
<1>11. Loops'
  <2>1. main' \notin {"done", "crashed"}
    BY ZenonT(60), <1>1
  <2> QED
    BY ZenonT(60), <1>1, <1>4, <1>8, <2>1 DEF Loops
<1> QED
  BY ZenonT(60), <1>7, <1>8, <1>9, <1>10, <1>11 DEF DownInv

\* gamePool_.reset(): the last functor was behind every onRoomEnd of a room that
\* was taken.
LEMMA ResetPoolDown == ASSUME DownInv, ResetPool PROVE DownInv'
<1>1. /\ RunsLobby /\ Head(lobbyQ) = Final /\ rooms' = rooms /\ main' = "joining"
      /\ remain' = remain /\ gameQ' = gameQ /\ looping' = looping /\ battle' = battle
      /\ ticker' = ticker /\ kind' = kind /\ late' = late
  BY ZenonT(60) DEF ResetPool, Final
<1>2. /\ lobbyQ' \in Seq(Job)
      /\ \A x : Occurs(lobbyQ, x) <=> Occurs(lobbyQ', x) \/ Final = x
      /\ \A x : Once(lobbyQ, x) => Once(lobbyQ', x) /\ (Final = x => ~Occurs(lobbyQ', x))
      /\ \A x, y : Ahead(lobbyQ, x, y) =>
                     Ahead(lobbyQ', x, y) /\ (Final = y => ~Occurs(lobbyQ, x))
  BY ZenonT(60), <1>1, LobbyRuns
<1>3. /\ ~Untaken /\ ~PoolGoes /\ main = "stopping" /\ ~Occurs(lobbyQ, Take)
      /\ Occurs(lobbyQ, Final) /\ ~Occurs(lobbyQ', Final)
  <2>1. Occurs(lobbyQ, Final) /\ ~Occurs(lobbyQ', Final)
    BY ZenonT(60), <1>2 DEF DownInv, BeforeTake
  <2>2. ~Untaken /\ ~PoolGoes
    BY ZenonT(60), <2>1 DEF DownInv, BeforeTake, AfterTake
  <2>3. main = "stopping" /\ ~Occurs(lobbyQ, Take)
    BY ZenonT(60), <2>2 DEF DownInv, DownType, BeforeTake, Untaken, Early, PoolGoes
  <2> QED
    BY ZenonT(60), <2>1, <2>2, <2>3
<1>4. /\ ToStop = {} /\ rooms \subseteq late
      /\ \A r \in InTime : ~Occurs(lobbyQ, End(r))
  BY ZenonT(60), <1>2, <1>3 DEF DownInv, AfterTake
<1>5. ToStop' = {} /\ ~Untaken' /\ ~Occurs(lobbyQ', Take) /\ InTime' = InTime
  BY ZenonT(60), <1>1, <1>2, <1>3, <1>4 DEF ToStop, Untaken, Early, InTime
<1>6. DownType'
  BY ZenonT(60), <1>1, <1>2 DEF DownInv, DownType
<1>7. ASSUME NEW r \in Rooms PROVE Settled(r)' /\ LoopOK(r)'
  <2>1. Occurs(lobbyQ', End(r)) <=> Occurs(lobbyQ, End(r))
    BY ZenonT(60), <1>2, NamesDiffer
  <2>2. Settled(r)'
    BY ZenonT(60), <1>1, <1>2, <1>5, <2>1 DEF DownInv, Settled
  <2>3. LoopOK(r)'
    BY ZenonT(60), <1>1 DEF DownInv, Loops, LoopOK
  <2> QED
    BY ZenonT(60), <2>2, <2>3
<1>8. BeforeTake'
  BY ZenonT(60), <1>2, <1>5 DEF DownInv, BeforeTake
<1>9. AfterTake'
  <2>1. \A r \in InTime : battle'[r] \in {"made", "running"} => r \in ToStop'
    BY ZenonT(60), <1>1, <1>3, <1>4, <1>5 DEF DownInv, AfterTake
  <2>2. \A r \in InTime : ~Occurs(lobbyQ', End(r)) /\ Ahead(lobbyQ', End(r), Final)
    BY ZenonT(60), <1>2, <1>3, <1>4 DEF DownInv, AfterTake
  <2>3. main' # "stopping"
    BY ZenonT(60), <1>1
  <2> QED
    BY ZenonT(60), <1>1, <1>3, <1>4, <1>5, <2>1, <2>2, <2>3 DEF AfterTake
<1>10. Loops'
  BY ZenonT(60), <1>1, <1>7 DEF Loops, PoolGoes
<1> QED
  BY ZenonT(60), <1>6, <1>7, <1>8, <1>9, <1>10 DEF DownInv

\* The pool is joined.
LEMMA JoinPoolDown == ASSUME DownInv, JoinPool PROVE DownInv'
<1>1. /\ lobbyQ' = lobbyQ /\ rooms' = rooms /\ remain' = remain /\ gameQ' = gameQ
      /\ looping' = looping /\ battle' = battle /\ ticker' = ticker /\ kind' = kind
      /\ main = "joining" /\ main' = "done" /\ looping = {} /\ late' = late
  BY ZenonT(60) DEF JoinPool
<1>2. /\ ~Untaken /\ ~Untaken' /\ ToStop' = ToStop /\ InTime' = InTime /\ PoolGoes /\ PoolGoes'
      /\ main' # "stopping"
  BY ZenonT(60), <1>1 DEF Untaken, Early, ToStop, InTime, PoolGoes
<1>3. DownType'
  BY ZenonT(60), <1>1 DEF DownInv, DownType
<1>4. ASSUME NEW r \in Rooms PROVE Settled(r)' /\ LoopOK(r)'
  <2>1. Settled(r)'
    BY ZenonT(60), <1>1, <1>2 DEF DownInv, Settled
  <2>2. LoopOK(r)'
    BY ZenonT(60), <1>1 DEF DownInv, Loops, LoopOK
  <2> QED
    BY ZenonT(60), <2>1, <2>2
<1>5. BeforeTake'
  BY ZenonT(60), <1>1, <1>2 DEF DownInv, BeforeTake
<1>6. AfterTake'
  BY ZenonT(60), <1>1, <1>2 DEF DownInv, AfterTake
<1>7. Loops'
  BY ZenonT(60), <1>1, <1>2, <1>4 DEF Loops
<1> QED
  BY ZenonT(60), <1>3, <1>4, <1>5, <1>6, <1>7 DEF DownInv

\* endBattle: the battle's end is announced once, and while a stop() waits
\* behind it the last functor has not been posted.
LEMMA BattleEndsDown ==
  ASSUME DownInv, NEW r \in Rooms, BattleEnds(r)
  PROVE  DownInv'
<1>1. /\ r \in looping /\ battle[r] = "running"
      /\ battle' = [battle EXCEPT ![r] = "ended"]
      /\ gameQ' = [gameQ EXCEPT ![r] = Append(gameQ[r], "reset")]
      /\ lobbyQ' = Append(lobbyQ, End(r))
      /\ kind' = kind /\ main' = main /\ rooms' = rooms /\ remain' = remain
      /\ looping' = looping /\ ticker' = ticker /\ late' = late
  BY ZenonT(60) DEF BattleEnds, End
<1>2. /\ lobbyQ \in Seq(Job) /\ End(r) \in Job
      /\ gameQ \in [Rooms -> Seq(GameOp)]
      /\ battle \in [Rooms -> Battles]
  BY ZenonT(60), JobCases DEF DownInv, DownType
<1>3. ~Occurs(lobbyQ, End(r)) /\ ~Occurs(kind, Result(r))
  BY ZenonT(60), <1>1 DEF DownInv, Settled
<1>4. \A x : Occurs(lobbyQ', x) <=> Occurs(lobbyQ, x) \/ End(r) = x
  <2>1. lobbyQ' = Append(lobbyQ, End(r)) /\ lobbyQ \in Seq(Job) /\ End(r) \in Job
    BY ZenonT(60), <1>1, <1>2
  <2> QED
    BY ZenonT(60), <2>1, OccursAppend
<1>5. \A x : Once(lobbyQ, x) => Once(lobbyQ', x)
  <2>1. \A x : Once(lobbyQ, x) => Once(Append(lobbyQ, End(r)), x)
    BY ZenonT(60), <1>2, <1>3, OnceFresh
  <2> QED
    BY ZenonT(60), <1>1, <2>1
<1>6. (Untaken' <=> Untaken) /\ (PoolGoes' <=> PoolGoes) /\ InTime' = InTime
  BY ZenonT(60), <1>1 DEF Untaken, Early, PoolGoes, InTime
<1>7. /\ battle'[r] = "ended" /\ battle' \in [Rooms -> Battles]
      /\ \A s \in Rooms : s # r => gameQ'[s] = gameQ[s] /\ battle'[s] = battle[s]
  <2>1. "ended" \in Battles
    BY ZenonT(60) DEF Battles
  <2>2. /\ battle'[r] = "ended" /\ battle' \in [Rooms -> Battles]
        /\ \A s \in Rooms : s # r => battle'[s] = battle[s]
    BY ZenonT(60), <1>1, <1>2, <2>1
  <2>3. \A s \in Rooms : s # r => gameQ'[s] = gameQ[s]
    BY ZenonT(60), <1>1, <1>2
  <2> QED
    BY ZenonT(60), <2>2, <2>3
<1>8. /\ gameQ'[r] \in Seq(GameOp) /\ Once(gameQ'[r], "stop") /\ Once(gameQ'[r], "start")
      /\ Ahead(gameQ'[r], "start", "stop")
      /\ \A x : Occurs(gameQ'[r], x) <=> Occurs(gameQ[r], x) \/ "reset" = x
  <2>1. gameQ'[r] = Append(gameQ[r], "reset") /\ gameQ[r] \in Seq(GameOp)
    BY ZenonT(60), <1>1, <1>2
  <2>2. /\ "reset" \in GameOp /\ "reset" # "stop" /\ "reset" # "start"
        /\ Once(gameQ[r], "stop") /\ Once(gameQ[r], "start") /\ Ahead(gameQ[r], "start", "stop")
    BY ZenonT(60), JobCases DEF DownInv, Loops, LoopOK
  <2>3. /\ Append(gameQ[r], "reset") \in Seq(GameOp)
        /\ \A x : Occurs(Append(gameQ[r], "reset"), x) <=> Occurs(gameQ[r], x) \/ "reset" = x
        /\ Once(Append(gameQ[r], "reset"), "stop") /\ Once(Append(gameQ[r], "reset"), "start")
        /\ Ahead(Append(gameQ[r], "reset"), "start", "stop")
    BY ZenonT(60), <2>1, <2>2, GamePost
  <2> QED
    BY ZenonT(60), <2>1, <2>3
<1>9. ToStop' = ToStop
  <2>1. \A s \in Rooms : Occurs(gameQ'[s], "stop") <=> Occurs(gameQ[s], "stop")
    BY ZenonT(60), <1>7, <1>8
  <2> QED
    BY ZenonT(60), <2>1 DEF ToStop
<1>10. DownType'
  <2>1. lobbyQ' \in Seq(Job)
    BY ZenonT(60), <1>1, <1>2, AppendAt
  <2>2. gameQ' \in [Rooms -> Seq(GameOp)]
    BY ZenonT(60), <1>1, <1>2, <1>7, <1>8
  <2> QED
    BY ZenonT(60), <1>1, <1>7, <2>1, <2>2 DEF DownInv, DownType
<1>11. ASSUME NEW s \in Rooms PROVE Settled(s)'
  <2>1. /\ Occurs(lobbyQ', End(s)) <=> Occurs(lobbyQ, End(s)) \/ s = r
        /\ battle'[s] = "ended" <=> battle[s] = "ended" \/ s = r
        /\ battle'[s] = "none" <=> battle[s] = "none"
    <3>1. Occurs(lobbyQ', End(s)) <=> Occurs(lobbyQ, End(s)) \/ s = r
      BY ZenonT(60), <1>4, NamesDiffer
    <3>2. /\ battle'[s] = "ended" <=> battle[s] = "ended" \/ s = r
          /\ battle'[s] = "none" <=> battle[s] = "none"
      BY ZenonT(60), <1>1, <1>7
    <3> QED
      BY ZenonT(60), <3>1, <3>2
  <2> QED
    BY ZenonT(60), <1>1, <1>3, <1>5, <1>6, <2>1 DEF DownInv, Settled
<1>12. ASSUME NEW s \in Rooms PROVE LoopOK(s)'
  <2>1. CASE s = r
    <3>1. battle[r] # "made" /\ battle'[r] # "made" /\ battle'[r] # "none"
      BY ZenonT(60), <1>1, <1>7
    <3>2. ~Occurs(gameQ[r], "start")
      BY ZenonT(60), <3>1 DEF DownInv, Loops, LoopOK
    <3>3. ~Occurs(gameQ'[r], "start") /\ Occurs(gameQ'[r], "reset")
      BY ZenonT(60), <1>8, <3>2
    <3> QED
      BY ZenonT(60), <1>1, <1>8, <2>1, <3>1, <3>3 DEF LoopOK
  <2>2. CASE s # r
    <3>1. gameQ'[s] = gameQ[s] /\ battle'[s] = battle[s]
      BY ZenonT(60), <1>7, <2>2
    <3> QED
      BY ZenonT(60), <1>1, <3>1 DEF DownInv, Loops, LoopOK
  <2> QED
    BY ZenonT(60), <2>1, <2>2
<1>13. BeforeTake'
  BY ZenonT(60), <1>1, <1>4, <1>5, <1>6, <1>9, NamesDiffer DEF DownInv, BeforeTake
<1>14. AfterTake'
  <2> SUFFICES ASSUME ~Untaken PROVE AfterTake'
    BY ZenonT(60), <1>6 DEF AfterTake
  <2>1. r \in InTime => main = "stopping" /\ ~Occurs(lobbyQ, Final) /\ ~PoolGoes
    <3>1. battle[r] \in {"made", "running"}
      BY ZenonT(60), <1>1
    <3>2. r \in InTime => ToStop # {} /\ ~PoolGoes
      BY ZenonT(60), <3>1 DEF DownInv, AfterTake
    <3>3. ~PoolGoes => main = "stopping"
      BY ZenonT(60) DEF DownInv, DownType, Untaken, Early, PoolGoes
    <3> QED
      BY ZenonT(60), <3>2, <3>3 DEF DownInv, AfterTake
  <2>2. \A s \in InTime : battle'[s] \in {"made", "running"} => s \in ToStop
    <3>1. \A s \in Rooms : battle'[s] \in {"made", "running"} => battle[s] \in {"made", "running"}
      BY ZenonT(60), <1>7
    <3>2. InTime \subseteq Rooms
      BY ZenonT(60) DEF InTime
    <3> QED
      BY ZenonT(60), <3>1, <3>2 DEF DownInv, AfterTake
  <2>3. ASSUME NEW s \in InTime PROVE Ahead(lobbyQ', End(s), Final)
    <3>1. /\ Ahead(lobbyQ, End(s), Final) /\ End(s) # Final
          /\ End(r) = End(s) => ~Occurs(lobbyQ, Final)
      BY ZenonT(60), <2>1, NamesDiffer DEF DownInv, AfterTake
    <3>2. Ahead(Append(lobbyQ, End(r)), End(s), Final)
      BY ZenonT(60), <1>2, <3>1, AheadAppend
    <3> QED
      BY ZenonT(60), <1>1, <3>2
  <2>4. /\ Occurs(lobbyQ', Final) <=> Occurs(lobbyQ, Final)
        /\ PoolGoes => \A s \in InTime : ~Occurs(lobbyQ', End(s))
    <3>1. Occurs(lobbyQ', Final) <=> Occurs(lobbyQ, Final)
      BY ZenonT(60), <1>4, NamesDiffer
    <3>2. ASSUME PoolGoes, NEW s \in InTime PROVE ~Occurs(lobbyQ', End(s))
      BY ZenonT(60), <1>4, <2>1, <3>2, NamesDiffer DEF DownInv, AfterTake
    <3> QED
      BY ZenonT(60), <3>1, <3>2
  <2> QED
    BY ZenonT(60), <1>1, <1>6, <1>9, <2>2, <2>3, <2>4 DEF DownInv, AfterTake
<1>15. Loops'
  BY ZenonT(60), <1>1, <1>6, <1>12 DEF DownInv, Loops
<1> QED
  BY ZenonT(60), <1>10, <1>11, <1>13, <1>14, <1>15 DEF DownInv

\* What a game loop knows when it runs a functor.
LEMMA GameRuns ==
  ASSUME DownInv, NEW r \in Rooms, RunsGame(r)
  PROVE  /\ gameQ' \in [Rooms -> Seq(GameOp)]
         /\ \A s \in Rooms : s # r => gameQ'[s] = gameQ[s]
         /\ Once(gameQ'[r], "stop") /\ Once(gameQ'[r], "start")
         /\ Ahead(gameQ'[r], "start", "stop")
         /\ \A x : Occurs(gameQ[r], x) <=> Occurs(gameQ'[r], x) \/ Head(gameQ[r]) = x
         /\ Head(gameQ[r]) = "stop" => ~Occurs(gameQ'[r], "stop") /\ ~Occurs(gameQ[r], "start")
         /\ Head(gameQ[r]) = "start" => ~Occurs(gameQ'[r], "start")
         /\ battle[r] # "none"
<1>1. /\ gameQ \in [Rooms -> Seq(GameOp)] /\ gameQ[r] # <<>>
      /\ gameQ' = [gameQ EXCEPT ![r] = Tail(gameQ[r])]
      /\ Once(gameQ[r], "stop") /\ Once(gameQ[r], "start") /\ Ahead(gameQ[r], "start", "stop")
  BY ZenonT(60) DEF DownInv, DownType, Loops, LoopOK, RunsGame
<1>2. /\ gameQ[r] \in Seq(GameOp) /\ gameQ'[r] = Tail(gameQ[r])
      /\ \A s \in Rooms : s # r => gameQ'[s] = gameQ[s]
  BY ZenonT(60), <1>1
<1>3. gameQ' \in [Rooms -> Seq(GameOp)]
  BY ZenonT(60), <1>1, <1>2, TailAt
<1>4. \A x : Occurs(gameQ[r], x) <=> Occurs(gameQ'[r], x) \/ Head(gameQ[r]) = x
  BY ZenonT(60), <1>1, <1>2, OccursTail
<1>5. Once(gameQ'[r], "stop") /\ (Head(gameQ[r]) = "stop" => ~Occurs(gameQ'[r], "stop"))
  BY ZenonT(60), <1>1, <1>2, OnceTail
<1>6. Once(gameQ'[r], "start") /\ (Head(gameQ[r]) = "start" => ~Occurs(gameQ'[r], "start"))
  BY ZenonT(60), <1>1, <1>2, OnceTail
<1>7. /\ Ahead(gameQ'[r], "start", "stop")
      /\ Head(gameQ[r]) = "stop" => ~Occurs(gameQ[r], "start")
  BY ZenonT(60), <1>1, <1>2, AheadTail
<1>8. battle[r] # "none"
  BY ZenonT(60), <1>1 DEF DownInv, Loops, LoopOK
<1> QED
  BY ZenonT(60), <1>2, <1>3, <1>4, <1>5, <1>6, <1>7, <1>8

\* The functor of tryMatch: the battle runs with its ticker.
LEMMA StartRoomDown ==
  ASSUME DownInv, NEW r \in Rooms, StartRoom(r)
  PROVE  DownInv'
<1>1. /\ RunsGame(r) /\ r \in looping /\ Head(gameQ[r]) = "start" /\ ticker' = ticker \cup {r}
      /\ battle' = [battle EXCEPT ![r] = "running"]
      /\ lobbyQ' = lobbyQ /\ rooms' = rooms /\ remain' = remain /\ main' = main
      /\ looping' = looping /\ kind' = kind /\ late' = late
  BY ZenonT(60) DEF StartRoom, RunsGame
<1>2. /\ gameQ' \in [Rooms -> Seq(GameOp)]
      /\ \A s \in Rooms : s # r => gameQ'[s] = gameQ[s]
      /\ Once(gameQ'[r], "stop") /\ Once(gameQ'[r], "start")
      /\ Ahead(gameQ'[r], "start", "stop")
      /\ \A x : Occurs(gameQ[r], x) <=> Occurs(gameQ'[r], x) \/ "start" = x
      /\ ~Occurs(gameQ'[r], "start")
  BY ZenonT(60), <1>1, GameRuns
<1>3. ToStop' = ToStop
  <2>1. Occurs(gameQ'[r], "stop") <=> Occurs(gameQ[r], "stop")
    BY ZenonT(60), <1>2
  <2>2. \A s \in Rooms : Occurs(gameQ'[s], "stop") <=> Occurs(gameQ[s], "stop")
    BY ZenonT(60), <1>2, <2>1
  <2> QED
    BY ZenonT(60), <2>2 DEF ToStop
<1>4. (Untaken' <=> Untaken) /\ (PoolGoes' <=> PoolGoes) /\ InTime' = InTime
  BY ZenonT(60), <1>1 DEF Untaken, Early, PoolGoes, InTime
<1>5. /\ battle[r] = "made" /\ battle'[r] = "running" /\ battle' \in [Rooms -> Battles]
      /\ \A s \in Rooms : s # r => battle'[s] = battle[s]
  <2>1. battle \in [Rooms -> Battles] /\ "running" \in Battles
    BY ZenonT(60) DEF DownInv, DownType, Battles
  <2>2. battle[r] = "made"
    BY ZenonT(60), <1>2 DEF DownInv, Loops, LoopOK
  <2> QED
    BY ZenonT(60), <1>1, <2>1, <2>2
<1>6. DownType'
  BY ZenonT(60), <1>1, <1>2, <1>5 DEF DownInv, DownType
<1>7. ASSUME NEW s \in Rooms PROVE Settled(s)'
  <2>1. /\ battle'[s] = "ended" <=> battle[s] = "ended"
        /\ battle'[s] = "none" <=> battle[s] = "none"
    BY ZenonT(60), <1>5
  <2> QED
    BY ZenonT(60), <1>1, <1>4, <2>1 DEF DownInv, Settled
<1>8. ASSUME NEW s \in Rooms PROVE LoopOK(s)'
  <2>1. CASE s = r
    <3>1. battle'[s] # "made" /\ battle'[s] # "none" /\ battle'[s] = "running"
      BY ZenonT(60), <1>5, <2>1
    <3> QED
      BY ZenonT(60), <1>1, <1>2, <2>1, <3>1 DEF LoopOK
  <2>2. CASE s # r
    <3>1. /\ gameQ'[s] = gameQ[s] /\ battle'[s] = battle[s]
          /\ s \in ticker' <=> s \in ticker
      BY ZenonT(60), <1>1, <1>2, <1>5, <2>2
    <3> QED
      BY ZenonT(60), <1>1, <3>1 DEF DownInv, Loops, LoopOK
  <2> QED
    BY ZenonT(60), <2>1, <2>2
<1>9. BeforeTake'
  BY ZenonT(60), <1>1, <1>3, <1>4 DEF DownInv, BeforeTake
<1>10. AfterTake'
  <2>1. \A s \in Rooms : battle'[s] \in {"made", "running"} => battle[s] \in {"made", "running"}
    BY ZenonT(60), <1>5
  <2>2. InTime \subseteq Rooms
    BY ZenonT(60) DEF InTime
  <2> QED
    BY ZenonT(60), <1>1, <1>3, <1>4, <2>1, <2>2 DEF DownInv, AfterTake
<1>11. Loops'
  BY ZenonT(60), <1>1, <1>4, <1>8 DEF DownInv, Loops
<1> QED
  BY ZenonT(60), <1>6, <1>7, <1>9, <1>10, <1>11 DEF DownInv

\* The functor that endBattle queued.
LEMMA ResetTickerDown ==
  ASSUME DownInv, NEW r \in Rooms, ResetTicker(r)
  PROVE  DownInv'
<1>1. /\ RunsGame(r) /\ r \in looping /\ Head(gameQ[r]) = "reset" /\ ticker' = ticker \ {r}
      /\ lobbyQ' = lobbyQ /\ rooms' = rooms /\ remain' = remain /\ main' = main
      /\ looping' = looping /\ battle' = battle /\ kind' = kind /\ late' = late
  BY ZenonT(60) DEF ResetTicker, RunsGame
<1>2. /\ gameQ' \in [Rooms -> Seq(GameOp)]
      /\ \A s \in Rooms : s # r => gameQ'[s] = gameQ[s]
      /\ Once(gameQ'[r], "stop") /\ Once(gameQ'[r], "start")
      /\ Ahead(gameQ'[r], "start", "stop")
      /\ \A x : Occurs(gameQ[r], x) <=> Occurs(gameQ'[r], x) \/ "reset" = x
      /\ battle[r] # "none"
  BY ZenonT(60), <1>1, GameRuns
<1>3. /\ Occurs(gameQ'[r], "stop") <=> Occurs(gameQ[r], "stop")
      /\ Occurs(gameQ'[r], "start") <=> Occurs(gameQ[r], "start")
  BY ZenonT(60), <1>2
<1>4. ToStop' = ToStop
  <2>1. \A s \in Rooms : Occurs(gameQ'[s], "stop") <=> Occurs(gameQ[s], "stop")
    BY ZenonT(60), <1>2, <1>3
  <2> QED
    BY ZenonT(60), <2>1 DEF ToStop
<1>5. (Untaken' <=> Untaken) /\ (PoolGoes' <=> PoolGoes) /\ InTime' = InTime
  BY ZenonT(60), <1>1 DEF Untaken, Early, PoolGoes, InTime
<1>6. DownType'
  BY ZenonT(60), <1>1, <1>2 DEF DownInv, DownType
<1>7. ASSUME NEW s \in Rooms PROVE Settled(s)'
  BY ZenonT(60), <1>1, <1>5 DEF DownInv, Settled
<1>8. ASSUME NEW s \in Rooms PROVE LoopOK(s)'
  <2>1. CASE s = r
    BY ZenonT(60), <1>1, <1>2, <1>3, <2>1 DEF DownInv, Loops, LoopOK
  <2>2. CASE s # r
    <3>1. gameQ'[s] = gameQ[s] /\ (s \in ticker' <=> s \in ticker)
      BY ZenonT(60), <1>1, <1>2, <2>2
    <3> QED
      BY ZenonT(60), <1>1, <3>1 DEF DownInv, Loops, LoopOK
  <2> QED
    BY ZenonT(60), <2>1, <2>2
<1>9. BeforeTake'
  BY ZenonT(60), <1>1, <1>4, <1>5 DEF DownInv, BeforeTake
<1>10. AfterTake'
  BY ZenonT(60), <1>1, <1>4, <1>5 DEF DownInv, AfterTake
<1>11. Loops'
  BY ZenonT(60), <1>1, <1>5, <1>8 DEF DownInv, Loops
<1> QED
  BY ZenonT(60), <1>6, <1>7, <1>9, <1>10, <1>11 DEF DownInv

\* stop(), finishOne(): the room was started before it is stopped; the counter
\* reaches 1 exactly at the last stop(), and then no battle that was taken is left
\* that could still post behind the last functor.
LEMMA StopRoomDown ==
  ASSUME DownInv, NEW r \in Rooms, StopRoom(r)
  PROVE  DownInv'
<1>1. /\ RunsGame(r) /\ r \in looping /\ Head(gameQ[r]) = "stop" /\ ticker' = ticker \ {r}
      /\ battle' = [battle EXCEPT ![r] = IF battle[r] = "running" THEN "stopped" ELSE battle[r]]
      /\ lobbyQ' = Finished /\ remain' = remain - 1
      /\ rooms' = rooms /\ main' = main /\ looping' = looping /\ kind' = kind /\ late' = late
  BY ZenonT(60) DEF StopRoom, RunsGame
<1>2. /\ gameQ' \in [Rooms -> Seq(GameOp)]
      /\ \A s \in Rooms : s # r => gameQ'[s] = gameQ[s]
      /\ Once(gameQ'[r], "stop") /\ Once(gameQ'[r], "start") /\ Ahead(gameQ'[r], "start", "stop")
      /\ \A x : Occurs(gameQ[r], x) <=> Occurs(gameQ'[r], x) \/ "stop" = x
      /\ ~Occurs(gameQ'[r], "stop") /\ ~Occurs(gameQ[r], "start") /\ battle[r] # "none"
  BY ZenonT(60), <1>1, GameRuns
<1>3. /\ \A s \in Rooms : s # r => battle'[s] = battle[s]
      /\ battle'[r] = (IF battle[r] = "running" THEN "stopped" ELSE battle[r])
      /\ battle' \in [Rooms -> Battles]
  <2>1. battle \in [Rooms -> Battles] /\ "stopped" \in Battles
    BY ZenonT(60) DEF DownInv, DownType, Battles
  <2> QED
    BY ZenonT(60), <1>1, <2>1
<1>4. /\ battle'[r] \notin {"made", "running"} /\ battle'[r] # "none"
      /\ (battle'[r] = "ended" <=> battle[r] = "ended")
  <2>1. battle[r] # "made"
    BY ZenonT(60), <1>1, <1>2 DEF DownInv, Loops, LoopOK
  <2> QED
    BY ZenonT(60), <1>2, <1>3, <2>1
<1>5. r \in ToStop /\ ToStop' = ToStop \ {r}
  <2>1. r \in ToStop
    BY ZenonT(60), <1>2 DEF ToStop
  <2>2. \A s : s \in ToStop' <=> s \in ToStop \ {r}
    BY ZenonT(60), <1>2 DEF ToStop
  <2> QED
    BY ZenonT(60), <2>1, <2>2
<1>6. /\ ~Untaken /\ ~PoolGoes /\ main = "stopping" /\ remain = Cardinality(ToStop)
      /\ ~Occurs(lobbyQ, Final)
  <2>1. ~Untaken /\ ~PoolGoes
    BY ZenonT(60), <1>5 DEF DownInv, BeforeTake, AfterTake
  <2>2. main = "stopping"
    BY ZenonT(60), <2>1 DEF DownInv, DownType, Untaken, Early, PoolGoes
  <2> QED
    BY ZenonT(60), <1>5, <2>1, <2>2 DEF DownInv, AfterTake
<1>7. /\ IsFiniteSet(ToStop) /\ Cardinality(ToStop) \in Nat
      /\ Cardinality(ToStop') = Cardinality(ToStop) - 1
      /\ ToStop' = {} <=> Cardinality(ToStop) = 1
  <2>1. IsFiniteSet(ToStop)
    BY ZenonT(60), ShutdownAssumption, FS_Subset DEF ToStop
  <2>2. /\ IsFiniteSet(ToStop') /\ Cardinality(ToStop') = Cardinality(ToStop) - 1
    BY ZenonT(60), <1>5, <2>1, FS_RemoveElement
  <2>3. ToStop' = {} <=> Cardinality(ToStop') = 0
    BY ZenonT(60), <2>2, FS_EmptySet
  <2>4. Cardinality(ToStop) \in Nat
    BY ZenonT(60), <2>1, FS_CardinalityType
  <2>5. Cardinality(ToStop) - 1 = 0 <=> Cardinality(ToStop) = 1
    BY SMTT(60), <2>4
  <2> QED
    BY ZenonT(60), <2>1, <2>2, <2>3, <2>4, <2>5
<1>8. lobbyQ' = (IF ToStop' = {} THEN Append(lobbyQ, Final) ELSE lobbyQ)
  BY ZenonT(60), <1>1, <1>6, <1>7 DEF Finished, Final
<1>9. /\ lobbyQ \in Seq(Job) /\ Final \in Job
  BY ZenonT(60), JobCases DEF DownInv, DownType
<1>10. /\ lobbyQ' \in Seq(Job)
       /\ \A x : x # Final => (Occurs(lobbyQ', x) <=> Occurs(lobbyQ, x))
       /\ \A x : Once(lobbyQ, x) => Once(lobbyQ', x)
       /\ \A x : x # Final /\ Ahead(lobbyQ, x, Final) => Ahead(lobbyQ', x, Final)
       /\ ToStop' # {} => ~Occurs(lobbyQ', Final)
  <2>1. CASE ToStop' = {}
    <3>1. lobbyQ' = Append(lobbyQ, Final)
      BY ZenonT(60), <1>8, <2>1
    <3>2. lobbyQ' \in Seq(Job) /\ \A x : Occurs(lobbyQ', x) <=> Occurs(lobbyQ, x) \/ Final = x
      BY ZenonT(60), <1>9, <3>1, AppendAt, OccursAppend
    <3>3. \A x : Once(lobbyQ, x) => Once(lobbyQ', x)
      BY ZenonT(60), <1>6, <1>9, <3>1, OnceFresh
    <3>4. ASSUME NEW x, x # Final, Ahead(lobbyQ, x, Final) PROVE Ahead(lobbyQ', x, Final)
      BY ZenonT(60), <1>9, <3>1, <3>4, AheadAppend
    <3> QED
      BY ZenonT(60), <2>1, <3>2, <3>3, <3>4
  <2>2. CASE ToStop' # {}
    <3>1. lobbyQ' = lobbyQ
      BY ZenonT(60), <1>8, <2>2
    <3> QED
      BY ZenonT(60), <1>6, <1>9, <2>2, <3>1
  <2> QED
    BY ZenonT(60), <2>1, <2>2
<1>11. ~Untaken' /\ ~PoolGoes' /\ ~Occurs(lobbyQ', Take) /\ InTime' = InTime
  <2>1. ~Occurs(lobbyQ, Take)
    BY ZenonT(60), <1>6 DEF DownInv, BeforeTake
  <2> QED
    BY ZenonT(60), <1>1, <1>6, <1>10, <2>1, NamesDiffer DEF Untaken, Early, PoolGoes, InTime
<1>12. DownType'
  BY ZenonT(60), <1>1, <1>2, <1>3, <1>10 DEF DownInv, DownType
<1>13. ASSUME NEW s \in Rooms PROVE Settled(s)'
  <2>1. Occurs(lobbyQ', End(s)) <=> Occurs(lobbyQ, End(s))
    BY ZenonT(60), <1>10, NamesDiffer
  <2>2. battle'[s] = "ended" <=> battle[s] = "ended"
    BY ZenonT(60), <1>3, <1>4
  <2> QED
    BY ZenonT(60), <1>1, <1>10, <1>11, <2>1, <2>2 DEF DownInv, Settled
<1>14. ASSUME NEW s \in Rooms PROVE LoopOK(s)'
  <2>1. CASE s = r
    <3>1. r \notin ticker' /\ r \in looping' /\ battle'[r] # "made" /\ ~Occurs(gameQ'[r], "start")
      BY ZenonT(60), <1>1, <1>2, <1>4
    <3> QED
      BY ZenonT(60), <1>2, <1>4, <2>1, <3>1 DEF LoopOK
  <2>2. CASE s # r
    <3>1. gameQ'[s] = gameQ[s] /\ battle'[s] = battle[s] /\ (s \in ticker' <=> s \in ticker)
      BY ZenonT(60), <1>1, <1>2, <1>3, <2>2
    <3> QED
      BY ZenonT(60), <1>1, <3>1 DEF DownInv, Loops, LoopOK
  <2> QED
    BY ZenonT(60), <2>1, <2>2
<1>15. BeforeTake'
  BY ZenonT(60), <1>10, <1>11 DEF DownInv, BeforeTake
<1>16. AfterTake'
  <2>1. \A s \in InTime : battle'[s] \in {"made", "running"} => s \in ToStop'
    <3>1. ASSUME NEW s \in InTime, battle'[s] \in {"made", "running"} PROVE s \in ToStop'
      <4>1. s \in Rooms /\ s # r
        BY ZenonT(60), <1>4, <3>1 DEF InTime
      <4>2. battle[s] \in {"made", "running"}
        BY ZenonT(60), <1>3, <3>1, <4>1
      <4> QED
        BY ZenonT(60), <1>5, <1>6, <4>1, <4>2 DEF DownInv, AfterTake
    <3> QED
      BY ZenonT(60), <3>1
  <2>2. remain' = Cardinality(ToStop') /\ rooms' \subseteq late'
    BY ZenonT(60), <1>1, <1>6, <1>7 DEF DownInv, AfterTake
  <2>3. \A s \in InTime : Ahead(lobbyQ', End(s), Final)
    BY ZenonT(60), <1>6, <1>10, NamesDiffer DEF DownInv, AfterTake
  <2> QED
    BY ZenonT(60), <1>10, <1>11, <2>1, <2>2, <2>3 DEF AfterTake
<1>17. Loops'
  BY ZenonT(60), <1>1, <1>6, <1>11, <1>14 DEF DownInv, Loops, PoolGoes
<1> QED
  BY ZenonT(60), <1>12, <1>13, <1>15, <1>16, <1>17 DEF DownInv

\* A game loop leaves: every stop() has run, so a ticker that is left of a room
\* in time has its reset pending and goes with the functors.
LEMMA LoopExitsDown ==
  ASSUME DownInv, NEW r \in Rooms, LoopExits(r)
  PROVE  DownInv'
<1>1. /\ main = "joining" /\ r \in looping /\ looping' = looping \ {r}
      /\ ticker' = (IF gameQ[r] = <<>> \/ r \in rooms THEN ticker ELSE ticker \ {r})
      /\ gameQ' = [gameQ EXCEPT ![r] = <<>>]
      /\ lobbyQ' = lobbyQ /\ rooms' = rooms /\ remain' = remain /\ main' = main
      /\ battle' = battle /\ kind' = kind /\ late' = late
  BY ZenonT(60) DEF LoopExits
<1>2. ~Untaken /\ ~Untaken' /\ PoolGoes /\ PoolGoes' /\ InTime' = InTime /\ main' # "stopping"
  BY ZenonT(60), <1>1 DEF Untaken, Early, PoolGoes, InTime
<1>3. /\ ToStop = {} /\ rooms \subseteq late
      /\ \A s \in InTime : battle[s] \notin {"made", "running"}
  BY ZenonT(60), <1>2 DEF DownInv, AfterTake
<1>4. \A x, y : ~Occurs(<<>>, x) /\ Once(<<>>, x) /\ Ahead(<<>>, x, y)
  BY SMTT(60) DEF Occurs, Once, Ahead
<1>5. <<>> \in Seq(GameOp)
  BY SMTT(60)
<1>6. /\ gameQ' \in [Rooms -> Seq(GameOp)] /\ gameQ'[r] = <<>>
      /\ \A s \in Rooms : s # r => gameQ'[s] = gameQ[s]
  <2>1. gameQ \in [Rooms -> Seq(GameOp)]
    BY ZenonT(60) DEF DownInv, DownType
  <2> QED
    BY ZenonT(60), <1>1, <1>5, <2>1
<1>7. ToStop' = {}
  <2>1. \A s \in Rooms : ~Occurs(gameQ'[s], "stop")
    BY ZenonT(60), <1>3, <1>4, <1>6 DEF ToStop
  <2> QED
    BY ZenonT(60), <2>1 DEF ToStop
<1>8. (r \notin late => r \notin ticker') /\ \A s : s # r => (s \in ticker' <=> s \in ticker)
  <2>1. ASSUME r \notin late, gameQ[r] = <<>> PROVE r \notin ticker
    <3>1. battle[r] # "running" /\ ~Occurs(gameQ[r], "reset")
      <4>1. r \in InTime /\ ~Occurs(<<>>, "reset")
        BY ZenonT(60), <1>4, <2>1 DEF InTime
      <4> QED
        BY ZenonT(60), <1>3, <2>1, <4>1
    <3> QED
      BY ZenonT(60), <1>1, <3>1 DEF DownInv, Loops, LoopOK
  <2> QED
    BY ZenonT(60), <1>1, <1>3, <2>1
<1>9. DownType'
  BY ZenonT(60), <1>1, <1>6 DEF DownInv, DownType
<1>10. ASSUME NEW s \in Rooms PROVE Settled(s)'
  BY ZenonT(60), <1>1, <1>2 DEF DownInv, Settled
<1>11. ASSUME NEW s \in Rooms PROVE LoopOK(s)'
  <2>1. CASE s = r
    <3>1. r \notin looping'
      BY ZenonT(60), <1>1
    <3> QED
      BY ZenonT(60), <1>1, <1>4, <1>6, <1>8, <2>1, <3>1 DEF LoopOK
  <2>2. CASE s # r
    <3>1. /\ gameQ'[s] = gameQ[s] /\ (s \in ticker' <=> s \in ticker)
          /\ s \in looping' <=> s \in looping
      BY ZenonT(60), <1>1, <1>6, <1>8, <2>2
    <3> QED
      BY ZenonT(60), <1>1, <3>1 DEF DownInv, Loops, LoopOK
  <2> QED
    BY ZenonT(60), <2>1, <2>2
<1>12. BeforeTake'
  BY ZenonT(60), <1>1, <1>2 DEF DownInv, BeforeTake
<1>13. AfterTake'
  BY ZenonT(60), <1>1, <1>2, <1>3, <1>7 DEF DownInv, AfterTake
<1>14. Loops'
  BY ZenonT(60), <1>1, <1>2, <1>11 DEF Loops
<1> QED
  BY ZenonT(60), <1>9, <1>10, <1>12, <1>13, <1>14 DEF DownInv

\* DownInv is inductive.
LEMMA DownStep == ASSUME DownInv, [ShutdownNext]_allVars PROVE DownInv'
<1>1. CASE StartConnect \/ StartLobby \/ DestroyWriter \/ OnLeaderboard \/ RunTask
             \/ WriterStep \/ UNCHANGED allVars
  <2>1. CASE StartConnect \/ OnLeaderboard
    <3>1. CASE StartConnect
      <4>1. /\ UNCHANGED <<lobbyQ, rooms, remain, gameQ, looping, battle, ticker, late>>
            /\ Early /\ main' = "started" /\ kind' = Append(kind, <<"connect">>)
        BY ZenonT(60), <3>1 DEF StartConnect, Enqueue, Early
      <4>2. Quiet
        BY ZenonT(60), <4>1 DEF Quiet
      <4> QED
        BY ZenonT(60), <4>2, QuietDown
    <3>2. CASE OnLeaderboard
      <4>1. /\ UNCHANGED <<lobbyQ, rooms, remain, gameQ, looping, battle, ticker, late>>
            /\ main' = main /\ kind' = Append(kind, <<"query">>)
        BY ZenonT(60), <3>2 DEF OnLeaderboard, Enqueue, downVars
      <4>2. Quiet
        BY ZenonT(60), <4>1 DEF Quiet
      <4> QED
        BY ZenonT(60), <4>2, QuietDown
    <3> QED
      BY ZenonT(60), <2>1, <3>1, <3>2
  <2>2. CASE StartLobby
    BY ZenonT(60), <2>2, QuietDown DEF Quiet, Early, StartLobby
  <2>3. CASE DestroyWriter \/ RunTask \/ WriterStep \/ UNCHANGED allVars
    <3>1. kind' = kind /\ UNCHANGED downVars
      BY ZenonT(60), <2>3 DEF DestroyWriter, RunTask, WriterStep, allVars
    <3>2. UNCHANGED <<lobbyQ, rooms, remain, gameQ, looping, battle, ticker, late>> /\ main' = main
      BY ZenonT(60), <3>1 DEF downVars
    <3>3. Quiet
      BY ZenonT(60), <3>1, <3>2 DEF Quiet
    <3> QED
      BY ZenonT(60), <3>3, QuietDown
  <2> QED
    BY ZenonT(60), <1>1, <2>1, <2>2, <2>3
<1>2. CASE Dtor \/ TakeRooms \/ ResetPool \/ JoinPool
  BY ZenonT(60), <1>2, DtorDown, TakeDown, ResetPoolDown, JoinPoolDown
<1>3. ASSUME NEW r \in Rooms, \/ Match(r) \/ OnRoomEnd(r) \/ StartRoom(r) \/ BattleEnds(r)
                              \/ ResetTicker(r) \/ StopRoom(r) \/ LoopExits(r)
      PROVE  DownInv'
  BY ZenonT(60), <1>3, MatchDown, RoomEndDown, StartRoomDown, BattleEndsDown, ResetTickerDown,
     StopRoomDown, LoopExitsDown
<1> QED
  BY ZenonT(60), <1>1, <1>2, <1>3 DEF ShutdownNext

\* The invariant of the threads holds in every reachable state.
THEOREM DownInvHolds == ShutdownSpec => []DownInv
<1>1. DownInv /\ [ShutdownNext]_allVars => DownInv'
  BY DownStep
<1> QED
  BY <1>1, DownInit, PTL DEF ShutdownSpec

\* When ~GameServer returns, everything it took and waited for is down, whoever
\* is matched meanwhile.
THEOREM TakenIsDownHolds == ShutdownSpec => []TakenIsDown
<1>1. DownInv => TakenIsDown
  <2> SUFFICES ASSUME DownInv, main = "done" PROVE TakenIsDown
    BY ZenonT(60) DEF TakenIsDown
  <2>1. ~Untaken /\ PoolGoes /\ looping = {}
    BY ZenonT(60) DEF DownInv, Untaken, Early, PoolGoes, Loops
  <2>2. ASSUME NEW r \in Rooms \ late
        PROVE  /\ r \notin ticker \cup rooms /\ battle[r] \in {"none", "ended", "stopped"}
               /\ \A i \in DOMAIN lobbyQ : lobbyQ[i] # <<"onRoomEnd", r>>
    <3>1. /\ r \notin rooms /\ battle[r] \notin {"made", "running"} /\ ~Occurs(lobbyQ, End(r))
      BY ZenonT(60), <2>1 DEF DownInv, AfterTake, InTime
    <3>2. r \notin ticker
      BY ZenonT(60), <2>1 DEF DownInv, Loops, LoopOK
    <3>3. battle[r] \in Battles
      BY ZenonT(60) DEF DownInv, DownType
    <3>4. battle[r] \in {"none", "ended", "stopped"}
      BY ZenonT(60), <3>1, <3>3 DEF Battles
    <3> QED
      BY ZenonT(60), <3>1, <3>2, <3>4 DEF Occurs, End
  <2> QED
    BY ZenonT(60), <2>1, <2>2 DEF TakenIsDown
<1> QED
  BY <1>1, DownInvHolds, PTL

-----------------------------------------------------------------------------
(* The tasks and the stores.                                               *)

\* A step of the server is a step of its writer, or leaves the writer alone.
THEOREM ShutdownUsesWriter == ShutdownSpec => Spec
<1>1. ShutdownInit => Init
  BY ZenonT(60) DEF ShutdownInit
<1>2. [ShutdownNext]_allVars => [Next]_vars
  <2> SUFFICES ASSUME [ShutdownNext]_allVars PROVE [Next]_vars
    OBVIOUS
  <2>1. "main" \in Producers /\ "lobby" \in Producers /\ "io" \in Producers
    BY ZenonT(60), ShutdownAssumption
  <2>2. CASE StartConnect \/ OnLeaderboard
    BY ZenonT(60), <2>1, <2>2 DEF StartConnect, OnLeaderboard, Enqueue, Next
  <2>3. CASE DestroyWriter \/ RunTask
    BY ZenonT(60), <2>3 DEF DestroyWriter, RunTask, Next, ThreadStep
  <2>4. CASE WriterStep
    BY ZenonT(60), <2>4 DEF WriterStep, Next, ThreadStep
  <2>5. CASE StartLobby \/ Dtor \/ TakeRooms \/ ResetPool \/ JoinPool \/ UNCHANGED allVars
    BY ZenonT(60), <2>5 DEF StartLobby, Dtor, TakeRooms, ResetPool, JoinPool, allVars
  <2>6. ASSUME NEW r \in Rooms, \/ Match(r) \/ OnRoomEnd(r) \/ StartRoom(r) \/ BattleEnds(r)
                                \/ ResetTicker(r) \/ StopRoom(r) \/ LoopExits(r)
        PROVE  [Next]_vars
    <3>1. CASE OnRoomEnd(r)
      BY ZenonT(60), <2>1, <3>1 DEF OnRoomEnd, Enqueue, Next
    <3>2. CASE \/ Match(r) \/ StartRoom(r) \/ BattleEnds(r) \/ ResetTicker(r) \/ StopRoom(r)
               \/ LoopExits(r)
      BY ZenonT(60), <3>2 DEF Match, StartRoom, BattleEnds, ResetTicker, StopRoom, LoopExits
    <3> QED
      BY ZenonT(60), <2>6, <3>1, <3>2
  <2> QED
    BY ZenonT(60), <2>2, <2>3, <2>4, <2>5, <2>6 DEF ShutdownNext
<1> QED
  BY <1>1, <1>2, PTL DEF ShutdownSpec, Spec

\* What ran is a prefix of what was pushed, and the batch goes on behind it.
LEMMA RanPrefix ==
  ASSUME WriterInv
  PROVE  /\ Len(executed) \in Nat /\ Len(executed) <= pushed /\ pushed \in Nat
         /\ \A n \in 1..Len(executed) : n \in DOMAIN executed /\ executed[n] = n
         /\ batch # <<>> => Head(batch) = Len(executed) + 1 /\ Len(executed) < pushed
<1>1. /\ executed \in Seq(1..MaxTasks) /\ batch \in Seq(1..MaxTasks)
      /\ front \in Seq(1..MaxTasks) /\ pushed \in Nat
      /\ executed \o batch \o front = [n \in 1..pushed |-> n]
  BY MaxTasksAssumption DEF WriterInv, TypeOK, NothingLost
<1> DEFINE e == Len(executed)
           b == Len(batch)
           h == executed \o batch \o front
<1>2. /\ executed \o batch \in Seq(1..MaxTasks) /\ Len(executed \o batch) = e + b
      /\ \A n \in 1..(e + b) : (executed \o batch)[n] = (IF n <= e THEN executed[n] ELSE batch[n - e])
  BY ZenonT(60), <1>1, ConcatProperties
<1>3. /\ Len(h) = e + b + Len(front)
      /\ \A n \in 1..(e + b) : h[n] = (executed \o batch)[n]
  <2> DEFINE c == executed \o batch
  <2>1. c \in Seq(1..MaxTasks) /\ Len(c) = e + b
    BY ZenonT(60), <1>2
  <2>2. e + b \in Nat /\ Len(front) \in Nat
    BY SMTT(60), <1>1
  <2> HIDE DEF c
  <2>3. /\ Len(c \o front) = Len(c) + Len(front)
        /\ \A n \in 1..(Len(c) + Len(front)) :
             (c \o front)[n] = (IF n <= Len(c) THEN c[n] ELSE front[n - Len(c)])
    BY SMTT(60), <1>1, <2>1, ConcatProperties
  <2>4. \A n \in 1..Len(c) : (c \o front)[n] = c[n]
    BY SMTT(60), <2>1, <2>2, <2>3
  <2> QED
    BY ZenonT(60), <2>1, <2>3, <2>4 DEF c
<1>4. Len(h) = pushed /\ \A n \in 1..pushed : h[n] = n
  BY SMTT(60), <1>1
<1>5. e \in Nat /\ b \in Nat /\ Len(front) \in Nat /\ DOMAIN executed = 1..e
  BY SMTT(60), <1>1
<1> HIDE DEF h
<1>6. e + b <= pushed
  BY SMTT(60), <1>1, <1>3, <1>4, <1>5
<1>7. \A n \in 1..e : executed[n] = n
  BY SMTT(60), <1>1, <1>2, <1>3, <1>4, <1>5, <1>6
<1>8. ASSUME batch # <<>> PROVE Head(batch) = e + 1 /\ e < pushed
  <2>1. b >= 1 /\ Head(batch) = batch[1]
    BY SMTT(60), <1>1, <1>8
  <2>2. h[e + 1] = batch[1]
    BY SMTT(60), <1>2, <1>3, <1>5, <2>1
  <2> QED
    BY SMTT(60), <1>1, <1>4, <1>5, <1>6, <2>1, <2>2
<1> QED
  BY SMTT(60), <1>1, <1>5, <1>6, <1>7, <1>8

\* Each task has a kind; the writer is destroyed only by a main thread whose
\* server is down, so only results of late rooms are enqueued after stop_; the
\* destructor returns when the thread has left.
TasksOK ==
  /\ Len(kind) = pushed
  /\ dpc # "alive" => main \in {"done", "crashed"}
  /\ stop => \A n \in DOMAIN kind : (\E r \in InTime : kind[n] = Result(r)) => n <= stopAt
  /\ dpc = "joined" => pc = "exited"

\* A score comes from a result that has run, an answer from a query that has.
ScoresOK ==
  /\ \A r \in Rooms : <<r, "score">> \in written => \E m \in 1..Len(executed) : kind[m] = Result(r)
  /\ \A a \in answers : a.task \in 1..Len(executed)

\* The second inductive invariant, on top of DownInv and WriterInv.
StoreInv == TasksOK /\ ScoresOK /\ LeaderboardIsCurrent

\* A task of kind k is pushed.
Pushes(k) ==
  /\ kind' = Append(kind, k) /\ pushed' = pushed + 1
  /\ UNCHANGED <<stop, stopAt, dpc, pc, executed, written, answers>>

\* It lies behind all that has run, and is no result of a room in time once stop_
\* is set.
LEMMA PushStore ==
  ASSUME DownInv, WriterInv, StoreInv, NEW k \in TaskKind, Pushes(k),
         main' = main \/ dpc = "alive", late' = late,
         stop => \A r \in InTime : k # Result(r)
  PROVE  StoreInv'
<1>1. /\ kind \in Seq(TaskKind) /\ Len(kind) = pushed /\ pushed \in Nat
      /\ Len(executed) \in Nat /\ Len(executed) <= pushed
  BY ZenonT(60), RanPrefix DEF DownInv, DownType, StoreInv, TasksOK
<1>2. /\ kind' = Append(kind, k) /\ pushed' = pushed + 1 /\ stop' = stop /\ stopAt' = stopAt
      /\ dpc' = dpc /\ pc' = pc /\ executed' = executed /\ written' = written
      /\ answers' = answers
  BY ZenonT(60) DEF Pushes
<1>3. /\ Len(kind') = pushed + 1 /\ kind'[pushed + 1] = k
      /\ \A n \in DOMAIN kind : kind'[n] = kind[n]
      /\ \A n \in DOMAIN kind' : n \in DOMAIN kind \/ n = pushed + 1
  <2>1. Len(kind') = pushed + 1
    BY ZenonT(60), <1>1, <1>2, AppendProperties
  <2>2. /\ kind'[Len(kind) + 1] = k
        /\ \A n \in DOMAIN kind : kind'[n] = kind[n]
        /\ \A n \in DOMAIN kind' : n \in DOMAIN kind \/ n = Len(kind) + 1
    BY ZenonT(60), <1>1, <1>2, AppendAt
  <2> QED
    BY ZenonT(60), <1>1, <2>1, <2>2
<1>4. \A n \in 1..Len(executed) : n \in DOMAIN kind
  BY SMTT(60), <1>1
<1>5. \A a \in answers : a.task \in 1..Len(executed) /\ 1..a.task \subseteq 1..Len(executed)
  <2>1. \A t \in 1..Len(executed) : 1..t \subseteq 1..Len(executed)
    BY SMTT(60), <1>1
  <2> QED
    BY ZenonT(60), <2>1 DEF StoreInv, ScoresOK
<1>6. TasksOK'
  <2>1. InTime' = InTime /\ (dpc # "alive" => main' \in {"done", "crashed"})
    BY ZenonT(60) DEF InTime, StoreInv, TasksOK
  <2> QED
    BY ZenonT(60), <1>2, <1>3, <2>1 DEF StoreInv, TasksOK
<1>7. ScoresOK'
  BY ZenonT(60), <1>2, <1>3, <1>4, <1>5 DEF StoreInv, ScoresOK
<1>8. LeaderboardIsCurrent'
  <2> SUFFICES ASSUME NEW a \in answers, a.ok
               PROVE  a.scores = {r \in Rooms : /\ <<r, "score">> \in written
                                                /\ \E n \in 1..a.task : kind'[n] = Result(r)}
    BY ZenonT(60), <1>2 DEF LeaderboardIsCurrent, Result
  <2>1. a.scores = {r \in Rooms : /\ <<r, "score">> \in written
                                  /\ \E n \in 1..a.task : kind[n] = Result(r)}
    BY ZenonT(60) DEF StoreInv, LeaderboardIsCurrent, Result
  <2>2. \A n \in 1..a.task : kind'[n] = kind[n]
    BY ZenonT(60), <1>3, <1>4, <1>5
  <2> QED
    BY ZenonT(60), <2>1, <2>2
<1> QED
  BY ZenonT(60), <1>6, <1>7, <1>8 DEF StoreInv

\* A step that neither enqueues nor runs a task.
Idles ==
  /\ UNCHANGED <<kind, pushed, executed, written, answers>>
  /\ stop' => (stop /\ stopAt' = stopAt) \/ stopAt' = pushed
  /\ dpc' # "alive" => main' \in {"done", "crashed"}
  /\ dpc' = "joined" => pc' = "exited"
  /\ late \subseteq late'

\* Setting stop_ records all tasks; the rest changes nothing for them.
LEMMA IdleStore ==
  ASSUME DownInv, WriterInv, StoreInv, Idles
  PROVE  StoreInv'
<1>1. /\ kind' = kind /\ pushed' = pushed /\ executed' = executed /\ written' = written
      /\ answers' = answers
  BY ZenonT(60) DEF Idles
<1>2. ScoresOK' /\ LeaderboardIsCurrent'
  <2>1. ScoresOK'
    BY ZenonT(60), <1>1 DEF StoreInv, ScoresOK
  <2>2. LeaderboardIsCurrent'
    BY ZenonT(60), <1>1 DEF StoreInv, LeaderboardIsCurrent
  <2> QED
    BY ZenonT(60), <2>1, <2>2
<1>3. \A n \in DOMAIN kind : n <= pushed
  <2>1. kind \in Seq(TaskKind) /\ Len(kind) = pushed
    BY ZenonT(60) DEF DownInv, DownType, StoreInv, TasksOK
  <2> QED
    BY SMTT(60), <2>1
<1>4. TasksOK'
  <2>1. InTime' \subseteq InTime
    BY ZenonT(60) DEF InTime, Idles
  <2> QED
    BY ZenonT(60), <1>1, <1>3, <2>1 DEF StoreInv, TasksOK, Idles
<1> QED
  BY ZenonT(60), <1>2, <1>4 DEF StoreInv

\* The storage thread runs a task: a result that runs is the only one of its
\* room and lies behind every query answered so far; a query is answered from
\* results that lie before it.
LEMMA RunStore ==
  ASSUME DownInv, WriterInv, StoreInv, RunTask
  PROVE  StoreInv'
<1>1. /\ batch # <<>> /\ executed' = Append(executed, Head(batch))
      /\ kind' = kind /\ main' = main /\ stop' = stop /\ stopAt' = stopAt
      /\ dpc' = dpc /\ pc' = pc /\ pushed' = pushed /\ late' = late
  BY ZenonT(60) DEF RunTask, ThreadRun, downVars
<1>2. PICK n : n = Head(batch)
  BY ZenonT(60)
<1>3. /\ n = Len(executed) + 1 /\ Len(executed) \in Nat /\ Len(executed) < pushed
      /\ pushed \in Nat
  BY ZenonT(60), <1>1, <1>2, RanPrefix
<1>4. Len(executed') = n
  <2>1. executed \in Seq(1..MaxTasks) /\ Head(batch) \in 1..MaxTasks
    BY ZenonT(60), <1>1, TailAt DEF WriterInv, TypeOK
  <2>2. Len(executed') = Len(executed) + 1
    BY ZenonT(60), <1>1, <2>1, AppendProperties
  <2> QED
    BY ZenonT(60), <1>3, <2>2
<1>5. /\ n \in 1..n /\ n \in DOMAIN kind
      /\ \A m \in 1..Len(executed) : m \in 1..n /\ m \in DOMAIN kind /\ m # n
      /\ \A t \in 1..Len(executed) : 1..t \subseteq 1..Len(executed)
  <2>1. kind \in Seq(TaskKind) /\ Len(kind) = pushed
    BY ZenonT(60) DEF DownInv, DownType, StoreInv, TasksOK
  <2>2. DOMAIN kind = 1..pushed
    BY ZenonT(60), <2>1, LenProperties
  <2> QED
    BY SMTT(60), <1>3, <2>2
<1>6. \A a \in answers : /\ a.task \in 1..Len(executed) /\ a.task \in 1..n
                         /\ \A m \in 1..a.task : m \in DOMAIN kind /\ m # n
  BY ZenonT(60), <1>5 DEF StoreInv, ScoresOK
<1>7. TasksOK'
  BY ZenonT(60), <1>1 DEF StoreInv, TasksOK, InTime
<1>8. \A r \in Rooms : <<r, "score">> \in written => \E m \in 1..n : kind[m] = Result(r)
  BY ZenonT(60), <1>5 DEF StoreInv, ScoresOK
<1>9. CASE kind[n] = <<"connect">> /\ RunConnect
  <2>1. written' = written /\ answers' = answers
    BY ZenonT(60), <1>9 DEF RunConnect
  <2>2. ScoresOK'
    BY ZenonT(60), <1>1, <1>4, <1>6, <1>8, <2>1 DEF ScoresOK
  <2>3. LeaderboardIsCurrent'
    BY ZenonT(60), <1>1, <2>1 DEF StoreInv, LeaderboardIsCurrent
  <2> QED
    BY ZenonT(60), <1>7, <2>2, <2>3 DEF StoreInv
<1>10. ASSUME NEW r \in Rooms, NEW ok \in SUBSET Statements, kind[n] = Result(r), RunResult(r, ok)
       PROVE  StoreInv'
  <2>1. /\ answers' = answers
        /\ \A s \in Rooms : s # r => (<<s, "score">> \in written' <=> <<s, "score">> \in written)
    <3>1. written' = written \/ written' = written \cup ({r} \X ok)
      BY ZenonT(60), <1>10 DEF RunResult
    <3>2. \A s \in Rooms : s # r => <<s, "score">> \notin {r} \X ok
      BY SMTT(60)
    <3> QED
      BY ZenonT(60), <1>10, <3>1, <3>2 DEF RunResult
  <2>2. ScoresOK'
    <3>1. ASSUME NEW s \in Rooms, <<s, "score">> \in written'
          PROVE  \E m \in 1..n : kind[m] = Result(s)
      BY ZenonT(60), <1>5, <1>8, <1>10, <2>1, <3>1
    <3> QED
      BY ZenonT(60), <1>1, <1>4, <1>6, <2>1, <3>1 DEF ScoresOK
  <2>3. LeaderboardIsCurrent'
    <3> SUFFICES ASSUME NEW a \in answers, a.ok
                 PROVE  a.scores = {s \in Rooms : /\ <<s, "score">> \in written'
                                                  /\ \E m \in 1..a.task : kind[m] = Result(s)}
      BY ZenonT(60), <1>1, <2>1 DEF LeaderboardIsCurrent, Result
    <3>1. a.scores = {s \in Rooms : /\ <<s, "score">> \in written
                                    /\ \E m \in 1..a.task : kind[m] = Result(s)}
      BY ZenonT(60) DEF StoreInv, LeaderboardIsCurrent, Result
    <3>2. ~\E m \in 1..a.task : kind[m] = Result(r)
      BY ZenonT(60), <1>5, <1>6, <1>10 DEF DownInv, Settled, Once
    <3> QED
      BY ZenonT(60), <2>1, <3>1, <3>2
  <2> QED
    BY ZenonT(60), <1>7, <2>2, <2>3 DEF StoreInv
<1>11. ASSUME NEW ok \in BOOLEAN, RunQuery(n, ok)
       PROVE  StoreInv'
  <2> DEFINE b == [task |-> n, ok |-> ok /\ ready,
                   scores |-> IF ok /\ ready THEN {r \in Rooms : <<r, "score">> \in written} ELSE {}]
  <2>1. /\ b.task = n
        /\ b.ok => b.scores = {r \in Rooms : <<r, "score">> \in written}
    BY ZenonT(60)
  <2>2. written' = written /\ answers' = answers \cup {b}
    BY ZenonT(60), <1>11 DEF RunQuery
  <2> HIDE DEF b
  <2>3. ScoresOK'
    BY ZenonT(60), <1>1, <1>4, <1>5, <1>6, <1>8, <2>1, <2>2 DEF ScoresOK
  <2>4. b.ok => b.scores = {r \in Rooms : /\ <<r, "score">> \in written
                                          /\ \E m \in 1..b.task : kind[m] = Result(r)}
    BY ZenonT(60), <1>8, <2>1
  <2>5. LeaderboardIsCurrent'
    <3> DEFINE Shown(a) == {r \in Rooms : /\ <<r, "score">> \in written
                                          /\ \E m \in 1..a.task : kind[m] = Result(r)}
    <3>1. \A a \in answers : a.ok => a.scores = Shown(a)
      BY ZenonT(60) DEF StoreInv, LeaderboardIsCurrent, Result
    <3>2. b.ok => b.scores = Shown(b)
      BY ZenonT(60), <2>4
    <3> HIDE DEF Shown
    <3>3. \A a \in answers \cup {b} : a.ok => a.scores = Shown(a)
      BY ZenonT(60), <3>1, <3>2
    <3> QED
      BY ZenonT(60), <1>1, <2>2, <3>3 DEF LeaderboardIsCurrent, Result, Shown
  <2> QED
    BY ZenonT(60), <1>7, <2>3, <2>5 DEF StoreInv
<1> QED
  BY ZenonT(60), <1>2, <1>9, <1>10, <1>11 DEF RunTask, Result

\* StoreInv is inductive.
LEMMA StoreStep ==
  ASSUME DownInv, WriterInv, StoreInv, [ShutdownNext]_allVars
  PROVE  StoreInv'
<1>1. /\ dpc # "alive" => main \in {"done", "crashed"}
      /\ stop => dpc # "alive"
      /\ dpc = "joined" => pc = "exited"
  BY ZenonT(60) DEF StoreInv, TasksOK, WriterInv, StopRecorded
<1>2. /\ <<"connect">> \in TaskKind /\ <<"query">> \in TaskKind
      /\ \A r \in Rooms : Result(r) \in TaskKind /\ Result(r) # <<"connect">> /\ Result(r) # <<"query">>
  BY ZenonT(60), JobCases, NamesDiffer
<1>3. CASE StartConnect
  <2>1. Pushes(<<"connect">>) /\ dpc = "alive" /\ late' = late
    BY ZenonT(60), <1>1, <1>3 DEF StartConnect, Enqueue, EnqueuePush, Pushes, storeVars
  <2>2. \A r \in InTime : <<"connect">> # Result(r)
    BY ZenonT(60), <1>2 DEF InTime
  <2> QED
    BY ZenonT(60), <1>2, <2>1, <2>2, PushStore
<1>4. CASE OnLeaderboard
  <2>1. Pushes(<<"query">>) /\ main' = main /\ late' = late
    BY ZenonT(60), <1>4 DEF OnLeaderboard, Enqueue, EnqueuePush, Pushes, storeVars, downVars
  <2>2. \A r \in InTime : <<"query">> # Result(r)
    BY ZenonT(60), <1>2 DEF InTime
  <2> QED
    BY ZenonT(60), <1>2, <2>1, <2>2, PushStore
<1>5. ASSUME NEW r \in Rooms, OnRoomEnd(r) PROVE StoreInv'
  <2>1. Pushes(Result(r)) /\ RunsLobby /\ Head(lobbyQ) = End(r) /\ main' = main /\ late' = late
    BY ZenonT(60), <1>5 DEF OnRoomEnd, Enqueue, EnqueuePush, Pushes, storeVars, Result, End
  <2>2. Occurs(lobbyQ, End(r))
    BY ZenonT(60), <2>1, LobbyRuns
  <2>3. stop => r \notin InTime
    <3>1. stop => ~Untaken /\ PoolGoes
      BY ZenonT(60), <1>1 DEF Untaken, Early, PoolGoes
    <3> QED
      BY ZenonT(60), <2>2, <3>1 DEF DownInv, AfterTake
  <2>4. stop => \A s \in InTime : Result(r) # Result(s)
    BY ZenonT(60), <2>3, NamesDiffer
  <2> QED
    BY ZenonT(60), <1>2, <2>1, <2>4, PushStore
<1>6. CASE RunTask
  BY ZenonT(60), <1>6, RunStore
<1>7. CASE DestroyWriter
  <2>1. Idles
    BY ZenonT(60), <1>1, <1>7 DEF DestroyWriter, DtorStop, Idles, storeVars, downVars
  <2> QED
    BY ZenonT(60), <2>1, IdleStore
<1>8. CASE WriterStep
  <2>1. /\ kind' = kind /\ main' = main /\ written' = written /\ answers' = answers
        /\ late' = late
    BY ZenonT(60), <1>8 DEF WriterStep, storeVars, downVars
  <2>2. /\ pushed' = pushed /\ executed' = executed /\ stop' = stop /\ stopAt' = stopAt
        /\ dpc' # "alive" => dpc # "alive"
        /\ dpc' = "joined" => pc' = "exited"
    BY ZenonT(60), <1>1, <1>8 DEF WriterStep, EnqueueNotify, DtorNotify, DtorJoin, ThreadSleep,
                                  ThreadExit, ThreadSwap, ThreadBatchDone, ThreadWake
  <2>3. Idles
    BY ZenonT(60), <1>1, <2>1, <2>2 DEF Idles
  <2> QED
    BY ZenonT(60), <2>3, IdleStore
<1>9. CASE StartLobby \/ Dtor \/ TakeRooms \/ ResetPool \/ JoinPool \/ UNCHANGED allVars
           \/ \E r \in Rooms : \/ Match(r) \/ StartRoom(r) \/ BattleEnds(r) \/ ResetTicker(r)
                              \/ StopRoom(r) \/ LoopExits(r)
  <2>1. UNCHANGED <<vars, kind, storeVars>>
    BY ZenonT(60), <1>9 DEF StartLobby, Dtor, TakeRooms, ResetPool, JoinPool, allVars, Match,
                            StartRoom, BattleEnds, ResetTicker, StopRoom, LoopExits
  <2>2. main \in {"done", "crashed"} => main' \in {"done", "crashed"}
    <3>1. main \in {"done", "crashed"} => ~TakeRooms /\ ~ResetPool
      <4>1. main \in {"done", "crashed"} => ~Occurs(lobbyQ, Take) /\ ~Occurs(lobbyQ, Final)
        BY ZenonT(60) DEF DownInv, BeforeTake, AfterTake, Untaken, Early, PoolGoes
      <4>2. (TakeRooms => Occurs(lobbyQ, Take)) /\ (ResetPool => Occurs(lobbyQ, Final))
        BY ZenonT(60), LobbyRuns DEF TakeRooms, ResetPool, Take, Final
      <4> QED
        BY ZenonT(60), <4>1, <4>2
    <3>2. CASE TakeRooms \/ ResetPool
      BY ZenonT(60), <3>1, <3>2
    <3>3. CASE StartLobby \/ Dtor \/ JoinPool \/ UNCHANGED allVars
      BY ZenonT(60), <3>3 DEF StartLobby, Dtor, JoinPool, allVars, downVars
    <3>4. ASSUME NEW r \in Rooms, \/ Match(r) \/ StartRoom(r) \/ BattleEnds(r) \/ ResetTicker(r)
                                  \/ StopRoom(r) \/ LoopExits(r)
          PROVE  main' = main \/ main' = "crashed"
      BY ZenonT(60), <3>4 DEF Match, StartRoom, BattleEnds, ResetTicker, StopRoom, LoopExits
    <3> QED
      BY ZenonT(60), <1>9, <3>2, <3>3, <3>4
  <2>3. late \subseteq late'
    <3>1. ASSUME NEW r \in Rooms, Match(r) PROVE late \subseteq late'
      BY ZenonT(60), <3>1 DEF Match
    <3> QED
      BY ZenonT(60), <1>9, <3>1 DEF StartLobby, Dtor, TakeRooms, ResetPool, JoinPool, allVars,
                     downVars, StartRoom, BattleEnds, ResetTicker, StopRoom, LoopExits
  <2>4. Idles
    BY ZenonT(60), <1>1, <2>1, <2>2, <2>3 DEF Idles, vars, storeVars
  <2> QED
    BY ZenonT(60), <2>4, IdleStore
<1> QED
  BY ZenonT(60), <1>3, <1>4, <1>5, <1>6, <1>7, <1>8, <1>9 DEF ShutdownNext

\* The invariant of the tasks and the stores holds in every reachable state.
THEOREM StoreInvHolds == ShutdownSpec => []StoreInv
<1>1. ShutdownInit => StoreInv
  <2> SUFFICES ASSUME ShutdownInit PROVE StoreInv
    OBVIOUS
  <2>1. TasksOK
    BY SMTT(60) DEF ShutdownInit, Init, TasksOK
  <2>2. ScoresOK /\ LeaderboardIsCurrent
    BY ZenonT(60) DEF ShutdownInit, ScoresOK, LeaderboardIsCurrent
  <2> QED
    BY ZenonT(60), <2>1, <2>2 DEF StoreInv
<1>2. DownInv /\ WriterInv /\ StoreInv /\ [ShutdownNext]_allVars => StoreInv'
  BY StoreStep
<1> QED
  BY <1>1, <1>2, DownInvHolds, ShutdownUsesWriter, WriterInvHolds, PTL DEF ShutdownSpec

\* The result of every battle that ended, be it while the rooms were being
\* stopped, and whose room was there in time, has been handed to the stores when the writer is destroyed: its
\* onRoomEnd was not left on the lobby, so it is a task pushed before stop_, and
\* the thread left only after those.
THEOREM ResultsSurviveShutdownHolds == ShutdownSpec => []ResultsSurviveShutdown
<1>1. DownInv /\ WriterInv /\ StoreInv => ResultsSurviveShutdown
  <2> SUFFICES ASSUME DownInv, WriterInv, StoreInv, dpc = "joined",
                      NEW r \in Rooms \ late, battle[r] = "ended"
               PROVE  \E i \in DOMAIN executed : kind[executed[i]] = Result(r)
    BY ZenonT(60) DEF ResultsSurviveShutdown, Result
  <2>1. main \in {"done", "crashed"} /\ pc = "exited" /\ stop /\ r \in InTime
    BY ZenonT(60) DEF StoreInv, TasksOK, WriterInv, StopRecorded, InTime
  <2>2. ~Occurs(lobbyQ, End(r))
    BY ZenonT(60), <2>1 DEF DownInv, AfterTake, Untaken, Early, PoolGoes
  <2>3. PICK n \in DOMAIN kind : kind[n] = Result(r)
    BY ZenonT(60), <2>2 DEF DownInv, Settled, Occurs
  <2>4. n <= stopAt /\ stopAt <= Len(executed)
    BY ZenonT(60), <2>1, <2>3 DEF StoreInv, TasksOK, WriterInv, ExitedFlushed
  <2>5. n \in 1..Len(executed)
    <3>1. kind \in Seq(TaskKind) /\ Len(executed) \in Nat /\ stopAt \in -1..MaxTasks
      BY ZenonT(60), RanPrefix DEF DownInv, DownType, WriterInv, TypeOK
    <3> QED
      BY SMTT(60), <2>4, <3>1, MaxTasksAssumption
  <2>6. n \in DOMAIN executed /\ executed[n] = n
    BY ZenonT(60), <2>5, RanPrefix
  <2> QED
    BY ZenonT(60), <2>3, <2>6
<1> QED
  BY <1>1, DownInvHolds, StoreInvHolds, ShutdownUsesWriter, WriterInvHolds, PTL

\* A leaderboard shows exactly the results enqueued before it was asked for, as
\* far as Redis took them.
THEOREM LeaderboardIsCurrentHolds == ShutdownSpec => []LeaderboardIsCurrent
<1>1. StoreInv => LeaderboardIsCurrent
  BY ZenonT(60) DEF StoreInv
<1> QED
  BY <1>1, StoreInvHolds, PTL

\* The writer of the whole server, too, implements the FIFO with flush.
THEOREM ShutdownImplementsWriteQueue == ShutdownSpec => ImplementsWriteQueue
  BY ShutdownUsesWriter, ImplementsWriteQueueHolds, PTL
=============================================================================
