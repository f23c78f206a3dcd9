------------------------------ MODULE Shutdown ------------------------------
(***************************************************************************)
(* The end of the server: players matched and battles that end while       *)
(* ~GameServer stops the rooms, and the results that the storage thread of *)
(* AsyncWriter writes to MySQL and Redis until the writer is destroyed.    *)
(*                                                                         *)
(* Three kinds of thread meet here: main, which starts the server and runs *)
(* the destructors; the lobby, a FIFO of functors; and a game loop per     *)
(* room, a FIFO of functors between which the ticker fires.  The storage   *)
(* thread runs the tasks of AsyncWriter, whose n-th has the kind kind[n].  *)
(*                                                                         *)
(* Every statement sent to MySQL or Redis may fail, by itself.  Players    *)
(* keep their sessions, so a battle that ends has a result (GameServer     *)
(* says when it has none).  The IO threads serve until the process is      *)
(* gone, so a pair may be matched at any time: before the rooms are taken, *)
(* while they are stopped, and when the pool of the game loops is gone.    *)
(* What happens once the writer has been joined is not followed.           *)
(***************************************************************************)
EXTENDS AsyncWriter, FiniteSets

CONSTANTS Rooms,       \* the rooms that pairs are given, each with a game loop
          MaxQueries,  \* bound: the leaderboard queries
          MaxFailures  \* bound: the statements that fail

ASSUME ShutdownAssumption ==
  /\ {"main", "lobby", "io"} \subseteq Producers
  /\ IsFiniteSet(Rooms)
  /\ MaxTasks >= 1 + Cardinality(Rooms) + MaxQueries
  /\ MaxFailures \in Nat

VARIABLES
  kind,     \* the kinds of the tasks enqueued
  main,     \* how far main is, and the lobby that takes down the rooms for it;
            \* or that the process has crashed
  lobbyQ,   \* the functors pending on the lobby
  rooms,    \* the keys of rooms_
  remain,   \* the counter that the stops of the rooms share
  gameQ,    \* the functors pending on a room's game loop
  looping,  \* the rooms whose game loop runs
  battle,   \* the battle of a room: none, made, running, ended, or stopped
  ticker,   \* the rooms whose ticker_ is set
  late,     \* the rooms made after rooms_ was taken
  ready,    \* storageReady_
  written,  \* statements that succeeded
  failed,   \* statements that failed
  answers   \* leaderboards sent, with the task that did

downVars  == <<main, lobbyQ, rooms, remain, gameQ, looping, battle, ticker, late>>
storeVars == <<ready, written, failed, answers>>
allVars   == <<vars, kind, downVars, storeVars>>

Statements == {"wins", "losses", "score"}

ShutdownInit ==
  /\ Init
  /\ kind = <<>> /\ main = "start"
  /\ lobbyQ = <<>> /\ rooms = {} /\ remain = 0
  /\ gameQ = [r \in Rooms |-> <<>>] /\ looping = Rooms
  /\ battle = [r \in Rooms |-> "none"] /\ ticker = {} /\ late = {}
  /\ ready = FALSE /\ written = {} /\ failed = {} /\ answers = {}

\* writer_->enqueue by thread x; the notify is a step of its own.
Enqueue(x, k) == EnqueuePush(x) /\ kind' = Append(kind, k)

-----------------------------------------------------------------------------
(* The main thread: start(), and the destructors in their order.           *)

\* start(): connecting to the stores is the first task.
StartConnect ==
  /\ main = "start"
  /\ Enqueue("main", <<"connect">>)
  /\ main' = "started"
  /\ UNCHANGED <<lobbyQ, rooms, remain, gameQ, looping, battle, ticker, late,
                 storeVars>>

\* The lobby is started when enqueue has returned.
StartLobby ==
  /\ main = "started" /\ ppc["main"] = "idle"
  /\ main' = "up"
  /\ UNCHANGED <<vars, kind, lobbyQ, rooms, remain, gameQ, looping, battle, ticker,
                 late, storeVars>>

\* A signal ends the main loop: ~GameServer asks the lobby to take down the rooms.
Dtor ==
  /\ main = "up"
  /\ main' = "waiting"
  /\ lobbyQ' = Append(lobbyQ, <<"take">>)
  /\ UNCHANGED <<vars, kind, rooms, remain, gameQ, looping, battle, ticker,
                 late, storeVars>>

\* Its wait is over; the members go, writer_ first.
DestroyWriter ==
  /\ main = "done"
  /\ DtorStop
  /\ UNCHANGED <<kind, downVars, storeVars>>

-----------------------------------------------------------------------------
(* The lobby.                                                              *)

\* It is neither inside enqueue nor joining the loops.
LobbyFree ==
  /\ ppc["lobby"] = "idle"
  /\ main \notin {"start", "started", "joining", "crashed"} /\ dpc # "joined"

\* onMatch and tryMatch for a pair: the next game loop is asked for and told to
\* start the room.  Once the pool is gone gamePool_ is null, and the process crashes.
Match(r) ==
  /\ LobbyFree
  /\ battle[r] = "none"
  /\ IF main = "done"
       THEN main' = "crashed" /\ UNCHANGED <<rooms, gameQ, battle, late>>
       ELSE /\ rooms' = rooms \cup {r}
            /\ battle' = [battle EXCEPT ![r] = "made"]
            /\ gameQ' = [gameQ EXCEPT ![r] = Append(@, "start")]
            /\ late' = IF main = "stopping" THEN late \cup {r} ELSE late
            /\ UNCHANGED main
  /\ UNCHANGED <<vars, kind, lobbyQ, remain, looping, ticker, storeVars>>

RunsLobby ==
  /\ lobbyQ # <<>> /\ LobbyFree
  /\ lobbyQ' = Tail(lobbyQ)

\* onRoomEnd: the room goes, its result is enqueued.
OnRoomEnd(r) ==
  /\ RunsLobby /\ Head(lobbyQ) = <<"onRoomEnd", r>>
  /\ rooms' = rooms \ {r}
  /\ Enqueue("lobby", <<"result", r>>)
  /\ UNCHANGED <<main, remain, gameQ, looping, battle, ticker, late, storeVars>>

\* The functor of ~GameServer: every room it takes is to be stopped on its own
\* loop; without rooms the pool goes at once.
TakeRooms ==
  /\ RunsLobby /\ Head(lobbyQ) = <<"take">>
  /\ rooms' = {} /\ remain' = Cardinality(rooms)
  /\ gameQ' = [r \in Rooms |-> IF r \in rooms THEN Append(gameQ[r], "stop") ELSE gameQ[r]]
  /\ main' = IF rooms = {} THEN "joining" ELSE "stopping"
  /\ UNCHANGED <<vars, kind, looping, battle, ticker, late, storeVars>>

\* The last stop's functor: gamePool_.reset(), which asks the loops to quit...
ResetPool ==
  /\ RunsLobby /\ Head(lobbyQ) = <<"final">>
  /\ main' = "joining"
  /\ UNCHANGED <<vars, kind, rooms, remain, gameQ, looping, battle, ticker,
                 late, storeVars>>

\* ... and joins them; then main is let go.
JoinPool ==
  /\ main = "joining" /\ looping = {}
  /\ main' = "done"
  /\ UNCHANGED <<vars, kind, lobbyQ, rooms, remain, gameQ, looping, battle, ticker,
                 late, storeVars>>

-----------------------------------------------------------------------------
(* The game loops.                                                         *)

\* endBattle: a tick finds a winner, or the room is told to end.
BattleEnds(r) ==
  /\ r \in looping \cap ticker /\ battle[r] = "running"
  /\ battle' = [battle EXCEPT ![r] = "ended"]
  /\ gameQ' = [gameQ EXCEPT ![r] = Append(@, "reset")]
  /\ lobbyQ' = Append(lobbyQ, <<"onRoomEnd", r>>)
  /\ UNCHANGED <<vars, kind, main, rooms, remain, looping, ticker, late,
                 storeVars>>

RunsGame(r) ==
  /\ r \in looping /\ gameQ[r] # <<>>
  /\ gameQ' = [gameQ EXCEPT ![r] = Tail(@)]

\* The functor of tryMatch: start() sets the ticker.
StartRoom(r) ==
  /\ RunsGame(r) /\ Head(gameQ[r]) = "start"
  /\ battle' = [battle EXCEPT ![r] = "running"]
  /\ ticker' = ticker \cup {r}
  /\ UNCHANGED <<vars, kind, main, lobbyQ, rooms, remain, looping, late, storeVars>>

\* The functor that endBattle queued.
ResetTicker(r) ==
  /\ RunsGame(r) /\ Head(gameQ[r]) = "reset"
  /\ ticker' = ticker \ {r}
  /\ UNCHANGED <<vars, kind, main, lobbyQ, rooms, remain, looping, battle, late,
                 storeVars>>

\* Mutants: the last functor overtakes the lobby's others; the first stop is
\* taken for the last.
FinishedFirst == IF remain = 1 THEN <<<<"final">>>> \o lobbyQ ELSE lobbyQ
FinishedAny   == IF remain = Cardinality(Rooms) THEN Append(lobbyQ, <<"final">>) ELSE lobbyQ

\* finishOne: the last of the stops goes back to the lobby.
Finished == IF remain = 1 THEN Append(lobbyQ, <<"final">>) ELSE lobbyQ

\* The functor of TakeRooms: stop(), finishOne().
StopRoom(r) ==
  /\ RunsGame(r) /\ Head(gameQ[r]) = "stop"
  /\ battle' = [battle EXCEPT ![r] = IF @ = "running" THEN "stopped" ELSE @]
  /\ ticker' = ticker \ {r}
  /\ lobbyQ' = Finished
  /\ remain' = remain - 1
  /\ UNCHANGED <<vars, kind, main, rooms, looping, late, storeVars>>

\* A loop that was asked to quit leaves; functors that it did not run go with it
\* and with them, if rooms_ has none, the last reference to the room, and its
\* ticker.
LoopExits(r) ==
  /\ main = "joining" /\ r \in looping
  /\ looping' = looping \ {r}
  /\ ticker' = IF gameQ[r] = <<>> \/ r \in rooms THEN ticker ELSE ticker \ {r}
  /\ gameQ' = [gameQ EXCEPT ![r] = <<>>]
  /\ UNCHANGED <<vars, kind, main, lobbyQ, rooms, remain, battle, late,
                 storeVars>>

-----------------------------------------------------------------------------
(* The stores.                                                             *)

\* An IO thread puts a leaderboard query straight into the queue.
OnLeaderboard ==
  /\ main \notin {"start", "started", "crashed"}
  /\ Cardinality({n \in DOMAIN kind : kind[n] = <<"query">>}) < MaxQueries
  /\ Enqueue("io", <<"query">>)
  /\ UNCHANGED <<downVars, storeVars>>

\* connect, ping and ensureSchema, which must all succeed.
RunConnect ==
  /\ ready' \in BOOLEAN
  /\ UNCHANGED <<written, failed, answers>>

\* A result when the statements of ok succeed: recordResult runs its second
\* statement, and the task goes on to zincrby, whatever came of the one before.
RunResult(r, ok) ==
  /\ written' = IF ready THEN written \cup ({r} \X ok) ELSE written
  /\ failed' = IF ready THEN failed \cup ({r} \X (Statements \ ok)) ELSE failed
  /\ UNCHANGED <<ready, answers>>

\* ztopN, or an empty list without storage or after an error.
RunQuery(n, ok) ==
  /\ answers' = answers \cup
       {[task |-> n, ok |-> ok /\ ready,
         scores |-> IF ok /\ ready THEN {r \in Rooms : <<r, "score">> \in written} ELSE {}]}
  /\ UNCHANGED <<ready, written, failed>>

\* The storage thread runs the next task of its batch.
RunTask ==
  LET n == Head(batch)
  IN  /\ ThreadRun /\ main # "crashed"
      /\ \/ kind[n] = <<"connect">> /\ RunConnect
         \/ \E r \in Rooms, ok \in SUBSET Statements :
              /\ kind[n] = <<"result", r>>
              /\ Cardinality(failed \cup ({r} \X (Statements \ ok))) <= MaxFailures
              /\ RunResult(r, ok)
         \/ \E ok \in BOOLEAN : kind[n] = <<"query">> /\ RunQuery(n, ok)
      /\ UNCHANGED <<kind, downVars>>

\* The other steps of the writer.
WriterStep ==
  /\ main # "crashed"
  /\ \/ \E x \in Producers : EnqueueNotify(x)
     \/ DtorNotify \/ DtorJoin
     \/ ThreadSleep \/ ThreadExit \/ ThreadSwap \/ ThreadBatchDone \/ ThreadWake
  /\ UNCHANGED <<kind, downVars, storeVars>>

-----------------------------------------------------------------------------

ShutdownNext ==
  \/ StartConnect \/ StartLobby \/ Dtor \/ DestroyWriter
  \/ TakeRooms \/ ResetPool \/ JoinPool
  \/ \E r \in Rooms : \/ Match(r) \/ OnRoomEnd(r)
                      \/ StartRoom(r) \/ BattleEnds(r) \/ ResetTicker(r)
                      \/ StopRoom(r) \/ LoopExits(r)
  \/ OnLeaderboard \/ RunTask \/ WriterStep

ShutdownSpec == ShutdownInit /\ [][ShutdownNext]_allVars

\* The threads are scheduled; nobody need match, end a battle, ask or send a signal.
\* Those of a process that has crashed are not: that a task runs eventually is
\* claimed of the runs in which no crash comes first.
ShutdownFairness ==
  /\ Fairness
  /\ WF_lobbyQ(RunsLobby)
  /\ \A r \in Rooms : WF_gameQ(RunsGame(r))
  /\ \A r \in Rooms : WF_looping(main = "joining" /\ r \in looping /\ looping' = looping \ {r})
  /\ WF_main(main = "joining" /\ looping = {} /\ main' = "done")
  /\ WF_dpc(main = "done" /\ dpc = "alive" /\ dpc' = "notify")

FairShutdownSpec == ShutdownSpec /\ ShutdownFairness

-----------------------------------------------------------------------------

\* "graceful exit goes with writing asynchronously": once the process has run
\* its destructors, the result of every battle that ended, be it while the
\* rooms were being stopped, has been handed to the stores, unless its room was
\* made when the others were already being stopped.
ResultsSurviveShutdown ==
  dpc = "joined" =>
    \A r \in Rooms \ late : battle[r] = "ended" =>
      \E i \in DOMAIN executed : kind[executed[i]] = <<"result", r>>

\* A leaderboard shows the results enqueued before it was asked for, as far as
\* Redis took them, and none enqueued later.
LeaderboardIsCurrent ==
  \A a \in answers : a.ok =>
    a.scores = {r \in Rooms : /\ <<r, "score">> \in written
                              /\ \E n \in 1..a.task : kind[n] = <<"result", r>>}

\* When the destructor of the server goes on, no game loop is left, and of every
\* room that it took and every one before: the battle has ended or was stopped,
\* the ticker has not outlived its loop, and no onRoomEnd waits on the lobby.
TakenIsDown ==
  main = "done" =>
    /\ looping = {}
    /\ \A r \in Rooms \ late :
         /\ r \notin ticker \cup rooms
         /\ battle[r] \in {"none", "ended", "stopped"}
         /\ \A i \in DOMAIN lobbyQ : lobbyQ[i] # <<"onRoomEnd", r>>

\* "Every timer must be destroyed on the thread of its own loop; each room stops
\* its ticker on its game loop; when all is done the pool of the game threads is
\* closed": then no ticker is left and no battle runs.  The code does not keep
\* this: a pair matched after rooms_ was taken has a room that nobody stops.
DoneIsDown ==
  main = "done" => ticker = {} /\ \A r \in Rooms : battle[r] # "running"

\* A server that is told to stop stops, its writer flushed and joined, unless a pair
\* is matched when the pool is gone.
ShutdownCompletes == (main = "waiting") ~> (dpc = "joined" \/ main = "crashed")
=============================================================================
