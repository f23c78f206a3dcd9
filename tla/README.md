# A TLA+ model of the game server

This directory holds TLA+ modules for the game server in `src/` (C++) and the
part of the Unity client (`src/client`, C#) that its correctness depends on,
TLC configurations that check them on small instances, and proofs that TLAPS
checks for every size. `PROJECT.json` maps every definition to the lines it
models and lists runs, mutants, findings, hazards and theorems.

## The system

| Part | Source | Model |
|---|---|---|
| Lobby: sessions, matching, room routing, timers, on one thread | `game/GameServer.*`, `Session.h` | `GameServer` |
| Match queue with lazy removal | `game/MatchQueue.h` | `MatchQueue`, `MatchQueueSpec` |
| Rooms, one game loop each | `game/Room.*` | `GameServer` (life cycle), `Battle` (ticks, snapshots) |
| Battle simulation, 20 Hz | `game/BattleSim.*` | `Battle` |
| Client's snapshot interpolator (`Push`) | `Game/SnapshotInterpolator.cs` | `Battle` |
| Two-level timing wheel | `timer/TimerWheel.*` | `TimerWheel`, abstractly `Timers` |
| Event loop, its thread, wakeup and quit | `net/EventLoop.*`, `EventLoopThread.*` | `EventLoop` |
| Asynchronous storage writer | `storage/AsyncWriter.*` | `AsyncWriter`, abstractly `WriteQueue` |
| Connections: `TcpConnection`, `TcpServer`, `Channel`, `EPollPoller` | `net/` | `Connection`, `Channel` |
| Framing on both sides: `Buffer`, `ProtobufCodec`, `FrameParser` | `net/`, `proto/`, `Net/ProtoCodec.cs` | `Buffer`, `Framing` |
| Client session, network thread, bot | `Game/GameSession.cs`, `Net/NetworkClient.cs`, `Client/GameClient.cs`, `examples/bot_client.cc` | `Client`, composed with `GameServer` |
| Heartbeat sweep | `game/GameServer.cc` | `Client` (`Kick`) |
| Start and shutdown of the server, writes of results, leaderboard | `game/GameServer.*`, `Room::stop`, `storage/` | `Shutdown`, composed with `AsyncWriter` |
| `PeriodicTimer`, thread pool, `Acceptor`, `Dispatcher`, sockets, load generator, Unity views | | not modelled |

Connections live on IO loops. Every message is parsed there and handed to the
lobby's loop, which alone owns sessions, match queue, rooms table and timing
wheel. A room lives on one game loop; the lobby posts functors to it and it
posts `onRoomEnd` back. Results and online keys go to the storage thread.

## Modules

**MatchQueue** has no variables: a queue is a record `[order, waiting]`, and
each method is an operator. `MatchQueueSpec` calls the methods in any order
and remembers who of the waiting was pushed before whom; `GameServer` uses the
same operators.

**GameServer** is the lobby with its rooms. Handlers of the lobby run to
completion on one thread, so each is one action; `tryMatch` is part of
`OnMatch`, and the storage writes a handler enqueues are part of its action
(`online`, `records`). What is posted to a room is a FIFO `roomQ[r]` (that the
event loop is a FIFO is `RunInOrder` of `EventLoop`), run by `RoomFunctor`. The
room's end is the set `endPosted`, from which `OnRoomEnd` takes rooms at any
later time. Both one-shot timers of the lobby are 30 s timers, so time is
abstracted to their order: the oldest pending timer may fire at any time
(`EqualDelaysInOrder` of `TimerWheel` is what this rests on). Assumed: at least
one game thread, nonempty account names, and a client that sends one login or
reconnect, first, on each connection, as `GameSession.TransportConnected` does.
Whether the token of a reconnect is right is a free choice.

**Battle** is one room's ticks with the simulation and the client's view. In a
tick a player who wants to move may or may not, and a projectile that was in
flight may hit, leave the arena, or fly on until its range is used up; a
position is represented by the tick at which it last changed, a projectile's
by how far it has flown. (Of two players on the same spot, a shot does not fly;
it hits at the next tick, since a player moves less per tick than the radius of
a hit.) That a range is used up at all takes a direction of finite numbers, which
is assumed of the clients (`InputsAssumption`): the code shortens a direction that
is too long and checks nothing else. The snapshots on a client's connection are a
FIFO that a lost connection empties.

**TimerWheel** splits `advance` at the callbacks, because callbacks add and
cancel timers, and takes the nodes of a cascade one by one, as its loop does.
Delays may be within the range of L1 or beyond it; a delay beyond it is cut as
`place` cuts it. **EventLoop** and **AsyncWriter** split at critical sections and
system calls. `EventLoop` models the eventfd with its edge-triggered readiness;
`AsyncWriter` the condition variable, spurious wakeups included.

**Connection** is one connection from the kernel to the frames. The handlers of
`TcpConnection` run on the IO loop alone and call each other, so they are
functions on a record (the connection with its socket), and an action is one
event or functor of the loop. What other threads do is split at their accesses
to `state_`: `send()` tests it and queues, `shutdown()` tests it, writes it and
queues. `Channel` has the registration states of `EPollPoller` and the
readiness of an edge-triggered descriptor, `Buffer` the vector with its two
indexes, `Framing` the parsers of server and client over the digits of any base.
The client's bytes arrive cut anywhere; the socket takes `SndBuf` bytes and then
writes fall short; the client may close or reset at any time. A write on a
socket that is shut down or reset fails with an error, as the code expects (the
process does not ignore `SIGPIPE`, which is listed as a hazard).

**Client** composes `GameServer` with Unity clients and bots. A connection is a
FIFO of requests one way and of events the other; what `GameServer` only
decides, `Client` also sends: each action of the server is the one of
`GameServer` together with the messages of that handler or room functor. The
client's actions are those of `GameSession`, driven by `Pump`. The event queue
is shared by all connections of a client, as in `NetworkClient`. A request is
lost if the client's end is closed, a broken connection loses any suffix of
what was under way in each direction, a shutdown of the server reaches the
client behind what was sent. `Kick` stands for the heartbeat sweep.

**Shutdown** composes `AsyncWriter` with `~GameServer`, the rooms on their game
loops, and what the tasks do: connecting to the stores, three statements per
result that fail independently, leaderboard queries. Pairs are matched all
along, since IO loops and lobby serve until the process is gone: a room made
after the lobby has taken the rooms is in `late`, and a match that finds the
pool gone crashes the process (`main = "crashed"`). Every room has a loop of
its own; rooms that share one only have fewer interleavings. Players keep their
sessions here, so that every battle that ends has a result. What happens once
the writer has been joined is not followed.

The `MC…` modules only give definitions that configurations need. `MCLobby`
puts three parts of the lobby thread that share no state side by side, its
event loop, its wheel and its match queue: a behaviour is about one of them.

## What the runs show

| Run | Instance | Shows |
|---|---|---|
| `lobby_parts` | queue: 3 players, `order_` up to 5; wheel: 3 slots per level, 2 timers, 12 ticks; loop: 2 producers, 3 functors | queue: nobody lost or paired twice, only a player who left and came back overtakes; wheel: exact timers within the range of L1, equal delays fire in the order they were added; loop: order, every functor runs without the poll timeout, quit touches a live loop and ends a running one |
| `lobby_duel` | 2 players, 4 connections, 2 accounts, 1 room, 4 timers | binding, expiry, queue, routing, room connections, winners, ends, ticker and records stay consistent |
| `client` | a Unity client and a bot with two connections each, 2 match requests, 1 fault | client and lobby agree on the session when nothing is under way; logins, waits, absences and forfeits come to an end |
| `connection` | 2 threads with a call each, frames of up to 4 bytes, a buffer of 3, a socket that takes 2 | bytes and frames stay in order and whole on both sides, both parsers cut the same frames up to the first illegal length, output is flushed before the end, a close is reported and cleaned up |
| `battle` | 2 players, one followed client, 4 ticks | the client's view is exact once it has read its connection; projectiles in flight stay within bounds if directions are finite, and each is shown before it is removed |
| `shutdown` | 2 rooms, 4 tasks of 3 producers, 1 query, 1 failing statement | of the rooms that were taken no result is lost and nothing is left, the server goes down and waits for nobody forever; the writer implements a FIFO with flush, and every task runs |

Bounds. Four connections let both players of a battle leave and come back
once; four timers let two waits and two absences overlap. More
players and rooms (one waiting while others play) are covered by the proofs. A
wheel of 3 slots has a range of 9 ticks, so 12 ticks cross L0 laps, cascades and
a whole lap of L1, and a delay of 20 ticks is cut; ticks of 2 ms make rounding
and remainders happen, though no property speaks of the remainder. With 3 hit points and 2 per hit the clamp at 0
is met, and with a range of 2 ticks shots expire and hit within 4. A player of
`battle` is idle until its first input and moves and attacks from then on. Symmetry is
used for connections and accounts, only in a run
without liveness. In `client` the clients have connections of their own, so
that two of each allow one loss and one return; a fault is a failed or broken
connection, a drop by the bot or a kick. In `connection` a byte has 8 values, a
length two bytes and an id one, so that frames of the greatest length, of an
id alone, with a length shorter than the id and with the top bit of the length
set all occur, the illegal ones followed by more bytes, and a buffer of 3
both moves its bytes and grows; a socket that takes 2 bytes cuts every frame.
In `shutdown` two rooms make the count of stops matter, and either may be made
and end its battle before, during or after the stops are asked for. Deadlock is
not checked where the bounds let the system stop.

Six runs expect a violation; each finding quotes the line it contradicts:

* `client_battle`: a client that lost its connection in a battle shows the
  battle again when it is back, also if it ended meanwhile. The session is then
  in the lobby, and nothing more is sent.
* `lobby_recorded`: a battle won by forfeit is not stored, since the loser's
  session is erased before `onRoomEnd` looks for its account.
* `battle_knockout`: if both players fall in one tick the battle never ends.
* `event_loop_quit`: `loop()` clears a `quit()` that came before it.
* `timer_wheel_far`: a timer of 4096 ticks or more fires at the end of L1's
  range, since `place` overwrites the expiry by which the cascade should place it
  again. (No delay of the server is that long.)
* `shutdown_late`: a pair matched after the lobby has taken the rooms has a room
  that nobody stops; its battle runs and its ticker is set when its loop is gone.

Behaviours met while modelling that no run refutes are kept as hazards: a match
timer left over after a disconnect may end a later wait early, the online key
of an account with several sessions is cleared by the first that leaves, a
match request sent right after `BattleEnd` may be ignored, a kick is only a
half close. Behind an illegal length the two parsers differ: the client's takes
no more, the server's drops what it has buffered and, since it reads on after its
half close, cuts what arrives later at an arbitrary place. `FramesExact` compares
them up to and including that length only.

One disagreement with a comment is built into a property that holds, because the
server does not meet it: the queue alone is not FIFO for a player who leaves and
comes back (`OvertakenOnlyByRejoiners`; the lobby pairs after every push).

Fairness. `Client`: the lobby takes what is posted to it, the wheel advances,
rooms run their functors and clients read; nobody need connect, ask or break,
and no tick need decide a battle. `Connection`: the loops run, and a call that
began goes on; the client need neither read nor close. `Shutdown`, `EventLoop`,
`AsyncWriter`: threads are scheduled (in `Shutdown` as long as the process has not
crashed). The poll timeout is not assumed to help,
nor a spurious wakeup, and destructors need not be called. Where actions are
large, fairness is stated on the part of the step by which it is known (the
request taken, the functor run), which only that action does.

Every property of a passing run has a mutant in `PROJECT.json`: a changed
definition, kept in the module next to the original, under which TLC finds the
property violated.

## What is proved

`QueueLemmas` holds the facts on sequences that several proofs use.
`MatchQueueProofs` first states what each operation of the queue returns and keeps
(that `Compact` drops only entries of players who do not wait, that `PopPair`
returns two different waiting players, and so on), for any queue. The
minimum of a set of positions comes from the well-foundedness of `<` on the
naturals. It uses them for `WaitingIsQueued` and
`PopTakesTwoWaiting`; `WaitingIsQueued` with the type of the queue is inductive.
`OvertakenOnlyByRejoiners` is proved from `PlaceInv`: of two waiting players the
one pushed first has its entry in front, unless an entry left behind by an
earlier removal lets the other one through, and then it has been removed before.

`GameServerProofs` proves `LobbyInv`, from which `TypeOK`, `BindingOneToOne`,
`QueueMatchesState`, `InRoomIsRouted` and `ExpiryExact` follow, for any number
of connections, accounts, players, rooms and timers. None of these is
inductive alone. That a disconnect finds its session needs the binding; that
`tryMatch` finds both sessions, and gives the room connections that are not
null, needs queue and states to agree; that a session's expiry is the only one
needs fresh timer ids (`IdsBelowNext`), and that withdrawing a match timer
withdraws no expiry needs every id in `matchTimer_` to be that player's own or
out of date (`TimersOwned`). `SessionsClean` ties up sessions that are gone and
connections that have not spoken. There is one lemma per handler and, in it,
one step per conjunct; steps of rooms only touch types (`RoomStep`). The
assumptions are the named ones of `GameServer`: bounds are natural numbers, and
the null connection and null account are not members of the sets.
`OnlineUnlessShared` is proved on top of `LobbyInv`, with one more fact
(`OnlineInv`): a player id that is still to be given out has no account.

`RoomProofs` goes on from there to what the lobby and the rooms' threads promise
each other: `RoomBindingConverges`, `EndReportedOnce`, `FreedRoomHasNoTicker` and
`RecordsAreTrue`, for as many rooms and players as there are. The two sides see
each other's state late, so the invariant `RoomInv` speaks of what is on the way.
For each room it says what its FIFO will do once it has run: which connection
it leaves each player with, that the first forfeit in it names one of the two
players (a second one may name nobody, since `expireSession` passes 0 if the
opponent's session is gone too), that `start` is ahead of everything else, and
that a ticker which outlives its battle has its release queued.

`ShutdownProofs` first proves `NothingLost`, `NoLostWakeup` and the refinement of
`WriteQueue` for the writer alone, for any producers and any number of tasks, from
`WriterInv`. It adds to the two that the storage thread holds tasks only while it
runs a batch, so that the swap meets an empty buffer; that `stop_` and the
destructor's progress agree; and that the thread leaves only when everything
pushed before `stop_` has run, which is what the abstract `Close` asks for. Then it
takes up the whole server. `DownInv` follows `~GameServer`: before
the lobby has taken the rooms nothing is stopped and no room is late; after, every
battle of a room that was taken has a stop to come if it may still run, the counter
counts those stops, and the last functor is behind the ends of all these battles;
throughout, an ended battle is either on the lobby's FIFO or has its result
enqueued, never both. Rooms made later are only kept apart: `late` names them, and
nothing of theirs is counted. `TakenIsDown` follows.
`ShutdownUsesWriter` shows that every step of the server is a step of the writer
or leaves it alone, so that `WriterInv` and the refinement carry over
(`ShutdownImplementsWriteQueue`). On top of both, `StoreInv` ties what the
statements wrote to the tasks that ran, which gives `ResultsSurviveShutdown` and
`LeaderboardIsCurrent`, whichever statements fail; the first speaks of rooms that
are not late. Assumed is that there are
finitely many rooms, since the lobby counts their stops.

`BattleProofs` proves `ViewIsExact`, `TombstonesAreKnown` and
`ShotsInFlightBounded` for any damage, hit points, cooldown, range and length of
a battle. `BattleInv` has three parts. Ids are given out once, and a
projectile's age is below the range (which is what `Spent` says, and where finite
directions come in). Two projectiles of one player are at least a cooldown
apart, so that the range holds no more than the bound (by an injection into an interval).
And for each connected client, the snapshots under way are a chain: the first is a
full one or continues what the client has, each further one continues the one
before, and the last word about a player or a projectile is the room's state. A delta
carries only what changed since the last tick, so no part of this is
inductive by itself: a lost connection empties the chain, and only the full snapshot
that the next tick sends to a new connection starts it again.

`LoopProofs` proves `RunInOrder`, `NoLostWakeup` and
`QuitTouchesLiveLoop` from `LoopInv`. `NoLostWakeup` speaks of `epoll_wait` only;
its strengthening `WakeupDue` says the same of every point of the loop except
the way from `epoll_wait` to the swap. It shares `QueueLemmas` with the others: a push
appends to the history of pushes, and running the head of a batch leaves it as
it is. Its only assumption is that the bound on tasks is a natural number.
The runs check the consequences of the two `NoLostWakeup` and of `NothingLost`
(`EveryTaskRuns`, `PostedRuns`, `ImplementsWriteQueue`) and leave these to the
proofs.

The second half of `LoopProofs` is the timing wheel, for any number of slots per
level (at least two), any length of a tick and any delays. `WheelInv` says where a
timer may lie: in the L0 slot of its tick if that is less than a lap away; in the
L1 slot of its lap if that lap is still to come, and then at most as many laps
ahead as there are slots, so that the slot which is cascaded holds exactly the
timers of the lap that begins; or in what is left of the slot being cascaded or
fired. Every timer that is alive lies in one of these places. A tick's slot is met
by no other tick of the same lap (`SameSlot`, from quotient and remainder), so what
is fired is due, and nothing due is left behind: this is the refinement of
`Timers`. For the order, timers of equal delay and tick (twins) lie in the order in
which they were added, also across L0 and the rest of the cascade: they begin on
the same level, since only the delay decides, and one cascade takes them both. The
invariant speaks of the tick a timer is placed by, which is the one it was asked
for when its delay is within the range of L1; the refinement is about these timers,
and `EqualDelaysInOrder` about all.

## What is only model-checked

Liveness, since TLAPS does not handle fairness. What `Connection` says: what the
loops of its parsers compute takes inductions over the bytes that arrive, on top of
an invariant over handlers, functors and socket, and is not proved yet.
`PlayerKnowsItsSession` of `Client`, which relates four queues and three threads
per client.

## Not modelled, and why

* `PeriodicTimer`, `EventLoopThreadPool`, `Acceptor`, `Dispatcher`, `Socket`:
  thin layers over system calls or a map; what the server relies on (a loop is
  a FIFO, a wheel tick comes some time) is in the modules above.
* Real time: 30 s timers are an order, heartbeats an arbitrary `Kick`.
* Input acknowledgement (`last_input_seq`), the interpolation of positions and
  everything drawn.
* The load generator, and the wire protocols of MySQL and Redis.
* What still runs after `writer_` is destroyed (requests that arrive while the
  members of `GameServer` go): the code relies on there being none. `wheelDriver_`,
  whose timer is destroyed on the lobby before the rooms are taken.
