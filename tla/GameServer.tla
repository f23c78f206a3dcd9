----------------------------- MODULE GameServer -----------------------------
(***************************************************************************)
(* The lobby of src/src/game/GameServer.cc together with the room threads  *)
(* it talks to (src/src/game/Room.cc).                                     *)
(*                                                                         *)
(* Every handler of the lobby runs to completion on one thread, so a       *)
(* handler is one action.  A connection's messages reach the lobby in      *)
(* order and its disconnect comes last; messages of different connections  *)
(* interleave freely, because the network and the IO threads may delay     *)
(* each of them.  What the lobby asks of a room goes through the FIFO of   *)
(* the room's loop (roomQ); a room reports its end by posting onRoomEnd,   *)
(* which the lobby runs at any later time (endPosted).                     *)
(*                                                                         *)
(* Both one-shot timers of the lobby have the same delay, 30 s             *)
(* (kMatchTimeoutMs, kSessionKeepMs), so they fire in the order in which   *)
(* they were added: the clock is abstracted to that order, and the timer   *)
(* with the smallest id may fire at any time.                              *)
(*                                                                         *)
(* A connection carries at most one LoginReq or ReconnectReq, its first    *)
(* message, as GameSession.TransportConnected sends it.  Heartbeats change *)
(* nothing but a time stamp and are left out here, and a battle is         *)
(* abstracted to the tick on which it ends.                                *)
(***************************************************************************)
EXTENDS MatchQueue

CONSTANTS
  Conns,       \* the TCP connections clients will ever open, by unique name
  NoConn,      \* the null TcpConnectionPtr
  Accounts,    \* account names, all nonempty
  NoAccount,   \* the account of a player id not allocated yet
  MaxPlayers,  \* bound: how many logins are handled
  MaxRooms,    \* bound: how many rooms are created
  MaxTimers,   \* bound: no match request once this many timers were added
  MaxRoomQ     \* bound: no input is sent when a room's queue is this long

ASSUME ConnsAssumption == NoConn \notin Conns
ASSUME AccountsAssumption == NoAccount \notin Accounts
ASSUME BoundsAssumption ==
  /\ MaxPlayers \in Nat /\ MaxRooms \in Nat
  /\ MaxTimers \in Nat /\ MaxRoomQ \in Nat

Players == 1..MaxPlayers
RoomIds == 1..MaxRooms

VARIABLES
  fresh,         \* connections that have not sent a login or reconnect yet
  connToPlayer,  \* connToPlayer_, 0 for a connection that is not in the map
  sessions,      \* the keys of sessions_
  conn,          \* Session::conn
  state,         \* Session::state
  roomId,        \* Session::roomId
  account,       \* Session::account (remembered after the session is gone)
  expireTimerId, \* Session::expireTimerId
  queue,         \* matchQueue_
  matchTimer,    \* matchTimer_, 0 for a player that is not in the map
  timers,        \* the pending 30 s timers of wheel_
  nextTimer,     \* the next timer id
  nextPlayer,    \* nextPlayerId_
  nextRoom,      \* nextRoomId_
  rooms,         \* the keys of rooms_
  members,       \* the players a room was created with, {} before
  roomConn,      \* Room::conns_
  roomPhase,     \* whether a room exists, has started, has ended (ended_)
  winner,        \* the winner the room announced, 0 before
  ticker,        \* whether Room::ticker_ is set
  roomQ,         \* the functors pending on the room's loop for this room
  endPosted,     \* rooms whose onRoomEnd is pending on the lobby
  online,        \* accounts whose "online:" key is set, as enqueued so far
  records        \* results enqueued for storage

lobbyVars == <<fresh, connToPlayer, sessions, conn, state, roomId, account,
               expireTimerId, queue, matchTimer, timers, nextTimer,
               nextPlayer, nextRoom, rooms, members, online, records>>
roomVars  == <<roomConn, roomPhase, winner, ticker, roomQ, endPosted>>
vars      == <<lobbyVars, roomVars>>

States == {"kLobby", "kMatching", "kInRoom"}
Phases == {"none", "created", "running", "ended"}
Ops    == {"start", "input", "rebind", "dropConn", "forceEnd", "resetTicker"}
Timer  == [id : Nat, kind : {"match", "expire"}, pid : Players]
Task   == [op : Ops, pid : 0..MaxPlayers, conn : Conns \cup {NoConn}]
Record == [room : RoomIds, winner : Accounts, loser : Accounts]

\* The values each variable ranges over; in particular a stored result names two
\* accounts (onRoomEnd's test for empty names) and the queue holds players.
TypeOK ==
  /\ fresh \subseteq Conns
  /\ connToPlayer \in [Conns -> 0..MaxPlayers]
  /\ sessions \subseteq Players
  /\ conn \in [Players -> Conns \cup {NoConn}]
  /\ state \in [Players -> States]
  /\ roomId \in [Players -> 0..MaxRooms]
  /\ account \in [Players -> Accounts \cup {NoAccount}]
  /\ expireTimerId \in [Players -> Nat]
  /\ queue \in [order : Seq(Players), waiting : SUBSET Players]
  /\ matchTimer \in [Players -> Nat]
  /\ timers \subseteq Timer
  /\ nextTimer \in Nat \ {0}
  /\ nextPlayer \in 1..(MaxPlayers + 1)
  /\ nextRoom \in 1..(MaxRooms + 1)
  /\ rooms \subseteq RoomIds
  /\ members \in [RoomIds -> SUBSET Players]
  /\ roomConn \in [RoomIds -> [Players -> Conns \cup {NoConn}]]
  /\ roomPhase \in [RoomIds -> Phases]
  /\ winner \in [RoomIds -> 0..MaxPlayers]
  /\ ticker \in [RoomIds -> BOOLEAN]
  /\ roomQ \in [RoomIds -> Seq(Task)]
  /\ endPosted \subseteq RoomIds
  /\ online \subseteq Accounts
  /\ records \subseteq Record

Init ==
  /\ fresh = Conns
  /\ connToPlayer = [c \in Conns |-> 0]
  /\ sessions = {}
  /\ conn = [p \in Players |-> NoConn]
  /\ state = [p \in Players |-> "kLobby"]
  /\ roomId = [p \in Players |-> 0]
  /\ account = [p \in Players |-> NoAccount]
  /\ expireTimerId = [p \in Players |-> 0]
  /\ queue = EmptyQueue
  /\ matchTimer = [p \in Players |-> 0]
  /\ timers = {}
  /\ nextTimer = 1
  /\ nextPlayer = 1
  /\ nextRoom = 1
  /\ rooms = {}
  /\ members = [r \in RoomIds |-> {}]
  /\ roomConn = [r \in RoomIds |-> [p \in Players |-> NoConn]]
  /\ roomPhase = [r \in RoomIds |-> "none"]
  /\ winner = [r \in RoomIds |-> 0]
  /\ ticker = [r \in RoomIds |-> FALSE]
  /\ roomQ = [r \in RoomIds |-> <<>>]
  /\ endPosted = {}
  /\ online = {}
  /\ records = {}

-----------------------------------------------------------------------------
(* Helpers shared by the handlers.                                         *)

\* sessionOf(): the player a connection is bound to, 0 if there is no session.
SessionOf(c) == IF connToPlayer[c] \in sessions THEN connToPlayer[c] ELSE 0

\* The test that precedes every post to a room: in a room that rooms_ holds.
RoomFound(p) == state[p] = "kInRoom" /\ roomId[p] \in rooms

\* room->loop()->runInLoop(...): append to the FIFO of the room's loop.
Posted(r, op, p, c) ==
  [roomQ EXCEPT ![r] = Append(@, [op |-> op, pid |-> p, conn |-> c])]

\* Mutants: a disconnect or a forfeit is not passed on to the room.
PostedIfNoDrop(b, r, op, p, c) ==
  IF b /\ op # "dropConn" THEN Posted(r, op, p, c) ELSE roomQ
PostedIfNoForfeit(b, r, op, p, c) ==
  IF b /\ op # "forceEnd" THEN Posted(r, op, p, c) ELSE roomQ

PostedIf(b, r, op, p, c) == IF b THEN Posted(r, op, p, c) ELSE roomQ

\* Mutants: no timer is armed; a timer is not withdrawn.
ArmedNot(kind, p) == timers
CancelledNot(ts, ids) == ts

\* wheel_.add and wheel_.cancel.
Armed(kind, p) == timers \cup {[id |-> nextTimer, kind |-> kind, pid |-> p]}
Cancelled(ts, ids) == {t \in ts : t.id \notin ids}

\* Equal delays: the pending timer that was added first is the next to fire.
IsOldest(t) == \A u \in timers : t.id <= u.id

-----------------------------------------------------------------------------
(* Lobby thread: handlers of client messages.                              *)

\* onLogin: always a new session, bound to the connection.
OnLogin(c, a) ==
  LET p == nextPlayer
  IN  /\ c \in fresh
      /\ nextPlayer <= MaxPlayers
      /\ fresh' = fresh \ {c}
      /\ nextPlayer' = nextPlayer + 1
      /\ sessions' = sessions \cup {p}
      /\ conn' = [conn EXCEPT ![p] = c]
      /\ state' = [state EXCEPT ![p] = "kLobby"]
      /\ roomId' = [roomId EXCEPT ![p] = 0]
      /\ account' = [account EXCEPT ![p] = a]
      /\ expireTimerId' = [expireTimerId EXCEPT ![p] = 0]
      /\ connToPlayer' = [connToPlayer EXCEPT ![c] = p]
      /\ online' = online \cup {a}
      /\ UNCHANGED <<queue, matchTimer, timers, nextTimer, nextRoom, rooms,
                     members, records, roomVars>>

\* Mutant: a second connection may take over a connected session.
RefusedUnlessToken(p, tokenOk) == p \notin sessions \/ ~tokenOk

\* onReconnect's refusal test: no such session, wrong token, or still connected.
Refused(p, tokenOk) == p \notin sessions \/ ~tokenOk \/ conn[p] # NoConn

\* A refused reconnect is answered with code 1 and the connection shut down.
OnReconnectRefused(c, p, tokenOk) ==
  /\ c \in fresh
  /\ Refused(p, tokenOk)
  /\ fresh' = fresh \ {c}
  /\ UNCHANGED <<connToPlayer, sessions, conn, state, roomId, account,
                 expireTimerId, queue, matchTimer, timers, nextTimer,
                 nextPlayer, nextRoom, rooms, members, online, records,
                 roomVars>>

\* An accepted one: withdraw the expiry, bind, and let the room rebind.
OnReconnect(c, p, tokenOk) ==
  /\ c \in fresh
  /\ ~Refused(p, tokenOk)
  /\ fresh' = fresh \ {c}
  /\ timers' = Cancelled(timers, {expireTimerId[p]})
  /\ expireTimerId' = [expireTimerId EXCEPT ![p] = 0]
  /\ conn' = [conn EXCEPT ![p] = c]
  /\ connToPlayer' = [connToPlayer EXCEPT ![c] = p]
  /\ roomQ' = PostedIf(RoomFound(p), roomId[p], "rebind", p, c)
  /\ online' = online \cup {account[p]}
  /\ UNCHANGED <<sessions, state, roomId, account, queue, matchTimer,
                 nextTimer, nextPlayer, nextRoom, rooms, members, records,
                 roomConn, roomPhase, winner, ticker, endPosted>>

\* onMatch when no pair comes out of tryMatch: the player waits, timer armed.
OnMatchWait(p) ==
  /\ state' = [state EXCEPT ![p] = "kMatching"]
  /\ matchTimer' = [matchTimer EXCEPT ![p] = nextTimer]
  /\ timers' = Armed("match", p)
  /\ UNCHANGED <<roomId, nextRoom, rooms, members, roomVars>>

\* onMatch when tryMatch forms the pair ab: both match timers (as matchTimer_
\* knows them) are withdrawn, the room is created with the players' current
\* connections and its start is posted.
OnMatchPair(p, ab) ==
  LET r   == nextRoom
      two == {ab[1], ab[2]}
      mt  == [matchTimer EXCEPT ![p] = nextTimer]
  IN  /\ nextRoom <= MaxRooms
      /\ timers' = Cancelled(Armed("match", p), {mt[x] : x \in two})
      /\ matchTimer' = [x \in Players |-> IF x \in two THEN 0 ELSE mt[x]]
      /\ nextRoom' = nextRoom + 1
      /\ rooms' = rooms \cup {r}
      /\ members' = [members EXCEPT ![r] = two]
      /\ state' = [x \in Players |-> IF x \in two THEN "kInRoom" ELSE state[x]]
      /\ roomId' = [x \in Players |-> IF x \in two THEN r ELSE roomId[x]]
      /\ roomConn' = [roomConn EXCEPT ![r] =
                        [x \in Players |-> IF x \in two THEN conn[x] ELSE NoConn]]
      /\ roomPhase' = [roomPhase EXCEPT ![r] = "created"]
      /\ roomQ' = Posted(r, "start", 0, NoConn)
      /\ UNCHANGED <<winner, ticker, endPosted>>

\* onMatch and the tryMatch it ends with.  When one of a pair has no session,
\* tryMatch returns with both popped, as if no pair had come out.
OnMatch(c) ==
  LET p  == SessionOf(c)
      q  == Push(queue, p)
      ab == Pair(q)
  IN  /\ p # 0
      /\ state[p] = "kLobby"
      /\ ~Contains(queue, p)
      /\ nextTimer <= MaxTimers
      /\ nextTimer' = nextTimer + 1
      /\ queue' = PopPair(q)
      /\ IF PairReady(q) /\ {ab[1], ab[2]} \subseteq sessions
           THEN OnMatchPair(p, ab)
           ELSE OnMatchWait(p)
      /\ UNCHANGED <<fresh, connToPlayer, sessions, conn, account,
                     expireTimerId, nextPlayer, online, records>>

\* onInput: forwarded to the player's room.
OnInput(c) ==
  LET p == SessionOf(c)
  IN  /\ p # 0
      /\ RoomFound(p)
      /\ Len(roomQ[roomId[p]]) < MaxRoomQ
      /\ roomQ' = Posted(roomId[p], "input", p, NoConn)
      /\ UNCHANGED <<lobbyVars, roomConn, roomPhase, winner, ticker, endPosted>>

-----------------------------------------------------------------------------
(* Lobby thread: disconnects, timers, ends of battles.                     *)

\* Mutant: the key stays.
OfflineNot(a) == online

\* redis_.del of the account's online key.
Offline(a) == online \ {a}

\* onDisconnect: unbind, leave the match queue, tell the room, arm the expiry.
\* The match timer of a player that was waiting is not withdrawn.
OnDisconnect(c) ==
  LET p == connToPlayer[c]
  IN  /\ p # 0
      /\ connToPlayer' = [connToPlayer EXCEPT ![c] = 0]
      /\ IF p \in sessions
           THEN /\ conn' = [conn EXCEPT ![p] = NoConn]
                /\ queue' = IF state[p] = "kMatching" THEN Remove(queue, p) ELSE queue
                /\ state' = [state EXCEPT ![p] = IF @ = "kMatching" THEN "kLobby" ELSE @]
                /\ roomQ' = PostedIf(RoomFound(p), roomId[p], "dropConn", p, NoConn)
                /\ expireTimerId' = [expireTimerId EXCEPT ![p] = nextTimer]
                /\ timers' = Armed("expire", p)
                /\ nextTimer' = nextTimer + 1
                /\ online' = Offline(account[p])
           ELSE UNCHANGED <<conn, queue, state, roomQ, expireTimerId, timers,
                            nextTimer, online>>
      /\ UNCHANGED <<fresh, sessions, roomId, account, matchTimer, nextPlayer,
                     nextRoom, rooms, members, records,
                     roomConn, roomPhase, winner, ticker, endPosted>>

\* The callback of a match timer: its player leaves the queue, if it is there.
MatchTimeout(t) ==
  LET p == t.pid
      ejected == Contains(queue, p)
  IN  /\ t.kind = "match"
      /\ IsOldest(t)
      /\ timers' = timers \ {t}
      /\ matchTimer' = [matchTimer EXCEPT ![p] = 0]
      /\ queue' = IF ejected THEN Remove(queue, p) ELSE queue
      /\ state' = [state EXCEPT ![p] =
                     IF ejected /\ p \in sessions THEN "kLobby" ELSE @]
      /\ UNCHANGED <<fresh, connToPlayer, sessions, conn, roomId, account,
                     expireTimerId, nextTimer, nextPlayer, nextRoom, rooms,
                     members, online, records, roomVars>>

\* The other session in the same room, 0 if there is none.
Opponent(p) ==
  LET others == {o \in sessions : roomId[o] = roomId[p] /\ o # p}
  IN  IF others = {} THEN 0 ELSE CHOOSE o \in others : TRUE

\* The callback of an expiry timer, expireSession: a player in a room forfeits
\* to the opponent, and the session is erased.
ExpireSession(t) ==
  LET p == t.pid
  IN  /\ t.kind = "expire"
      /\ IsOldest(t)
      /\ timers' = timers \ {t}
      /\ IF p \in sessions /\ conn[p] = NoConn
           THEN /\ sessions' = sessions \ {p}
                /\ roomQ' = PostedIf(RoomFound(p), roomId[p], "forceEnd",
                                     Opponent(p), NoConn)
                /\ state' = [state EXCEPT ![p] = "kLobby"]
                /\ roomId' = [roomId EXCEPT ![p] = 0]
                /\ expireTimerId' = [expireTimerId EXCEPT ![p] = 0]
           ELSE UNCHANGED <<sessions, roomQ, state, roomId, expireTimerId>>
      /\ UNCHANGED <<fresh, connToPlayer, conn, account, queue, matchTimer,
                     nextTimer, nextPlayer, nextRoom, rooms, members, online,
                     records, roomConn, roomPhase, winner, ticker, endPosted>>

\* Mutant: the sessions are not sent back to the lobby.
SentBackNot(f, inRoom, v) == f

\* onRoomEnd's loop over sessions_: those of the room get the new value v.
SentBack(f, inRoom, v) == [p \in Players |-> IF p \in inRoom THEN v ELSE f[p]]

\* Mutants: winner and loser swapped; a missing winner is not noticed.
ResultSwapped(r, inRoom) ==
  {[room |-> r, winner |-> account[l], loser |-> account[w]] :
     w \in inRoom \cap {winner[r]}, l \in inRoom \ {winner[r]}}
ResultUnchecked(r, inRoom) ==
  {[room |-> r, loser |-> account[l],
    winner |-> IF winner[r] \in inRoom THEN account[winner[r]] ELSE NoAccount] :
     l \in inRoom \ {winner[r]}}

\* The result onRoomEnd enqueues: none unless both accounts were found.
Result(r, inRoom) ==
  {[room |-> r, winner |-> account[w], loser |-> account[l]] :
     w \in inRoom \cap {winner[r]}, l \in inRoom \ {winner[r]}}

\* onRoomEnd: drop the room, send its sessions back to the lobby, and enqueue
\* the result if the sessions of winner and loser are both still there.
OnRoomEnd(r) ==
  LET inRoom == {p \in sessions : roomId[p] = r}
  IN  /\ r \in endPosted
      /\ endPosted' = endPosted \ {r}
      /\ rooms' = rooms \ {r}
      /\ roomId' = SentBack(roomId, inRoom, 0)
      /\ state' = SentBack(state, inRoom, "kLobby")
      /\ records' = records \cup Result(r, inRoom)
      /\ UNCHANGED <<fresh, connToPlayer, sessions, conn, account,
                     expireTimerId, queue, matchTimer, timers, nextTimer,
                     nextPlayer, nextRoom, members, online,
                     roomConn, roomPhase, winner, ticker, roomQ>>

-----------------------------------------------------------------------------
(* Room threads.  Each step runs the functor at the head of the room's     *)
(* FIFO, or one callback of the ticker.                                    *)

\* The loop takes the next functor, which is an op.
Dequeue(r, op) == roomQ[r] # <<>> /\ Head(roomQ[r]).op = op

\* start: announce the room, send a full snapshot to each, start the ticker.
RoomStart(r) ==
  /\ Dequeue(r, "start")
  /\ roomQ' = [roomQ EXCEPT ![r] = Tail(@)]
  /\ roomPhase' = [roomPhase EXCEPT ![r] = "running"]
  /\ ticker' = [ticker EXCEPT ![r] = TRUE]
  /\ UNCHANGED <<lobbyVars, roomConn, winner, endPosted>>

\* onInput: into the simulation, which this module leaves out.
RoomInput(r) ==
  /\ Dequeue(r, "input")
  /\ roomQ' = [roomQ EXCEPT ![r] = Tail(@)]
  /\ UNCHANGED <<lobbyVars, roomConn, roomPhase, winner, ticker, endPosted>>

\* rebind and dropConn: whether the battle has ended is not asked.
RoomBind(r, op) ==
  LET t == Head(roomQ[r])
  IN  /\ Dequeue(r, op)
      /\ roomQ' = [roomQ EXCEPT ![r] = Tail(@)]
      /\ roomConn' = [roomConn EXCEPT ![r][t.pid] = t.conn]
      /\ UNCHANGED <<lobbyVars, roomPhase, winner, ticker, endPosted>>

RoomRebind(r)   == RoomBind(r, "rebind")
RoomDropConn(r) == RoomBind(r, "dropConn")

\* Mutant: the ticker is not released.
EndBattleNoReset(r, w, q) ==
  /\ roomPhase' = [roomPhase EXCEPT ![r] = "ended"]
  /\ winner' = [winner EXCEPT ![r] = w]
  /\ roomQ' = [roomQ EXCEPT ![r] = q]
  /\ endPosted' = endPosted \cup {r}

\* endBattle, q being what is left on the FIFO: mark the end, queue the release
\* of the ticker behind q, post onRoomEnd.
EndBattle(r, w, q) ==
  /\ roomPhase' = [roomPhase EXCEPT ![r] = "ended"]
  /\ winner' = [winner EXCEPT ![r] = w]
  /\ roomQ' = [roomQ EXCEPT ![r] =
                 Append(q, [op |-> "resetTicker", pid |-> 0, conn |-> NoConn])]
  /\ endPosted' = endPosted \cup {r}

\* Mutant: ended_ is not set.
EndedNever(r) == FALSE

\* ended_, which forceEnd and onTick test first.
Ended(r) == roomPhase[r] = "ended"

\* forceEnd: the first end counts.
RoomForceEnd(r) ==
  LET t == Head(roomQ[r])
  IN  /\ Dequeue(r, "forceEnd")
      /\ IF Ended(r)
           THEN /\ roomQ' = [roomQ EXCEPT ![r] = Tail(@)]
                /\ UNCHANGED <<roomPhase, winner, endPosted>>
           ELSE EndBattle(r, t.pid, Tail(roomQ[r]))
      /\ UNCHANGED <<lobbyVars, roomConn, ticker>>

\* The functor endBattle queued: the ticker goes away on its own loop.
RoomResetTicker(r) ==
  /\ Dequeue(r, "resetTicker")
  /\ roomQ' = [roomQ EXCEPT ![r] = Tail(@)]
  /\ ticker' = [ticker EXCEPT ![r] = FALSE]
  /\ UNCHANGED <<lobbyVars, roomConn, roomPhase, winner, endPosted>>

\* onTick on the tick that leaves one player alive.  (The others change nothing
\* that this module keeps.)
RoomTick(r, w) ==
  /\ ticker[r]
  /\ ~Ended(r)
  /\ w \in members[r]
  /\ EndBattle(r, w, roomQ[r])
  /\ UNCHANGED <<lobbyVars, roomConn, ticker>>

-----------------------------------------------------------------------------

RoomFunctor(r) ==
  \/ RoomStart(r)    \/ RoomInput(r)    \/ RoomRebind(r)
  \/ RoomDropConn(r) \/ RoomForceEnd(r) \/ RoomResetTicker(r)

TimerFires == \E t \in timers : MatchTimeout(t) \/ ExpireSession(t)

Next ==
  \/ \E c \in Conns, a \in Accounts : OnLogin(c, a)
  \/ \E c \in Conns, p \in Players, tokenOk \in BOOLEAN :
        OnReconnect(c, p, tokenOk) \/ OnReconnectRefused(c, p, tokenOk)
  \/ \E c \in Conns : OnMatch(c) \/ OnInput(c) \/ OnDisconnect(c)
  \/ TimerFires
  \/ \E r \in RoomIds : OnRoomEnd(r) \/ RoomFunctor(r)
  \/ \E r \in RoomIds, w \in Players : RoomTick(r, w)

Spec == Init /\ [][Next]_vars

-----------------------------------------------------------------------------
(* What the lobby promises.                                                *)

\* Connections and sessions are bound one to one: the session a connection maps
\* to holds that connection, and a session's connection maps back to it, so a
\* disconnect always finds the session it must release (connToPlayer_ and
\* Session::conn are written by onLogin, onReconnect and onDisconnect apart).
BindingOneToOne ==
  /\ \A p \in sessions : conn[p] # NoConn => connToPlayer[conn[p]] = p
  /\ \A c \in Conns : connToPlayer[c] # 0 =>
        connToPlayer[c] \in sessions /\ conn[connToPlayer[c]] = c

\* The queue and the session states agree, whoever is queued is connected and
\* has an entry in order_, and at most one player waits between two handlers.
\* So tryMatch never meets a missing session nor gives a room a null connection.
QueueMatchesState ==
  /\ queue.waiting = {p \in sessions : state[p] = "kMatching"}
  /\ \A p \in queue.waiting :
        conn[p] # NoConn /\ \E i \in DOMAIN queue.order : queue.order[i] = p
  /\ \A p, x \in queue.waiting : p = x

\* A session says kInRoom exactly while its roomId names a room of rooms_ that
\* was created for it: no session is left pointing at an erased room, and the
\* posts of onInput, onReconnect, onDisconnect and expireSession are not lost.
InRoomIsRouted ==
  \A p \in sessions :
    /\ state[p] = "kInRoom" <=> roomId[p] # 0
    /\ roomId[p] # 0 => roomId[p] \in rooms /\ p \in members[roomId[p]]

\* A disconnected session has exactly one pending expiry timer, the one it
\* remembers, and a connected one has none: no session leaks, and none is
\* reclaimed under a player who came back (onDisconnect, onReconnect).
ExpiryExact ==
  \A p \in sessions :
    LET mine == {t \in timers : t.kind = "expire" /\ t.pid = p}
    IN  IF conn[p] = NoConn
          THEN \E t \in mine : mine = {t} /\ t.id = expireTimerId[p]
          ELSE mine = {}

\* A room on which no rebind or dropConn of a player is pending sends to the
\* connection the lobby has for that player: the two threads' views of who is
\* connected meet again after every reconnect and disconnect.
RoomBindingConverges ==
  \A r \in rooms : \A p \in members[r] \cap sessions :
    (\A i \in DOMAIN roomQ[r] :
        roomQ[r][i].op \in {"rebind", "dropConn"} => roomQ[r][i].pid # p)
      => roomConn[r][p] = conn[p]

\* A room that ended is in rooms_ until its onRoomEnd runs, and onRoomEnd is
\* pending for no other: every battle is settled exactly once, however a tick
\* and one or two forfeits race to end it.  It is won by one of its two players,
\* although expireSession passes winner 0 to forceEnd when the opponent's
\* session is gone as well.
EndReportedOnce ==
  \A r \in RoomIds :
    /\ (r \in endPosted) <=> (roomPhase[r] = "ended" /\ r \in rooms)
    /\ roomPhase[r] = "ended" => winner[r] \in members[r]

\* When nothing refers to a room any more (not rooms_, no pending functor), its
\* ticker is already gone: it was destroyed on the room's own loop, never by
\* whichever thread drops the last reference.
FreedRoomHasNoTicker ==
  \A r \in RoomIds :
    roomPhase[r] # "none" /\ r \notin rooms /\ roomQ[r] = <<>> => ~ticker[r]

\* A stored result names the winner the room announced and the other player,
\* and there is at most one per room.
RecordsAreTrue ==
  \A x \in records :
    /\ roomPhase[x.room] = "ended"
    /\ x.winner = account[winner[x.room]]
    /\ \E l \in members[x.room] \ {winner[x.room]} : x.loser = account[l]
    /\ \A y \in records : y.room = x.room => y = x

\* Nobody is shown online who is not connected, and who is connected is shown
\* online, unless there are several sessions of the account: the key is the
\* account's, and the first of them to disconnect clears it.
OnlineUnlessShared ==
  LET connected == {p \in sessions : conn[p] # NoConn}
  IN  /\ \A a \in online : \E p \in connected : account[p] = a
      /\ \A p \in connected : \/ account[p] \in online
                              \/ \E q \in Players \ {p} : account[q] = account[p]

-----------------------------------------------------------------------------
(* Liveness, under the fairness of a specification that composes the       *)
(* server with its clients.                                                *)

\* A player does not wait forever: it is paired, times out or disconnects.
MatchingResolves ==
  \A p \in Players : (p \in queue.waiting) ~> (p \notin queue.waiting)

\* A disconnected session is taken up again or reclaimed.
DisconnectedResolves ==
  \A p \in Players :
    (p \in sessions /\ conn[p] = NoConn) ~> (p \notin sessions \/ conn[p] # NoConn)

\* When a player's session expires during a battle, the battle ends and the
\* room is given up, so the opponent is not kept in it (expireSession,
\* forceEnd, onRoomEnd).
ForfeitEndsBattle ==
  \A r \in RoomIds : (r \in rooms /\ ~(members[r] \subseteq sessions)) ~> (r \notin rooms)

-----------------------------------------------------------------------------
(* A claim of the code's comments that the code does not keep.             *)

\* A decided battle is settled to storage: when the lobby has handled the end,
\* the result of the room is among the enqueued records.
SettledIsRecorded ==
  \A r \in RoomIds :
    (roomPhase[r] = "ended" /\ r \notin rooms) => \E x \in records : x.room = r
=============================================================================
