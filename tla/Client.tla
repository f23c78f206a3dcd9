------------------------------- MODULE Client -------------------------------
(***************************************************************************)
(* The server of GameServer together with its clients: the Unity client    *)
(* (GameSession, NetworkClient, GameClient) and the bot of bot_client.cc.  *)
(*                                                                         *)
(* A connection carries the client's requests to the lobby in order.  What *)
(* the server sends reaches the client's queue of events in order: for the *)
(* Unity client queue_ of NetworkClient, which all its connections share;  *)
(* the bot reads its socket directly.  The client's end of a connection is *)
(* closed by the client or by the network (gone); the server's end only    *)
(* half, by shutdown() (hung): the client reads the end of the stream, and *)
(* the server goes on reading.                                             *)
(*                                                                         *)
(* Heartbeats are not sent one by one: Kick is the sweep that finds those  *)
(* of a session too old.  Inputs and snapshots are left to Battle.         *)
(***************************************************************************)
EXTENDS GameServer, Functions

CONSTANTS Unity,       \* the Unity clients
          Bots,        \* the bots
          AccountOf,   \* the account a client logs in with
          ConnsOf,     \* the connections a client may open, in order
          MaxMatches,  \* bound: the MatchReqs of a Unity client
          MaxFaults    \* bound: failed and broken connections, drops, kicks

ASSUME ClientAssumption ==
  /\ MaxMatches \in Nat /\ MaxFaults \in Nat
  /\ \A i \in Unity \cup Bots : Range(ConnsOf[i]) \subseteq Conns
  /\ \A i, j \in Unity \cup Bots : i # j => Range(ConnsOf[i]) \cap Range(ConnsOf[j]) = {}

S == INSTANCE SequencesExt

Clients == Unity \cup Bots

VARIABLES
  up,      \* requests on their way to the lobby, per connection
  inbox,   \* events on their way to a client
  sock,    \* the connection a client uses: tcp_, or the bot's fd
  gone,    \* connections whose client end is closed
  hung,    \* connections the server shut down
  cli,     \* the state of a client
  faults   \* failed and broken connections, drops and kicks so far

netVars == <<up, inbox, sock, gone, hung, cli, faults>>
allVars == <<vars, netVars>>

\* The bots have connected and sent their LoginReq, which may take its time; the
\* Unity clients have not connected.
ClientInit ==
  /\ Init
  /\ sock = [i \in Clients |-> IF i \in Bots THEN ConnsOf[i][1] ELSE NoConn]
  /\ up = [c \in Conns |-> LET bot == {i \in Bots : sock[i] = c}
                           IN  S!SetToSeq({<<"LoginReq", AccountOf[i]>> : i \in bot})]
  /\ inbox = [i \in Clients |-> <<>>]
  /\ gone = {} /\ hung = {} /\ faults = 0
  /\ cli = [i \in Clients |-> [State |-> IF i \in Bots THEN "run" ELSE "Disconnected",
                               PlayerId |-> 0, wasInBattle |-> FALSE,
                               conns |-> IF i \in Bots THEN 1 ELSE 0, matches |-> 0]]

-----------------------------------------------------------------------------
(* The network.                                                            *)

\* One of the few things that go wrong.
Fault == faults < MaxFaults /\ faults' = faults + 1

\* conn->send(): the event reaches the client that uses the connection, unless
\* it was shut down or its client end is closed.
Sent(ib, c, ev) ==
  [i \in Clients |-> IF sock[i] = c /\ c # NoConn /\ c \notin gone \cup hung
                     THEN Append(ib[i], ev) ELSE ib[i]]

\* broadcast() to the connections of a room.
SentAll(ib, r, ev) ==
  LET to == {roomConn[r][p] : p \in members[r]} \ {NoConn}
  IN  [i \in Clients |-> IF sock[i] \in to THEN Sent(ib, sock[i], ev)[i] ELSE ib[i]]

\* conn->shutdown(): after what was sent, the client reads the end.
ShutDown(ib, c) == Sent(ib, c, <<"Disconnected">>)

\* A client's request, lost when its end of the connection is closed.
Requested(c, req) ==
  IF c = NoConn \/ c \in gone THEN up ELSE [up EXCEPT ![c] = Append(@, req)]

-----------------------------------------------------------------------------
(* The server, taking the requests of a connection in order.               *)

\* The lobby takes the next request of connection c.
TakesRequest(c) == up[c] # <<>> /\ up' = [up EXCEPT ![c] = Tail(@)]

Takes(c, what) ==
  /\ TakesRequest(c) /\ Head(up[c])[1] = what
  /\ UNCHANGED <<sock, gone, cli, faults>>

ServeLogin(c) ==
  /\ Takes(c, "LoginReq")
  /\ OnLogin(c, Head(up[c])[2])
  /\ inbox' = Sent(inbox, c, <<"LoginResp", nextPlayer>>)
  /\ UNCHANGED hung

ServeReconnect(c) ==
  /\ Takes(c, "ReconnectReq")
  /\ OnReconnect(c, Head(up[c])[2], TRUE)
  /\ inbox' = Sent(inbox, c, <<"LoginResp", Head(up[c])[2]>>)
  /\ UNCHANGED hung

\* Mutant: the connection of a refused client is left open.
RefuseNoShutdown(c) == inbox' = Sent(inbox, c, <<"LoginResp", 0>>) /\ UNCHANGED hung

\* The answer to a refused ReconnectReq: code 1, and the connection shut down.
Refuse(c) ==
  /\ inbox' = ShutDown(Sent(inbox, c, <<"LoginResp", 0>>), c)
  /\ hung' = hung \cup {c}

ServeRefused(c) ==
  /\ Takes(c, "ReconnectReq")
  /\ OnReconnectRefused(c, Head(up[c])[2], TRUE)
  /\ Refuse(c)

ServeMatch(c) ==
  /\ Takes(c, "MatchReq")
  /\ OnMatch(c)
  /\ UNCHANGED <<inbox, hung>>

\* onMatch's early returns: no session, not in the lobby, already queued.
IgnoreMatch(c) ==
  LET p == SessionOf(c)
  IN  /\ Takes(c, "MatchReq")
      /\ p = 0 \/ state[p] # "kLobby" \/ Contains(queue, p)
      /\ UNCHANGED <<vars, inbox, hung>>

\* The end of the stream comes behind the requests.
ServeDisconnect(c) ==
  /\ c \in gone /\ up[c] = <<>>
  /\ OnDisconnect(c)
  /\ UNCHANGED netVars

\* sweepHeartbeats: shutdown(), and nothing else.
Kick(p) ==
  LET c == conn[p]
  IN  /\ Fault /\ p \in sessions /\ c \notin {NoConn} \cup hung \cup gone
      /\ inbox' = ShutDown(inbox, c)
      /\ hung' = hung \cup {c}
      /\ UNCHANGED <<vars, up, sock, gone, cli>>

\* A timer: the match timeout tells the player, if it has a connection.
ServeTimer(t) ==
  /\ \/ /\ MatchTimeout(t)
        /\ inbox' = IF Contains(queue, t.pid) THEN Sent(inbox, conn[t.pid], <<"EnterRoom", 0>>)
                    ELSE inbox
     \/ ExpireSession(t) /\ UNCHANGED inbox
  /\ UNCHANGED <<up, sock, gone, hung, cli, faults>>

ServeRoomEnd(r) == OnRoomEnd(r) /\ UNCHANGED netVars

\* A room's loop runs the next functor; the one that ends the battle queues the
\* release of the ticker.
RunsFunctor(r) ==
  /\ roomQ[r] # <<>>
  /\ \E s \in {<<>>, <<[op |-> "resetTicker", pid |-> 0, conn |-> NoConn]>>} :
       roomQ' = [roomQ EXCEPT ![r] = Tail(@) \o s]

\* A functor of a room's loop, with what the room sends from it.
ServeRoom(r) ==
  /\ \/ RoomStart(r) /\ inbox' = SentAll(inbox, r, <<"EnterRoom", r>>)
     \/ /\ RoomRebind(r)
        /\ inbox' = Sent(inbox, Head(roomQ[r]).conn, <<"EnterRoom", r>>)
     \/ /\ RoomForceEnd(r)
        /\ inbox' = IF Ended(r) THEN inbox ELSE SentAll(inbox, r, <<"BattleEnd">>)
     \/ (RoomDropConn(r) \/ RoomResetTicker(r)) /\ UNCHANGED inbox
  /\ UNCHANGED <<up, sock, gone, hung, cli, faults>>

ServeTick(r, w) ==
  /\ RoomTick(r, w)
  /\ inbox' = SentAll(inbox, r, <<"BattleEnd">>)
  /\ UNCHANGED <<up, sock, gone, hung, cli, faults>>

-----------------------------------------------------------------------------
(* The Unity client.                                                       *)

\* A new connection c for client i becomes its socket.
Dials(i, c) ==
  /\ cli[i].conns < Len(ConnsOf[i])
  /\ c = ConnsOf[i][cli[i].conns + 1]
  /\ sock' = [sock EXCEPT ![i] = c]

\* Connect() of GameClient: pressed by the user, or by Update a second after a
\* disconnect when there is a token.  The thread of NetworkClient connects, or
\* fails.  The socket it used before is left as it is.
Connect(i, c) ==
  /\ cli[i].State = "Disconnected"
  /\ Dials(i, c)
  /\ cli' = [cli EXCEPT ![i].State = "Connecting", ![i].conns = @ + 1]
  /\ \/ /\ inbox' = [inbox EXCEPT ![i] = Append(@, <<"Connected">>)]
        /\ UNCHANGED <<gone, faults>>
     \/ /\ Fault
        /\ inbox' = [inbox EXCEPT ![i] = Append(@, <<"Disconnected">>)]
        /\ gone' = gone \cup {c}
  /\ UNCHANGED <<vars, up, hung>>

CanReconnect(i) == cli[i].PlayerId # 0

\* TransportConnected: the first request of the connection.
TransportConnected(i) ==
  /\ cli' = [cli EXCEPT ![i].State = "LoggingIn"]
  /\ up' = Requested(sock[i], IF CanReconnect(i) THEN <<"ReconnectReq", cli[i].PlayerId>>
                              ELSE <<"LoginReq", AccountOf[i]>>)

Disconnected(s) ==
  [s EXCEPT !.wasInBattle = (s.State = "InBattle"), !.State = "Disconnected"]

TransportDisconnected(i) ==
  /\ cli' = [cli EXCEPT ![i] = Disconnected(@)]
  /\ UNCHANGED up

\* OnLoginResp, accepted: back to the battle the client remembers.
LoggedIn(s, p) ==
  [s EXCEPT !.PlayerId = p, !.State = IF s.wasInBattle THEN "InBattle" ELSE "Lobby",
            !.wasInBattle = FALSE]

\* OnLoginResp, refused: the credentials go, the state stays.
OnLoginResp(s, p) ==
  IF p = 0 THEN [s EXCEPT !.PlayerId = 0, !.wasInBattle = FALSE] ELSE LoggedIn(s, p)

\* Mutant: an announced room is taken up only by a client that waits for one.
OnEnterRoomIfMatching(s, r) ==
  IF r = 0 THEN [s EXCEPT !.State = "Lobby"]
  ELSE IF s.State = "Matching" THEN [s EXCEPT !.State = "InBattle"] ELSE s

OnEnterRoom(s, r) == [s EXCEPT !.State = IF r = 0 THEN "Lobby" ELSE "InBattle"]

HandleMessage(i, ev) ==
  /\ cli' = [cli EXCEPT ![i] =
               CASE ev[1] = "LoginResp" -> OnLoginResp(@, ev[2])
                 [] ev[1] = "EnterRoom" -> OnEnterRoom(@, ev[2])
                 [] ev[1] = "BattleEnd" -> [@ EXCEPT !.State = "BattleEnded",
                                                     !.wasInBattle = FALSE]]
  /\ UNCHANGED up

\* TryDequeue: the next event of queue_.
Dequeues(i) == inbox[i] # <<>> /\ inbox' = [inbox EXCEPT ![i] = Tail(@)]

\* Pump: hand it to the session.
Pump(i) ==
  /\ i \in Unity /\ Dequeues(i)
  /\ LET ev == Head(inbox[i]) IN
     CASE ev[1] = "Connected"    -> TransportConnected(i)
       [] ev[1] = "Disconnected" -> TransportDisconnected(i)
       [] OTHER                  -> HandleMessage(i, ev)
  /\ UNCHANGED <<vars, sock, gone, hung, faults>>

\* RequestMatch, by the user or by autoMatch.
RequestMatch(i) ==
  /\ cli[i].State \in {"Lobby", "BattleEnded"} /\ cli[i].matches < MaxMatches
  /\ cli' = [cli EXCEPT ![i].State = "Matching", ![i].matches = @ + 1]
  /\ up' = Requested(sock[i], <<"MatchReq">>)
  /\ UNCHANGED <<vars, inbox, sock, gone, hung, faults>>

BackToLobby(i) ==
  /\ cli[i].State = "BattleEnded"
  /\ cli' = [cli EXCEPT ![i].State = "Lobby"]
  /\ UNCHANGED <<vars, up, inbox, sock, gone, hung, faults>>

\* The network breaks the client's connection: requests and events under way
\* may be lost, and the receiving thread reports the error.
Break(i) ==
  LET c == sock[i]
  IN  /\ i \in Unity /\ c \notin {NoConn} \cup gone \cup hung
      /\ Fault
      /\ gone' = gone \cup {c}
      /\ \E s \in S!Prefixes(up[c]) : up' = [up EXCEPT ![c] = s]
      /\ \E s \in S!Prefixes(inbox[i]) :
           inbox' = [inbox EXCEPT ![i] = Append(s, <<"Disconnected">>)]
      /\ UNCHANGED <<vars, sock, hung, cli>>

\* The runtime closes a socket that NetworkClient has replaced, some day.
Finalize(i, c) ==
  /\ i \in Unity /\ c \in (Range(ConnsOf[i]) \cap hung) \ (gone \cup {sock[i]})
  /\ gone' = gone \cup {c}
  /\ UNCHANGED <<vars, up, inbox, sock, hung, cli, faults>>

-----------------------------------------------------------------------------
(* The bot: one battle, with one reconnect in the middle of it.            *)

Bot(i, from) == i \in Bots /\ cli[i].State \in from

\* The process exits, which closes its socket.
BotExits(i) ==
  /\ cli' = [cli EXCEPT ![i].State = "exit"]
  /\ gone' = gone \cup {sock[i]}
  /\ UNCHANGED up

\* What a bot does with an event: the first answer makes it ask for a match, a
\* room lets the battle begin; a refusal, a match timeout or the end of the
\* battle ends it.  The end of the stream is no event: recvFrame only fails.
BotHandles(i, ev) ==
  \/ ev \in {<<"LoginResp", 0>>, <<"EnterRoom", 0>>, <<"BattleEnd">>} /\ BotExits(i)
  \/ /\ ev[1] = "LoginResp" /\ ev[2] # 0
     /\ cli' = [cli EXCEPT ![i].PlayerId = ev[2]]
     /\ up' = IF cli[i].PlayerId = 0 THEN Requested(sock[i], <<"MatchReq">>) ELSE up
     /\ UNCHANGED gone
  \/ /\ ev[1] = "EnterRoom" /\ ev[2] # 0
     /\ cli' = [cli EXCEPT ![i].State = IF @ = "run" THEN "inRoom" ELSE @]
     /\ UNCHANGED <<up, gone>>
  \/ ev = <<"Disconnected">> /\ UNCHANGED <<cli, up, gone>>

BotRecv(i) ==
  /\ Bot(i, {"run", "inRoom", "dropped"}) /\ inbox[i] # <<>>
  /\ BotHandles(i, Head(inbox[i]))
  /\ inbox' = [inbox EXCEPT ![i] = IF cli'[i].State = "exit" THEN <<>> ELSE Tail(@)]
  /\ UNCHANGED <<vars, sock, hung, faults>>

\* --drop-after-ms: close, connect again, and take the session up.
BotDrop(i, c) ==
  /\ Bot(i, {"inRoom"})
  /\ Fault
  /\ Dials(i, c)
  /\ gone' = gone \cup {sock[i]}
  /\ inbox' = [inbox EXCEPT ![i] = <<>>]
  /\ up' = [up EXCEPT ![c] = Append(@, <<"ReconnectReq", cli[i].PlayerId>>)]
  /\ cli' = [cli EXCEPT ![i].State = "dropped", ![i].conns = @ + 1]
  /\ UNCHANGED <<vars, hung>>

-----------------------------------------------------------------------------

ServeConn(c) ==
  \/ ServeLogin(c) \/ ServeReconnect(c) \/ ServeRefused(c)
  \/ ServeMatch(c) \/ IgnoreMatch(c) \/ ServeDisconnect(c)

ServeTimers == \E t \in timers : ServeTimer(t)

ClientNext ==
  \/ \E c \in Conns : ServeConn(c)
  \/ \E p \in Players : Kick(p)
  \/ ServeTimers
  \/ \E r \in RoomIds : ServeRoomEnd(r) \/ ServeRoom(r)
  \/ \E r \in RoomIds, w \in Players : ServeTick(r, w)
  \/ \E i \in Unity : Pump(i) \/ RequestMatch(i) \/ BackToLobby(i) \/ Break(i)
  \/ \E i \in Unity, c \in Conns : Connect(i, c) \/ Finalize(i, c)
  \/ \E i \in Bots : BotRecv(i) \/ \E c \in Conns : BotDrop(i, c)

ClientSpec == ClientInit /\ [][ClientNext]_allVars

\* The server's loops keep running and the clients keep reading.  Each condition
\* is on the part of the step by which it is known: a request, an event, a
\* functor or a timer is taken from where it waits.
ClientFairness ==
  /\ \A c \in Conns :
       /\ WF_up(TakesRequest(c))
       /\ WF_connToPlayer(/\ c \in gone /\ up[c] = <<>> /\ connToPlayer[c] # 0
                          /\ connToPlayer' = [connToPlayer EXCEPT ![c] = 0])
  /\ WF_timers(\E t \in timers : IsOldest(t) /\ timers' = timers \ {t})
  /\ \A r \in RoomIds :
       /\ WF_endPosted(r \in endPosted /\ endPosted' = endPosted \ {r})
       /\ WF_roomQ(RunsFunctor(r))
  /\ \A i \in Unity : WF_inbox(Dequeues(i))
  /\ \A i \in Bots :
       WF_inbox(Dequeues(i) \/ (inbox[i] # <<>> /\ inbox' = [inbox EXCEPT ![i] = <<>>]))

FairClientSpec == ClientSpec /\ ClientFairness

-----------------------------------------------------------------------------
(* What client and server know of each other.                              *)

\* Nothing is under way between client i and the server.
Quiet(i) ==
  /\ sock[i] \notin {NoConn} \cup gone \cup hung
  /\ inbox[i] = <<>> /\ up[sock[i]] = <<>>
  /\ endPosted = {} /\ \A r \in RoomIds : roomQ[r] = <<>>

\* When nothing is under way, a Unity client on an open connection and the
\* lobby mean the same session, and a player who is in a room is shown the
\* battle; until a connection is lost, only such a player is.  EnterRoom,
\* LoginResp, BattleEnd and the match timeout come from different threads, over
\* connections that are dropped and taken up again.
PlayerKnowsItsSession ==
  \A i \in Unity : Quiet(i) =>
    LET p == connToPlayer[sock[i]]
        inBattle == cli[i].State = "InBattle"
    IN  /\ p # 0 /\ cli[i].PlayerId = p
        /\ state[p] = "kInRoom" => inBattle
        /\ faults = 0 /\ inBattle => state[p] = "kInRoom"

\* Whatever happens to its request, a Unity client that logs in gets an answer
\* or sees the connection close (a refused client changes its state only on
\* the end of the stream that follows the answer).
LoginResolves ==
  \A i \in Unity : (cli[i].State = "LoggingIn") ~> (cli[i].State # "LoggingIn")

-----------------------------------------------------------------------------
(* A claim of the client's comments that the code does not keep.           *)

\* "reconnected, and in a room before: straight back to the battle, the rebind
\* of the server will send the full snapshot": a client that shows a battle,
\* with nothing under way, is in a room.
BattleShownIsReal ==
  \A i \in Unity : Quiet(i) /\ cli[i].State = "InBattle"
    => state[connToPlayer[sock[i]]] = "kInRoom"
=============================================================================
