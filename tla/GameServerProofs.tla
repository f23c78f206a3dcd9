-------------------------- MODULE GameServerProofs --------------------------
(***************************************************************************)
(* The lobby's invariants hold for every number of connections, accounts,  *)
(* players, rooms and timers.  They need each other, and a few facts about *)
(* timers, ids and sessions, to be inductive: LobbyInv is the conjunction. *)
(***************************************************************************)
EXTENDS GameServer, QueueLemmas

\* Ids are handed out once: what exists is below the next id.
IdsBelowNext ==
  /\ \A p \in sessions : p < nextPlayer
  /\ \A r \in rooms : r < nextRoom
  /\ \A t \in timers : 0 < t.id /\ t.id < nextTimer /\ t.pid < nextPlayer
  /\ \A p \in Players : matchTimer[p] < nextTimer

\* Sessions have an account; without a session there is no connection; a
\* connection that has sent nothing is bound to nobody.
SessionsClean ==
  /\ \A p \in sessions : account[p] \in Accounts
  /\ \A p \in Players \ sessions : conn[p] = NoConn
  /\ \A c \in fresh : connToPlayer[c] = 0

\* A timer is identified by its id, and the id in matchTimer_ is never that of
\* somebody else's timer or of an expiry.
TimersOwned ==
  /\ \A t, u \in timers : t.id = u.id => t = u
  /\ \A t \in timers, p \in Players :
        t.id = matchTimer[p] => t.kind = "match" /\ t.pid = p

LobbyInv ==
  /\ TypeOK /\ IdsBelowNext /\ SessionsClean /\ TimersOwned
  /\ BindingOneToOne /\ QueueMatchesState /\ InRoomIsRouted /\ ExpiryExact

USE BoundsAssumption, ConnsAssumption, AccountsAssumption DEF Players, RoomIds

-----------------------------------------------------------------------------
(* Room steps touch nothing the lobby's invariants speak of, except types. *)

\* What a step on a room's own loop leaves alone, and the types it keeps.
RoomTypeOK ==
  /\ roomConn \in [RoomIds -> [Players -> Conns \cup {NoConn}]]
  /\ roomPhase \in [RoomIds -> Phases]
  /\ winner \in [RoomIds -> 0..MaxPlayers]
  /\ ticker \in [RoomIds -> BOOLEAN]
  /\ roomQ \in [RoomIds -> Seq(Task)]
  /\ endPosted \subseteq RoomIds

\* The task at the head of a room's FIFO is a task, and so is the rest.
LEMMA HeadTask ==
  ASSUME TypeOK, NEW r \in RoomIds, roomQ[r] # <<>>
  PROVE  /\ Head(roomQ[r]) \in Task /\ Tail(roomQ[r]) \in Seq(Task)
         /\ Head(roomQ[r]).pid \in 0..MaxPlayers
         /\ Head(roomQ[r]).conn \in Conns \cup {NoConn}
<1>1. roomQ[r] \in Seq(Task)
  BY DEF TypeOK
<1>2. Head(roomQ[r]) \in Task /\ Tail(roomQ[r]) \in Seq(Task)
  BY <1>1, HeadTailProperties
<1> QED
  BY <1>2 DEF Task

\* Posting a well-formed task keeps the FIFOs well formed.
LEMMA PostedType ==
  ASSUME TypeOK, NEW r \in RoomIds, NEW op \in Ops,
         NEW p \in 0..MaxPlayers, NEW c \in Conns \cup {NoConn}
  PROVE  Posted(r, op, p, c) \in [RoomIds -> Seq(Task)]
<1> DEFINE t == [op |-> op, pid |-> p, conn |-> c]
<1>1. t \in Task
  BY ZenonT(60) DEF Task
<1>2. roomQ \in [RoomIds -> Seq(Task)]
  BY DEF TypeOK
<1>3. Append(roomQ[r], t) \in Seq(Task)
  BY ZenonT(60), <1>1, <1>2, AppendProperties
<1> QED
  BY ZenonT(60), <1>2, <1>3 DEF Posted

\* So does the post that every handler makes when it finds the player's room.
LEMMA PostedIfFoundType ==
  ASSUME TypeOK, NEW x \in Players, NEW op \in Ops,
         NEW p \in 0..MaxPlayers, NEW c \in Conns \cup {NoConn}
  PROVE  PostedIf(RoomFound(x), roomId[x], op, p, c) \in [RoomIds -> Seq(Task)]
<1>1. CASE RoomFound(x)
  <2>1. roomId[x] \in RoomIds
    BY ZenonT(60), <1>1 DEF RoomFound, TypeOK
  <2>2. Posted(roomId[x], op, p, c) \in [RoomIds -> Seq(Task)]
    BY ZenonT(60), <2>1, PostedType
  <2> QED
    BY ZenonT(60), <1>1, <2>2 DEF PostedIf
<1>2. CASE ~RoomFound(x)
  BY ZenonT(60), <1>2 DEF PostedIf, TypeOK
<1> QED
  BY ZenonT(60), <1>1, <1>2

\* endBattle() keeps the types.
LEMMA EndBattleType ==
  ASSUME TypeOK, NEW r \in RoomIds, NEW w \in 0..MaxPlayers, NEW q \in Seq(Task),
         EndBattle(r, w, q)
  PROVE  /\ roomPhase' \in [RoomIds -> Phases]
         /\ winner' \in [RoomIds -> 0..MaxPlayers]
         /\ roomQ' \in [RoomIds -> Seq(Task)]
         /\ endPosted' \subseteq RoomIds
<1> DEFINE t == [op |-> "resetTicker", pid |-> 0, conn |-> NoConn]
<1>1. t \in Task
  BY DEF Task, Ops
<1>2. Append(q, t) \in Seq(Task)
  BY ZenonT(60), <1>1, AppendProperties
<1> QED
  BY ZenonT(60), <1>2 DEF EndBattle, TypeOK, Phases

\* Every step of a room leaves the lobby's variables alone and keeps the types.
LEMMA RoomStep ==
  ASSUME TypeOK, NEW r \in RoomIds,
         RoomFunctor(r) \/ \E w \in Players : RoomTick(r, w)
  PROVE  UNCHANGED lobbyVars /\ RoomTypeOK'
<1>0. RoomTypeOK
  BY DEF TypeOK, RoomTypeOK
<1> USE DEF RoomTypeOK
<1>1. CASE RoomStart(r)
  BY ZenonT(60), <1>0, <1>1, HeadTask DEF RoomStart, Dequeue, Phases
<1>2. CASE RoomInput(r)
  BY ZenonT(60), <1>0, <1>2, HeadTask DEF RoomInput, Dequeue
<1>3. ASSUME NEW op, RoomBind(r, op)
      PROVE  UNCHANGED lobbyVars /\ RoomTypeOK'
  <2>1. roomQ[r] # <<>>
    BY <1>3 DEF RoomBind, Dequeue
  <2>2. roomConn' \in [RoomIds -> [Players -> Conns \cup {NoConn}]]
    <3> DEFINE t == Head(roomQ[r])
               f == [roomConn[r] EXCEPT ![t.pid] = t.conn]
    <3>1. roomConn' = [roomConn EXCEPT ![r] = f]
      BY <1>3 DEF RoomBind
    <3>2. roomConn \in [RoomIds -> [Players -> Conns \cup {NoConn}]]
      BY <1>0
    <3>3. t.conn \in Conns \cup {NoConn}
      BY <2>1, HeadTask
    <3> HIDE DEF t
    <3>4. f \in [Players -> Conns \cup {NoConn}]
      BY ZenonT(60), <3>2, <3>3
    <3> QED
      BY <3>1, <3>2, <3>4
  <2> QED
    BY ZenonT(60), <1>0, <1>3, <2>1, <2>2, HeadTask DEF RoomBind
<1>4. CASE RoomForceEnd(r)
  <2>1. roomQ[r] # <<>>
    BY <1>4 DEF RoomForceEnd, Dequeue
  <2>2. CASE Ended(r)
    BY ZenonT(60), <1>0, <1>4, <2>1, <2>2, HeadTask DEF RoomForceEnd
  <2>3. CASE ~Ended(r)
    <3>1. EndBattle(r, Head(roomQ[r]).pid, Tail(roomQ[r]))
      BY ZenonT(60), <1>4, <2>3 DEF RoomForceEnd
    <3>2. /\ roomPhase' \in [RoomIds -> Phases]
          /\ winner' \in [RoomIds -> 0..MaxPlayers]
          /\ roomQ' \in [RoomIds -> Seq(Task)]
          /\ endPosted' \subseteq RoomIds
      BY ZenonT(60), <2>1, <3>1, HeadTask, EndBattleType
    <3> QED
      BY ZenonT(60), <1>0, <1>4, <3>2 DEF RoomForceEnd
  <2> QED
    BY ZenonT(60), <2>2, <2>3
<1>5. CASE RoomResetTicker(r)
  BY ZenonT(60), <1>0, <1>5, HeadTask DEF RoomResetTicker, Dequeue
<1>6. ASSUME NEW w \in Players, RoomTick(r, w)
      PROVE  UNCHANGED lobbyVars /\ RoomTypeOK'
  <2>1. roomQ[r] \in Seq(Task) /\ w \in 0..MaxPlayers
    BY SMTT(60), <1>0
  <2>2. /\ roomPhase' \in [RoomIds -> Phases]
        /\ winner' \in [RoomIds -> 0..MaxPlayers]
        /\ roomQ' \in [RoomIds -> Seq(Task)]
        /\ endPosted' \subseteq RoomIds
    BY ZenonT(60), <1>6, <2>1, EndBattleType DEF RoomTick
  <2> QED
    BY ZenonT(60), <1>0, <1>6, <2>2 DEF RoomTick
<1> QED
  BY ZenonT(60), <1>1, <1>2, <1>3, <1>4, <1>5, <1>6 DEF RoomFunctor, RoomRebind, RoomDropConn

-----------------------------------------------------------------------------
(* Lobby steps.  For each handler, one step per conjunct of LobbyInv.      *)

\* The part of TypeOK that is about the lobby's variables.
LobbyTypeOK ==
  /\ fresh \subseteq Conns
  /\ connToPlayer \in [Conns -> 0..MaxPlayers]
  /\ sessions \subseteq Players
  /\ conn \in [Players -> Conns \cup {NoConn}]
  /\ state \in [Players -> States]
  /\ roomId \in [Players -> 0..MaxRooms]
  /\ account \in [Players -> Accounts \cup {NoAccount}]
  /\ expireTimerId \in [Players -> Nat]
  /\ queue \in QueueOf(Players)
  /\ matchTimer \in [Players -> Nat]
  /\ timers \subseteq Timer
  /\ nextTimer \in Nat \ {0}
  /\ nextPlayer \in 1..(MaxPlayers + 1)
  /\ nextRoom \in 1..(MaxRooms + 1)
  /\ rooms \subseteq RoomIds
  /\ members \in [RoomIds -> SUBSET Players]
  /\ online \subseteq Accounts
  /\ records \subseteq Record

\* The two parts make TypeOK.
LEMMA TypeParts == TypeOK <=> LobbyTypeOK /\ RoomTypeOK
  BY ZenonT(60) DEF TypeOK, LobbyTypeOK, RoomTypeOK, QueueOf

\* So they do after a step.
LEMMA TypePartsNext == TypeOK' <=> LobbyTypeOK' /\ RoomTypeOK'
  BY ZenonT(60) DEF TypeOK, LobbyTypeOK, RoomTypeOK, QueueOf

\* ExpiryExact says nothing new when no expiry timer comes or goes.
LEMMA ExpiryKept ==
  ASSUME ExpiryExact, sessions' \subseteq sessions,
         \A x \in sessions' : /\ conn'[x] = conn[x] /\ expireTimerId'[x] = expireTimerId[x]
                               /\ {t \in timers' : t.kind = "expire" /\ t.pid = x}
                                    = {t \in timers : t.kind = "expire" /\ t.pid = x}
  PROVE  ExpiryExact'
<1> SUFFICES ASSUME NEW x \in sessions'
             PROVE  LET mine == {t \in timers' : t.kind = "expire" /\ t.pid = x}
                    IN  IF conn'[x] = NoConn
                          THEN \E t \in mine : mine = {t} /\ t.id = expireTimerId'[x]
                          ELSE mine = {}
  BY DEF ExpiryExact
<1> DEFINE mine == {t \in timers : t.kind = "expire" /\ t.pid = x}
<1>1. IF conn[x] = NoConn
        THEN \E t \in mine : mine = {t} /\ t.id = expireTimerId[x]
        ELSE mine = {}
  BY DEF ExpiryExact
<1> QED
  BY ZenonT(60), <1>1

\* onLogin binds a new player to a fresh connection.
LEMMA LoginStep ==
  ASSUME LobbyInv, NEW c \in Conns, NEW a \in Accounts, OnLogin(c, a)
  PROVE  LobbyInv'
<1> DEFINE p == nextPlayer
<1>1. LobbyTypeOK /\ RoomTypeOK
  BY ZenonT(60), TypeParts DEF LobbyInv
<1>2. p \in Players /\ p \notin sessions /\ c \in fresh /\ connToPlayer[c] = 0
  BY SMTT(60), <1>1 DEF LobbyInv, LobbyTypeOK, IdsBelowNext, OnLogin, SessionsClean
<1>3. TypeOK'
  <2>1. RoomTypeOK'
    BY ZenonT(60), <1>1 DEF RoomTypeOK, OnLogin, roomVars
  <2>2. LobbyTypeOK'
    <3>1. /\ connToPlayer' \in [Conns -> 0..MaxPlayers]
          /\ conn' \in [Players -> Conns \cup {NoConn}]
          /\ account' \in [Players -> Accounts \cup {NoAccount}]
      BY SMTT(60), <1>1, <1>2 DEF LobbyTypeOK, OnLogin
    <3>2. /\ state' \in [Players -> States]
          /\ roomId' \in [Players -> 0..MaxRooms]
          /\ expireTimerId' \in [Players -> Nat]
      BY SMTT(60), <1>1, <1>2 DEF LobbyTypeOK, OnLogin, States
    <3>3. /\ fresh' \subseteq Conns /\ sessions' \subseteq Players
          /\ nextPlayer' \in 1..(MaxPlayers + 1) /\ online' \subseteq Accounts
      BY SMTT(60), <1>1, <1>2 DEF LobbyTypeOK, OnLogin
    <3> QED
      BY ZenonT(60), <1>1, <3>1, <3>2, <3>3 DEF LobbyTypeOK, OnLogin
  <2> QED
    BY ZenonT(60), <2>1, <2>2, TypePartsNext
<1>4. IdsBelowNext'
  BY SMTT(60), <1>1, <1>2 DEF LobbyInv, LobbyTypeOK, IdsBelowNext, OnLogin, Timer
<1>5. SessionsClean'
  BY ZenonT(60), <1>1, <1>2 DEF LobbyInv, LobbyTypeOK, SessionsClean, OnLogin
<1>6. TimersOwned'
  BY DEF LobbyInv, TimersOwned, OnLogin
<1>7. BindingOneToOne'
  BY SMTT(60), <1>1, <1>2 DEF LobbyInv, LobbyTypeOK, BindingOneToOne, OnLogin
<1>8. QueueMatchesState'
  <2>1. /\ sessions' = sessions \cup {p} /\ state'[p] = "kLobby" /\ queue' = queue
        /\ \A x \in sessions : x # p /\ state'[x] = state[x] /\ conn'[x] = conn[x]
    BY ZenonT(60), <1>1, <1>2 DEF LobbyTypeOK, OnLogin
  <2>2. {x \in sessions' : state'[x] = "kMatching"} = {x \in sessions : state[x] = "kMatching"}
    BY <2>1
  <2> QED
    BY <2>1, <2>2 DEF LobbyInv, QueueMatchesState
<1>9. InRoomIsRouted'
  BY SMTT(60), <1>1, <1>2 DEF LobbyInv, LobbyTypeOK, InRoomIsRouted, OnLogin
<1>10. ExpiryExact'
  <2>1. /\ sessions' = sessions \cup {p} /\ timers' = timers /\ conn'[p] # NoConn
        /\ \A x \in sessions : x # p /\ conn'[x] = conn[x]
                               /\ expireTimerId'[x] = expireTimerId[x]
    BY ZenonT(60), <1>1, <1>2 DEF LobbyTypeOK, OnLogin
  <2>2. \A t \in timers : t.pid # p
    BY <1>1 DEF LobbyInv, IdsBelowNext, LobbyTypeOK, Timer
  <2> QED
    BY <2>1, <2>2 DEF LobbyInv, ExpiryExact
<1> QED
  BY ZenonT(60), <1>3, <1>4, <1>5, <1>6, <1>7, <1>8, <1>9, <1>10 DEF LobbyInv

\* A refused reconnect only uses up the connection.
LEMMA RefusedStep ==
  ASSUME LobbyInv, NEW c \in Conns, NEW p \in Players, NEW tokenOk \in BOOLEAN,
         OnReconnectRefused(c, p, tokenOk)
  PROVE  LobbyInv'
<1>1. LobbyTypeOK /\ RoomTypeOK
  BY TypeParts DEF LobbyInv
<1>2. TypeOK'
  BY ZenonT(60), <1>1, TypePartsNext DEF LobbyTypeOK, RoomTypeOK, OnReconnectRefused, roomVars
<1>3. SessionsClean'
  BY DEF LobbyInv, SessionsClean, OnReconnectRefused
<1> QED
  BY SMTT(60), <1>2, <1>3
     DEF LobbyInv, IdsBelowNext, TimersOwned, BindingOneToOne, QueueMatchesState,
         InRoomIsRouted, ExpiryExact, OnReconnectRefused

\* An accepted reconnect withdraws exactly the session's expiry timer.
LEMMA ReconnectStep ==
  ASSUME LobbyInv, NEW c \in Conns, NEW p \in Players, NEW tokenOk \in BOOLEAN,
         OnReconnect(c, p, tokenOk)
  PROVE  LobbyInv'
<1>1. LobbyTypeOK /\ RoomTypeOK
  BY TypeParts DEF LobbyInv
<1>2. /\ p \in sessions /\ conn[p] = NoConn /\ account[p] \in Accounts
      /\ c \in fresh /\ connToPlayer[c] = 0
  BY ZenonT(60), <1>1 DEF LobbyInv, OnReconnect, Refused, SessionsClean
<1>3. timers' = {t \in timers : t.id # expireTimerId[p]}
  BY DEF OnReconnect, Cancelled
<1>4. TypeOK'
  <2>1. roomQ' \in [RoomIds -> Seq(Task)]
    <3>1. TypeOK /\ "rebind" \in Ops /\ p \in 0..MaxPlayers
      BY SMTT(60) DEF LobbyInv, Ops
    <3> QED
      BY ZenonT(60), <3>1, PostedIfFoundType DEF OnReconnect
  <2>2. RoomTypeOK'
    BY ZenonT(60), <1>1, <2>1 DEF RoomTypeOK, OnReconnect
  <2>3. LobbyTypeOK'
    <3>1. /\ connToPlayer' \in [Conns -> 0..MaxPlayers]
          /\ conn' \in [Players -> Conns \cup {NoConn}]
          /\ expireTimerId' \in [Players -> Nat]
      BY SMTT(60), <1>1 DEF LobbyTypeOK, OnReconnect
    <3>2. fresh' \subseteq Conns /\ timers' \subseteq Timer /\ online' \subseteq Accounts
      BY ZenonT(60), <1>1, <1>2, <1>3 DEF LobbyTypeOK, OnReconnect
    <3> QED
      BY ZenonT(60), <1>1, <3>1, <3>2 DEF LobbyTypeOK, OnReconnect
  <2> QED
    BY ZenonT(60), <2>2, <2>3, TypePartsNext
<1>5. IdsBelowNext'
  BY ZenonT(60), <1>1, <1>3 DEF LobbyInv, IdsBelowNext, OnReconnect
<1>6. SessionsClean'
  BY ZenonT(60), <1>1, <1>2 DEF LobbyInv, LobbyTypeOK, SessionsClean, OnReconnect
<1>7. TimersOwned'
  BY ZenonT(60), <1>3 DEF LobbyInv, TimersOwned, OnReconnect
<1>8. BindingOneToOne'
  <2>1. /\ \A x \in sessions : conn[x] # NoConn => connToPlayer[conn[x]] = x
        /\ \A d \in Conns : connToPlayer[d] # 0 =>
              connToPlayer[d] \in sessions /\ conn[connToPlayer[d]] = d
    BY ZenonT(60) DEF LobbyInv, BindingOneToOne
  <2>2. sessions \subseteq Players /\ 0 \notin Players
        /\ conn \in [Players -> Conns \cup {NoConn}]
        /\ connToPlayer \in [Conns -> 0..MaxPlayers]
    BY SMTT(60), <1>1 DEF LobbyTypeOK
  <2>3. sessions' = sessions /\ conn' = [conn EXCEPT ![p] = c]
        /\ connToPlayer' = [connToPlayer EXCEPT ![c] = p]
    BY DEF OnReconnect
  <2>4. /\ conn'[p] = c /\ \A x \in sessions : x # p => conn'[x] = conn[x]
        /\ connToPlayer'[c] = p
        /\ \A d \in Conns : d # c => connToPlayer'[d] = connToPlayer[d]
    BY <2>2, <2>3
  <2>5. ASSUME NEW x \in sessions, conn'[x] # NoConn
        PROVE  connToPlayer'[conn'[x]] = x
    <3>1. CASE x = p
      BY ZenonT(60), <2>4, <3>1
    <3>2. CASE x # p
      <4>1. conn'[x] = conn[x] /\ conn[x] \in Conns /\ connToPlayer[conn[x]] = x /\ x # 0
        BY SMTT(60), <2>1, <2>2, <2>4, <2>5, <3>2
      <4> QED
        BY ZenonT(60), <1>2, <2>4, <4>1
    <3> QED
      BY <3>1, <3>2
  <2>6. ASSUME NEW d \in Conns, connToPlayer'[d] # 0
        PROVE  connToPlayer'[d] \in sessions /\ conn'[connToPlayer'[d]] = d
    <3>1. CASE d = c
      BY ZenonT(60), <1>2, <2>4, <3>1
    <3>2. CASE d # c
      <4>1. connToPlayer'[d] = connToPlayer[d] /\ connToPlayer[d] \in sessions
            /\ conn[connToPlayer[d]] = d
        BY ZenonT(60), <2>1, <2>4, <2>6, <3>2
      <4>2. connToPlayer[d] # p
        BY ZenonT(60), <1>2, <4>1, ConnsAssumption
      <4> QED
        BY ZenonT(60), <2>4, <4>1, <4>2
    <3> QED
      BY ZenonT(60), <3>1, <3>2
  <2> QED
    BY <2>3, <2>5, <2>6 DEF BindingOneToOne
<1>9. QueueMatchesState'
  BY ZenonT(60), <1>1, <1>2 DEF LobbyInv, LobbyTypeOK, QueueMatchesState, OnReconnect
<1>10. InRoomIsRouted'
  BY DEF LobbyInv, InRoomIsRouted, OnReconnect
<1>11. ExpiryExact'
  <2> SUFFICES ASSUME NEW x \in sessions
               PROVE  LET mine == {t \in timers' : t.kind = "expire" /\ t.pid = x}
                      IN  IF conn'[x] = NoConn
                            THEN \E t \in mine : mine = {t} /\ t.id = expireTimerId'[x]
                            ELSE mine = {}
    BY ZenonT(60) DEF ExpiryExact, OnReconnect
  <2> DEFINE old == {t \in timers : t.kind = "expire" /\ t.pid = x}
  <2>1. IF conn[x] = NoConn
          THEN \E t \in old : old = {t} /\ t.id = expireTimerId[x]
          ELSE old = {}
    BY DEF LobbyInv, ExpiryExact
  <2>2. CASE x = p
    <3>1. conn'[x] # NoConn
      BY ZenonT(60), <1>1, <2>2 DEF LobbyTypeOK, OnReconnect
    <3>2. \A t \in timers' : ~(t.kind = "expire" /\ t.pid = x)
      BY ZenonT(60), <1>2, <1>3, <2>1, <2>2
    <3> QED
      BY <3>1, <3>2
  <2>3. CASE x # p
    <3>1. conn'[x] = conn[x] /\ expireTimerId'[x] = expireTimerId[x]
      BY ZenonT(60), <1>1, <2>3 DEF LobbyTypeOK, OnReconnect
    <3>2. PICK e \in timers : e.kind = "expire" /\ e.pid = p /\ e.id = expireTimerId[p]
      BY ZenonT(60), <1>2 DEF LobbyInv, ExpiryExact
    <3>3. \A t \in old : t.id # expireTimerId[p]
      BY SMTT(60), <2>3, <3>2 DEF LobbyInv, TimersOwned
    <3>4. {t \in timers' : t.kind = "expire" /\ t.pid = x} = old
      BY ZenonT(60), <1>3, <3>3
    <3> QED
      BY ZenonT(60), <2>1, <3>1, <3>4
  <2> QED
    BY ZenonT(60), <2>2, <2>3
<1> QED
  BY ZenonT(60), <1>4, <1>5, <1>6, <1>7, <1>8, <1>9, <1>10, <1>11 DEF LobbyInv

\* onInput and refused or ignored messages aside, onMatch has two outcomes.  At
\* most one player waits when it begins: either nobody did and the player now
\* waits alone, or the player is paired with the one who waited.
LEMMA MatchOutcomes ==
  ASSUME LobbyInv, NEW c \in Conns, OnMatch(c), NEW p, p = SessionOf(c)
  PROVE  /\ p \in sessions /\ conn[p] = c /\ state[p] = "kLobby"
         /\ p \notin queue.waiting
         /\ queue' \in QueueOf(Players) /\ Queued(queue')
         /\ \/ /\ queue.waiting = {} /\ queue'.waiting = {p}
               /\ OnMatchWait(p)
            \/ \E x \in queue.waiting :
                 /\ x # p /\ queue.waiting = {x} /\ queue'.waiting = {}
                 /\ \E ab : {ab[1], ab[2]} = {x, p} /\ OnMatchPair(p, ab)
<1>1. LobbyTypeOK
  BY ZenonT(60), TypeParts DEF LobbyInv
<1>2. p \in sessions /\ p = connToPlayer[c] /\ p # 0
  BY ZenonT(60) DEF SessionOf, OnMatch
<1>3. conn[p] = c /\ p \in Players
  BY ZenonT(60), <1>1, <1>2 DEF LobbyInv, LobbyTypeOK, BindingOneToOne
<1>4. state[p] = "kLobby" /\ p \notin queue.waiting
  BY DEF OnMatch, Contains
<1> DEFINE q == Push(queue, p)
           ab == Pair(q)
<1>5. queue \in QueueOf(Players) /\ Queued(queue)
  BY ZenonT(60), <1>1 DEF LobbyInv, LobbyTypeOK, QueueMatchesState, Queued
<1>6. q \in QueueOf(Players) /\ q.waiting = queue.waiting \cup {p} /\ Queued(q)
  BY SMTT(60), <1>3, <1>4, <1>5, PushFacts DEF Contains
<1>7. IsFiniteSet(queue.waiting) /\ IsFiniteSet(q.waiting)
  <2>1. IsFiniteSet(Players)
    BY SMTT(60), FS_Interval
  <2>2. queue.waiting \in SUBSET Players /\ q.waiting \in SUBSET Players
    BY ZenonT(60), <1>5, <1>6 DEF QueueOf
  <2> QED
    BY ZenonT(60), <2>1, <2>2, FS_Subset
<1>8. /\ queue' = PopPair(q)
      /\ IF PairReady(q) /\ {ab[1], ab[2]} \subseteq sessions
           THEN OnMatchPair(p, ab) ELSE OnMatchWait(p)
  BY ZenonT(60) DEF OnMatch
<1>9. \A x, y \in queue.waiting : x = y
  BY ZenonT(60) DEF LobbyInv, QueueMatchesState
<1> HIDE DEF q, ab
<1>10. CASE queue.waiting = {}
  <2>1. Cardinality(q.waiting) = 1
    <3>1. q.waiting = {p}
      BY ZenonT(60), <1>6, <1>10
    <3> QED
      BY ZenonT(60), <3>1, FS_Singleton
  <2>2. ~PairReady(q)
    BY SMTT(60), <2>1 DEF PairReady
  <2>3. PopPair(q) \in QueueOf(Players) /\ PopPair(q).waiting = {p} /\ Queued(PopPair(q))
    BY ZenonT(60), <1>6, <1>10, <2>2, PopNoPairFacts
  <2> QED
    BY ZenonT(60), <1>2, <1>3, <1>4, <1>8, <1>10, <2>2, <2>3
<1>11. CASE queue.waiting # {}
  <2>1. PICK x \in queue.waiting : queue.waiting = {x}
    BY ZenonT(60), <1>9, <1>11
  <2>2. x # p /\ q.waiting = {x, p}
    BY ZenonT(60), <1>4, <1>6, <2>1
  <2>3. PairReady(q)
    <3>1. Cardinality(queue.waiting) = 1
      BY ZenonT(60), <2>1, FS_Singleton
    <3>2. Cardinality(q.waiting) = 2
      BY SMTT(60), <1>4, <1>6, <1>7, <3>1, FS_AddElement
    <3> QED
      BY <3>2 DEF PairReady
  <2>4. /\ ab[1] \in q.waiting /\ ab[2] \in q.waiting /\ ab[1] # ab[2]
        /\ PopPair(q) \in QueueOf(Players)
        /\ PopPair(q).waiting = q.waiting \ {ab[1], ab[2]}
        /\ Queued(PopPair(q))
    BY ZenonT(60), <1>6, <1>7, <2>3, PopPairFacts DEF ab
  <2>5. {ab[1], ab[2]} = {x, p} /\ PopPair(q).waiting = {}
    BY ZenonT(60), <2>2, <2>4
  <2>6. x \in sessions
    BY ZenonT(60), <2>1 DEF LobbyInv, QueueMatchesState
  <2>7. OnMatchPair(p, ab)
    BY ZenonT(60), <1>2, <1>8, <2>3, <2>5, <2>6
  <2> QED
    BY ZenonT(60), <1>2, <1>3, <1>4, <1>8, <2>1, <2>2, <2>4, <2>5, <2>7
<1> QED
  BY ZenonT(60), <1>10, <1>11

\* What onMatch leaves alone, whatever its outcome.
MatchFrame ==
  /\ nextTimer' = nextTimer + 1
  /\ UNCHANGED <<fresh, connToPlayer, sessions, conn, account, expireTimerId,
                 nextPlayer, online, records>>

\* The player waits alone, with a timer of its own.
LEMMA MatchWaitStep ==
  ASSUME LobbyInv, MatchFrame, NEW p \in sessions, conn[p] # NoConn,
         state[p] = "kLobby", OnMatchWait(p),
         queue' \in QueueOf(Players), Queued(queue'),
         queue.waiting = {}, queue'.waiting = {p}
  PROVE  LobbyInv'
<1> DEFINE n == [id |-> nextTimer, kind |-> "match", pid |-> p]
<1>1. LobbyTypeOK /\ RoomTypeOK /\ p \in Players
  BY ZenonT(60), TypeParts DEF LobbyInv, LobbyTypeOK
<1>2. timers' = timers \cup {n}
  BY ZenonT(60) DEF OnMatchWait, Armed
<1>3. /\ n \in Timer /\ n.id = nextTimer /\ n.kind = "match" /\ n.pid = p
      /\ \A t \in timers : t.id # n.id
  BY SMTT(60), <1>1 DEF LobbyTypeOK, Timer, LobbyInv, IdsBelowNext
<1> HIDE DEF n
<1>4. TypeOK'
  <2>1. RoomTypeOK'
    BY ZenonT(60), <1>1 DEF RoomTypeOK, OnMatchWait, roomVars
  <2>2. /\ state' \in [Players -> States]
        /\ matchTimer' \in [Players -> Nat]
        /\ timers' \subseteq Timer
        /\ nextTimer' \in Nat \ {0}
    BY SMTT(60), <1>1, <1>2, <1>3 DEF LobbyTypeOK, OnMatchWait, States, MatchFrame
  <2>3. LobbyTypeOK'
    BY ZenonT(60), <1>1, <2>2 DEF LobbyTypeOK, OnMatchWait, MatchFrame
  <2> QED
    BY ZenonT(60), <2>1, <2>3, TypePartsNext
<1>5. IdsBelowNext'
  <2>1. \A t \in timers : 0 < t.id /\ t.id < nextTimer + 1 /\ t.pid < nextPlayer
    BY SMTT(60), <1>1 DEF LobbyInv, IdsBelowNext, LobbyTypeOK, Timer
  <2>2. 0 < n.id /\ n.id < nextTimer + 1 /\ n.pid < nextPlayer
    BY SMTT(60), <1>1, <1>3 DEF LobbyInv, IdsBelowNext, LobbyTypeOK
  <2>3. \A x \in Players : matchTimer'[x] < nextTimer + 1
    <3>1. matchTimer' = [matchTimer EXCEPT ![p] = nextTimer]
      BY ZenonT(60) DEF OnMatchWait
    <3>2. /\ matchTimer \in [Players -> Nat] /\ nextTimer \in Nat
          /\ \A x \in Players : matchTimer[x] < nextTimer
      BY ZenonT(60), <1>1 DEF LobbyTypeOK, LobbyInv, IdsBelowNext
    <3> QED
      BY SMTT(60), <3>1, <3>2
  <2> QED
    BY ZenonT(60), <1>2, <2>1, <2>2, <2>3 DEF LobbyInv, IdsBelowNext, OnMatchWait, MatchFrame
<1>6. SessionsClean'
  BY ZenonT(60) DEF LobbyInv, SessionsClean, MatchFrame
<1>7. TimersOwned'
  <2>1. \A t, u \in timers' : t.id = u.id => t = u
    BY SMTT(60), <1>2, <1>3 DEF LobbyInv, TimersOwned
  <2>2. ASSUME NEW t \in timers', NEW x \in Players, t.id = matchTimer'[x]
        PROVE  t.kind = "match" /\ t.pid = x
    <3>1. CASE x = p
      BY ZenonT(60), <1>1, <1>2, <1>3, <2>2, <3>1 DEF LobbyTypeOK, OnMatchWait
    <3>2. CASE x # p
      <4>1. matchTimer'[x] = matchTimer[x] /\ matchTimer[x] # nextTimer
        BY SMTT(60), <1>1, <3>2 DEF LobbyTypeOK, OnMatchWait, LobbyInv, IdsBelowNext
      <4> QED
        BY SMTT(60), <1>2, <1>3, <2>2, <4>1 DEF LobbyInv, TimersOwned
    <3> QED
      BY ZenonT(60), <3>1, <3>2
  <2> QED
    BY ZenonT(60), <2>1, <2>2 DEF TimersOwned
<1>8. BindingOneToOne'
  BY ZenonT(60) DEF LobbyInv, BindingOneToOne, MatchFrame
<1>9. QueueMatchesState'
  <2>1. state'[p] = "kMatching" /\ \A x \in sessions : x # p => state'[x] = state[x]
    BY ZenonT(60), <1>1 DEF LobbyTypeOK, OnMatchWait
  <2>2. \A x \in sessions : state[x] # "kMatching"
    BY ZenonT(60) DEF LobbyInv, QueueMatchesState
  <2>3. {x \in sessions : state'[x] = "kMatching"} = {p}
    BY ZenonT(60), <2>1, <2>2
  <2> QED
    BY ZenonT(60), <2>3 DEF QueueMatchesState, Queued, MatchFrame
<1>10. InRoomIsRouted'
  BY ZenonT(60), <1>1 DEF LobbyInv, LobbyTypeOK, InRoomIsRouted, OnMatchWait, MatchFrame
<1>11. ExpiryExact'
  <2>1. \A x : {t \in timers' : t.kind = "expire" /\ t.pid = x}
              = {t \in timers : t.kind = "expire" /\ t.pid = x}
    BY ZenonT(60), <1>2, <1>3
  <2> QED
    BY ZenonT(60), <2>1, ExpiryKept DEF LobbyInv, MatchFrame
<1> QED
  BY ZenonT(60), <1>4, <1>5, <1>6, <1>7, <1>8, <1>9, <1>10, <1>11 DEF LobbyInv

\* The player is paired with the one who waited: the room is new, and exactly the
\* match timers of the two are gone.
LEMMA MatchPairStep ==
  ASSUME LobbyInv, MatchFrame, NEW p \in sessions, state[p] = "kLobby",
         NEW x \in queue.waiting, x # p, queue.waiting = {x},
         NEW ab, {ab[1], ab[2]} = {x, p}, OnMatchPair(p, ab),
         queue' \in QueueOf(Players), queue'.waiting = {}
  PROVE  LobbyInv'
<1> DEFINE r == nextRoom
<1>1. LobbyTypeOK /\ RoomTypeOK /\ p \in Players
  BY ZenonT(60), TypeParts DEF LobbyInv, LobbyTypeOK
<1>2. x \in sessions /\ x \in Players /\ state[x] = "kMatching"
  BY ZenonT(60), <1>1 DEF LobbyInv, QueueMatchesState, LobbyTypeOK
<1>3. /\ r \in RoomIds /\ r # 0 /\ r \notin rooms /\ nextRoom' = r + 1
      /\ rooms' = rooms \cup {r}
      /\ members' = [members EXCEPT ![r] = {x, p}]
      /\ state' = [y \in Players |-> IF y \in {x, p} THEN "kInRoom" ELSE state[y]]
      /\ roomId' = [y \in Players |-> IF y \in {x, p} THEN r ELSE roomId[y]]
      /\ \A y \in Players : matchTimer'[y] = IF y \in {x, p} THEN 0 ELSE matchTimer[y]
      /\ matchTimer' \in [Players -> Nat]
  <2>1. r \in RoomIds /\ r # 0 /\ r \notin rooms
    BY <1>1 DEF LobbyTypeOK, LobbyInv, IdsBelowNext, OnMatchPair
  <2>2. /\ nextRoom' = r + 1 /\ rooms' = rooms \cup {r}
        /\ members' = [members EXCEPT ![r] = {x, p}]
        /\ state' = [y \in Players |-> IF y \in {x, p} THEN "kInRoom" ELSE state[y]]
        /\ roomId' = [y \in Players |-> IF y \in {x, p} THEN r ELSE roomId[y]]
    BY ZenonT(60) DEF OnMatchPair
  <2>3. /\ matchTimer' = [y \in Players |-> IF y \in {x, p} THEN 0
                            ELSE [matchTimer EXCEPT ![p] = nextTimer][y]]
        /\ matchTimer \in [Players -> Nat]
    BY ZenonT(60), <1>1 DEF OnMatchPair, LobbyTypeOK
  <2>4. \A y \in Players : matchTimer'[y] = IF y \in {x, p} THEN 0 ELSE matchTimer[y]
    BY ZenonT(60), <2>3
  <2>5. matchTimer' \in [Players -> Nat]
    BY ZenonT(60), <2>3, <2>4
  <2> QED
    BY SMTT(60), <2>1, <2>2, <2>4, <2>5
<1>4. timers' = {t \in timers : t.id # matchTimer[x]}
  <2> DEFINE n  == [id |-> nextTimer, kind |-> "match", pid |-> p]
             mt == [matchTimer EXCEPT ![p] = nextTimer]
  <2>1. timers' = {t \in timers \cup {n} : t.id \notin {mt[y] : y \in {x, p}}}
    BY ZenonT(60) DEF OnMatchPair, Cancelled, Armed
  <2>2. mt[p] = nextTimer /\ mt[x] = matchTimer[x]
    BY ZenonT(60), <1>1, <1>2 DEF LobbyTypeOK
  <2>3. {mt[y] : y \in {x, p}} = {matchTimer[x], nextTimer}
    BY ZenonT(60), <2>2
  <2>4. n.id = nextTimer /\ \A t \in timers : t.id # nextTimer
    BY SMTT(60), <1>1 DEF LobbyTypeOK, LobbyInv, IdsBelowNext, Timer
  <2> HIDE DEF n, mt
  <2> QED
    BY ZenonT(60), <2>1, <2>3, <2>4
<1>5. TypeOK'
  <2>1. roomQ' \in [RoomIds -> Seq(Task)]
    <3>1. "start" \in Ops /\ 0 \in 0..MaxPlayers /\ NoConn \in Conns \cup {NoConn}
      BY SMTT(60) DEF Ops
    <3>2. Posted(r, "start", 0, NoConn) \in [RoomIds -> Seq(Task)]
      BY ZenonT(60), <1>3, <3>1, PostedType DEF LobbyInv
    <3> QED
      BY ZenonT(60), <3>2 DEF OnMatchPair
  <2>2. roomConn' \in [RoomIds -> [Players -> Conns \cup {NoConn}]]
    <3> DEFINE f == [y \in Players |-> IF y \in {ab[1], ab[2]} THEN conn[y] ELSE NoConn]
    <3>1. f \in [Players -> Conns \cup {NoConn}]
      BY ZenonT(60), <1>1 DEF LobbyTypeOK
    <3>2. roomConn' = [roomConn EXCEPT ![r] = f]
      BY ZenonT(60) DEF OnMatchPair
    <3> HIDE DEF f
    <3> QED
      BY ZenonT(60), <1>1, <1>3, <3>1, <3>2 DEF RoomTypeOK
  <2>3. roomPhase' \in [RoomIds -> Phases] /\ UNCHANGED <<winner, ticker, endPosted>>
    BY ZenonT(60), <1>1, <1>3 DEF OnMatchPair, RoomTypeOK, Phases
  <2>4. RoomTypeOK'
    BY ZenonT(60), <1>1, <2>1, <2>2, <2>3 DEF RoomTypeOK
  <2>5. /\ state' \in [Players -> States] /\ roomId' \in [Players -> 0..MaxRooms]
        /\ timers' \subseteq Timer /\ nextTimer' \in Nat \ {0}
    BY SMTT(60), <1>1, <1>3, <1>4 DEF LobbyTypeOK, States, MatchFrame
  <2>6. /\ nextRoom' \in 1..(MaxRooms + 1) /\ rooms' \subseteq RoomIds
        /\ members' \in [RoomIds -> SUBSET Players]
    <3>1. nextRoom' \in 1..(MaxRooms + 1) /\ rooms' \subseteq RoomIds
      BY SMTT(60), <1>1, <1>3 DEF LobbyTypeOK
    <3>2. {x, p} \in SUBSET Players /\ members \in [RoomIds -> SUBSET Players]
      BY ZenonT(60), <1>1, <1>2 DEF LobbyTypeOK
    <3>3. members' \in [RoomIds -> SUBSET Players]
      BY ZenonT(60), <1>3, <3>2
    <3> QED
      BY <3>1, <3>3
  <2>7. LobbyTypeOK'
    BY ZenonT(60), <1>1, <1>3, <2>5, <2>6 DEF LobbyTypeOK, MatchFrame
  <2> QED
    BY ZenonT(60), <2>4, <2>7, TypePartsNext
<1>6. IdsBelowNext'
  <2>1. \A t \in timers' : 0 < t.id /\ t.id < nextTimer + 1 /\ t.pid < nextPlayer
    BY SMTT(60), <1>1, <1>4 DEF LobbyInv, IdsBelowNext, LobbyTypeOK, Timer
  <2>2. \A y \in Players : matchTimer'[y] < nextTimer + 1
    <3>1. /\ matchTimer \in [Players -> Nat] /\ nextTimer \in Nat
          /\ \A y \in Players : matchTimer[y] < nextTimer
      BY ZenonT(60), <1>1 DEF LobbyTypeOK, LobbyInv, IdsBelowNext
    <3> QED
      BY SMTT(60), <1>3, <3>1
  <2>3. \A y \in rooms' : y < nextRoom'
    BY SMTT(60), <1>1, <1>3 DEF LobbyInv, IdsBelowNext, LobbyTypeOK
  <2> QED
    BY ZenonT(60), <2>1, <2>2, <2>3 DEF LobbyInv, IdsBelowNext, MatchFrame
<1>7. SessionsClean'
  BY ZenonT(60) DEF LobbyInv, SessionsClean, MatchFrame
<1>8. TimersOwned'
  <2>1. \A t \in timers' : t \in timers /\ t.id # 0
    BY SMTT(60), <1>1, <1>4 DEF LobbyInv, IdsBelowNext, LobbyTypeOK, Timer
  <2>2. \A t, u \in timers' : t.id = u.id => t = u
    BY ZenonT(60), <2>1 DEF LobbyInv, TimersOwned
  <2>3. ASSUME NEW t \in timers', NEW y \in Players, t.id = matchTimer'[y]
        PROVE  t.kind = "match" /\ t.pid = y
    <3>1. matchTimer'[y] = matchTimer[y]
      BY ZenonT(60), <1>3, <2>1, <2>3
    <3> QED
      BY SMTT(60), <2>1, <2>3, <3>1 DEF LobbyInv, TimersOwned
  <2> QED
    BY ZenonT(60), <2>2, <2>3 DEF TimersOwned
<1>9. BindingOneToOne'
  BY ZenonT(60) DEF LobbyInv, BindingOneToOne, MatchFrame
<1>10. QueueMatchesState'
  <2>1. \A y \in sessions : state[y] = "kMatching" => y = x
    BY ZenonT(60) DEF LobbyInv, QueueMatchesState
  <2>2. \A y \in sessions : state'[y] # "kMatching"
    BY ZenonT(60), <1>1, <1>3, <2>1 DEF LobbyTypeOK
  <2> QED
    BY ZenonT(60), <2>2 DEF QueueMatchesState, MatchFrame
<1>11. InRoomIsRouted'
  <2> SUFFICES ASSUME NEW y \in sessions
               PROVE  /\ state'[y] = "kInRoom" <=> roomId'[y] # 0
                      /\ roomId'[y] # 0 => roomId'[y] \in rooms' /\ y \in members'[roomId'[y]]
    BY ZenonT(60) DEF InRoomIsRouted, MatchFrame
  <2>1. y \in Players
    BY ZenonT(60), <1>1 DEF LobbyTypeOK
  <2>2. CASE y \in {x, p}
    BY ZenonT(60), <1>1, <1>3, <2>1, <2>2 DEF LobbyTypeOK
  <2>3. CASE y \notin {x, p}
    <3>1. state'[y] = state[y] /\ roomId'[y] = roomId[y]
      BY ZenonT(60), <1>3, <2>1, <2>3
    <3>2. /\ state[y] = "kInRoom" <=> roomId[y] # 0
          /\ roomId[y] # 0 => roomId[y] \in rooms /\ y \in members[roomId[y]]
      BY ZenonT(60) DEF LobbyInv, InRoomIsRouted
    <3> QED
      BY ZenonT(60), <1>1, <1>3, <3>1, <3>2 DEF LobbyTypeOK
  <2> QED
    BY ZenonT(60), <2>2, <2>3
<1>12. ExpiryExact'
  <2>1. \A t \in timers : t.kind = "expire" => t.id # matchTimer[x]
    BY ZenonT(60), <1>2 DEF LobbyInv, TimersOwned
  <2>2. \A y : {t \in timers' : t.kind = "expire" /\ t.pid = y}
              = {t \in timers : t.kind = "expire" /\ t.pid = y}
    BY ZenonT(60), <1>4, <2>1
  <2> QED
    BY ZenonT(60), <2>2, ExpiryKept DEF LobbyInv, MatchFrame
<1> QED
  BY SMTT(60), <1>5, <1>6, <1>7, <1>8, <1>9, <1>10, <1>11, <1>12 DEF LobbyInv

\* onMatch, by its two outcomes.
LEMMA MatchStep ==
  ASSUME LobbyInv, NEW c \in Conns, OnMatch(c)
  PROVE  LobbyInv'
<1> DEFINE p == SessionOf(c)
<1>1. MatchFrame
  BY ZenonT(60) DEF OnMatch, MatchFrame
<1>2. /\ p \in sessions /\ conn[p] = c /\ state[p] = "kLobby"
      /\ queue' \in QueueOf(Players) /\ Queued(queue')
      /\ \/ /\ queue.waiting = {} /\ queue'.waiting = {p}
            /\ OnMatchWait(p)
         \/ \E x \in queue.waiting :
              /\ x # p /\ queue.waiting = {x} /\ queue'.waiting = {}
              /\ \E ab : {ab[1], ab[2]} = {x, p} /\ OnMatchPair(p, ab)
  BY ZenonT(60), MatchOutcomes
<1> HIDE DEF p
<1>3. conn[p] # NoConn
  BY ZenonT(60), <1>2, ConnsAssumption
<1>4. CASE queue.waiting = {} /\ queue'.waiting = {p} /\ OnMatchWait(p)
  BY ZenonT(60), <1>1, <1>2, <1>3, <1>4, MatchWaitStep
<1>5. CASE \E x \in queue.waiting :
             /\ x # p /\ queue.waiting = {x} /\ queue'.waiting = {}
             /\ \E ab : {ab[1], ab[2]} = {x, p} /\ OnMatchPair(p, ab)
  BY ZenonT(60), <1>1, <1>2, <1>5, MatchPairStep
<1> QED
  BY ZenonT(60), <1>2, <1>4, <1>5

\* onInput only posts to a room.
LEMMA InputStep ==
  ASSUME LobbyInv, NEW c \in Conns, OnInput(c)
  PROVE  UNCHANGED lobbyVars /\ RoomTypeOK'
<1> DEFINE p == SessionOf(c)
<1>1. LobbyTypeOK /\ RoomTypeOK
  BY TypeParts DEF LobbyInv
<1>2. p \in sessions /\ p \in Players /\ p \in 0..MaxPlayers
  BY ZenonT(60), <1>1 DEF OnInput, SessionOf, LobbyTypeOK
<1>3. roomId[p] \in RoomIds /\ roomQ' = Posted(roomId[p], "input", p, NoConn)
  BY ZenonT(60), <1>1, <1>2 DEF OnInput, RoomFound, LobbyTypeOK
<1>4. "input" \in Ops /\ NoConn \in Conns \cup {NoConn} /\ TypeOK
  BY ZenonT(60) DEF Ops, LobbyInv
<1>5. roomQ' \in [RoomIds -> Seq(Task)]
  BY ZenonT(60), <1>2, <1>3, <1>4, PostedType
<1> QED
  BY ZenonT(60), <1>1, <1>5 DEF OnInput, RoomTypeOK

\* onDisconnect always finds the session, and arms its only expiry timer.
LEMMA DisconnectStep ==
  ASSUME LobbyInv, NEW c \in Conns, OnDisconnect(c)
  PROVE  LobbyInv'
<1> DEFINE p == connToPlayer[c]
           n == [id |-> nextTimer, kind |-> "expire", pid |-> p]
<1>1. LobbyTypeOK /\ RoomTypeOK
  BY TypeParts DEF LobbyInv
<1>2. p \in sessions /\ p \in Players /\ p # 0 /\ conn[p] = c /\ c # NoConn
      /\ account[p] \in Accounts
  BY ZenonT(60), <1>1 DEF LobbyInv, LobbyTypeOK, BindingOneToOne, OnDisconnect, SessionsClean
<1>3. /\ connToPlayer' = [connToPlayer EXCEPT ![c] = 0]
      /\ conn' = [conn EXCEPT ![p] = NoConn]
      /\ queue' = IF state[p] = "kMatching" THEN Remove(queue, p) ELSE queue
      /\ state' = [state EXCEPT ![p] = IF @ = "kMatching" THEN "kLobby" ELSE @]
      /\ roomQ' = PostedIf(RoomFound(p), roomId[p], "dropConn", p, NoConn)
      /\ expireTimerId' = [expireTimerId EXCEPT ![p] = nextTimer]
      /\ timers' = timers \cup {n}
      /\ nextTimer' = nextTimer + 1
      /\ online' = online \ {account[p]}
  BY ZenonT(60), <1>2 DEF OnDisconnect, Armed, Offline
<1>4. UNCHANGED <<fresh, sessions, roomId, account, matchTimer, nextPlayer,
                  nextRoom, rooms, members, records,
                  roomConn, roomPhase, winner, ticker, endPosted>>
  BY ZenonT(60) DEF OnDisconnect
<1>5. /\ n \in Timer /\ n.id = nextTimer /\ n.kind = "expire" /\ n.pid = p
      /\ \A t \in timers : t.id # n.id
  BY SMTT(60), <1>1, <1>2 DEF LobbyTypeOK, Timer, LobbyInv, IdsBelowNext
<1> HIDE DEF n
<1>6. queue' \in QueueOf(Players) /\ queue'.waiting = queue.waiting \ {p} /\ Queued(queue')
  <2>1. queue \in QueueOf(Players) /\ Queued(queue)
    BY ZenonT(60), <1>1 DEF LobbyTypeOK, LobbyInv, QueueMatchesState, Queued
  <2>2. state[p] # "kMatching" => p \notin queue.waiting
    BY ZenonT(60) DEF LobbyInv, QueueMatchesState
  <2>3. CASE state[p] = "kMatching"
    <3>1. queue' = Remove(queue, p)
      BY ZenonT(60), <1>3, <2>3
    <3> QED
      BY SMTT(60), <2>1, <3>1, RemoveFacts
  <2>4. CASE state[p] # "kMatching"
    <3>1. queue' = queue /\ queue.waiting = queue.waiting \ {p}
      BY ZenonT(60), <1>3, <2>2, <2>4
    <3> QED
      BY ZenonT(60), <2>1, <3>1
  <2> QED
    BY ZenonT(60), <2>3, <2>4
<1>7. TypeOK'
  <2>1. "dropConn" \in Ops /\ p \in 0..MaxPlayers /\ NoConn \in Conns \cup {NoConn}
    BY SMTT(60), <1>2 DEF Ops
  <2>2. roomQ' \in [RoomIds -> Seq(Task)]
    BY ZenonT(60), <1>2, <1>3, <2>1, PostedIfFoundType DEF LobbyInv
  <2>3. RoomTypeOK'
    BY ZenonT(60), <1>1, <1>4, <2>2 DEF RoomTypeOK
  <2>4. /\ connToPlayer' \in [Conns -> 0..MaxPlayers]
        /\ conn' \in [Players -> Conns \cup {NoConn}]
    <3>1. /\ connToPlayer \in [Conns -> 0..MaxPlayers] /\ 0 \in 0..MaxPlayers
          /\ conn \in [Players -> Conns \cup {NoConn}]
      BY SMTT(60), <1>1 DEF LobbyTypeOK
    <3> HIDE DEF p
    <3> QED
      BY <1>3, <3>1, ZenonT(60)
  <2>8. /\ nextTimer \in Nat \ {0} /\ expireTimerId \in [Players -> Nat]
        /\ nextTimer' = nextTimer + 1
        /\ expireTimerId' = [expireTimerId EXCEPT ![p] = nextTimer]
    BY ZenonT(60), <1>1, <1>3 DEF LobbyTypeOK
  <2>9. nextTimer' \in Nat \ {0} /\ expireTimerId' \in [Players -> Nat]
    <3> HIDE DEF p
    <3>1. nextTimer' \in Nat \ {0}
      BY SMTT(60), <2>8
    <3> QED
      BY <2>8, <3>1, ZenonT(60)
  <2>5. state' \in [Players -> States]
    BY ZenonT(60), <1>1, <1>3 DEF LobbyTypeOK, States
  <2>6. timers' \subseteq Timer /\ online' \subseteq Accounts
    BY ZenonT(60), <1>1, <1>3, <1>5 DEF LobbyTypeOK
  <2>10. /\ fresh' \subseteq Conns /\ sessions' \subseteq Players
         /\ roomId' \in [Players -> 0..MaxRooms]
         /\ account' \in [Players -> Accounts \cup {NoAccount}]
         /\ matchTimer' \in [Players -> Nat]
         /\ nextPlayer' \in 1..(MaxPlayers + 1) /\ nextRoom' \in 1..(MaxRooms + 1)
         /\ rooms' \subseteq RoomIds /\ members' \in [RoomIds -> SUBSET Players]
         /\ records' \subseteq Record
    BY ZenonT(60), <1>1, <1>4 DEF LobbyTypeOK
  <2>7. LobbyTypeOK'
    BY ZenonT(60), <1>6, <2>4, <2>5, <2>6, <2>9, <2>10 DEF LobbyTypeOK
  <2> QED
    BY ZenonT(60), <2>3, <2>7, TypePartsNext
<1>8. IdsBelowNext'
  <2>1. \A t \in timers' : 0 < t.id /\ t.id < nextTimer + 1 /\ t.pid < nextPlayer
    BY SMTT(60), <1>1, <1>2, <1>3, <1>5 DEF LobbyInv, IdsBelowNext, LobbyTypeOK, Timer
  <2>2. /\ matchTimer \in [Players -> Nat] /\ nextTimer \in Nat
        /\ \A y \in Players : matchTimer[y] < nextTimer
    BY ZenonT(60), <1>1 DEF LobbyTypeOK, LobbyInv, IdsBelowNext
  <2>3. \A y \in Players : matchTimer[y] < nextTimer + 1
    BY SMTT(60), <2>2
  <2> QED
    BY ZenonT(60), <1>3, <1>4, <2>1, <2>3 DEF LobbyInv, IdsBelowNext
<1>9. SessionsClean'
  BY ZenonT(60), <1>1, <1>2, <1>3, <1>4 DEF LobbyInv, LobbyTypeOK, SessionsClean
<1>10. TimersOwned'
  <2>1. \A t, u \in timers' : t.id = u.id => t = u
    BY ZenonT(60), <1>3, <1>5 DEF LobbyInv, TimersOwned
  <2>2. \A y \in Players : matchTimer[y] # n.id
    BY SMTT(60), <1>1, <1>5 DEF LobbyInv, IdsBelowNext, LobbyTypeOK
  <2> QED
    BY ZenonT(60), <1>3, <1>4, <2>1, <2>2 DEF LobbyInv, TimersOwned
<1>11. BindingOneToOne'
  <2>1. /\ \A x \in sessions : conn[x] # NoConn => connToPlayer[conn[x]] = x
        /\ \A d \in Conns : connToPlayer[d] # 0 =>
              connToPlayer[d] \in sessions /\ conn[connToPlayer[d]] = d
    BY ZenonT(60) DEF LobbyInv, BindingOneToOne
  <2>2. /\ connToPlayer'[c] = 0 /\ conn'[p] = NoConn
        /\ \A d \in Conns : d # c => connToPlayer'[d] = connToPlayer[d]
        /\ \A x \in sessions : x # p => conn'[x] = conn[x]
    BY ZenonT(60), <1>1, <1>2, <1>3 DEF LobbyTypeOK
  <2>3. \A x \in sessions : conn[x] # NoConn => conn[x] \in Conns
    BY ZenonT(60), <1>1 DEF LobbyTypeOK
  <2>6. connToPlayer[c] = p
    BY ZenonT(60)
  <2> HIDE DEF p
  <2>4. \A x \in sessions : conn'[x] # NoConn => connToPlayer'[conn'[x]] = x
    <3> SUFFICES ASSUME NEW x \in sessions, conn'[x] # NoConn
                 PROVE  connToPlayer'[conn'[x]] = x
      BY Zenon
    <3>1. x # p /\ conn'[x] = conn[x]
      BY ZenonT(60), <2>2
    <3>2. conn[x] \in Conns /\ connToPlayer[conn[x]] = x
      BY ZenonT(60), <2>1, <2>3, <3>1
    <3>3. conn[x] # c
      BY ZenonT(60), <2>6, <3>1, <3>2
    <3> QED
      BY ZenonT(60), <2>2, <3>1, <3>2, <3>3
  <2>5. \A d \in Conns : connToPlayer'[d] # 0 =>
              connToPlayer'[d] \in sessions /\ conn'[connToPlayer'[d]] = d
    <3> SUFFICES ASSUME NEW d \in Conns, connToPlayer'[d] # 0
                 PROVE  connToPlayer'[d] \in sessions /\ conn'[connToPlayer'[d]] = d
      BY ZenonT(60)
    <3>1. d # c /\ connToPlayer'[d] = connToPlayer[d]
      BY ZenonT(60), <2>2
    <3>2. connToPlayer[d] \in sessions /\ conn[connToPlayer[d]] = d
      BY ZenonT(60), <2>1, <3>1
    <3>3. connToPlayer[d] # p
      BY ZenonT(60), <1>2, <3>1, <3>2
    <3> QED
      BY ZenonT(60), <2>2, <3>1, <3>2, <3>3
  <2> QED
    BY ZenonT(60), <1>4, <2>4, <2>5 DEF BindingOneToOne
<1>12. QueueMatchesState'
  <2>1. /\ conn'[p] = NoConn /\ state'[p] # "kMatching"
        /\ \A x \in sessions : x # p => state'[x] = state[x] /\ conn'[x] = conn[x]
    BY ZenonT(60), <1>1, <1>2, <1>3 DEF LobbyTypeOK
  <2>2. queue'.waiting = {x \in sessions : state'[x] = "kMatching"}
    BY SMTT(60), <1>6, <2>1 DEF LobbyInv, QueueMatchesState
  <2> QED
    BY SMTT(60), <1>4, <1>6, <2>1, <2>2 DEF LobbyInv, QueueMatchesState, Queued
<1>13. InRoomIsRouted'
  <2>1. \A x \in sessions : state'[x] = "kInRoom" <=> state[x] = "kInRoom"
    BY ZenonT(60), <1>1, <1>2, <1>3 DEF LobbyTypeOK
  <2> QED
    BY ZenonT(60), <1>4, <2>1 DEF LobbyInv, InRoomIsRouted
<1>14. ExpiryExact'
  <2> SUFFICES ASSUME NEW x \in sessions
               PROVE  LET mine == {t \in timers' : t.kind = "expire" /\ t.pid = x}
                      IN  IF conn'[x] = NoConn
                            THEN \E t \in mine : mine = {t} /\ t.id = expireTimerId'[x]
                            ELSE mine = {}
    BY ZenonT(60), <1>4 DEF ExpiryExact
  <2> DEFINE old == {t \in timers : t.kind = "expire" /\ t.pid = x}
             new == {t \in timers' : t.kind = "expire" /\ t.pid = x}
  <2>1. IF conn[x] = NoConn
          THEN \E t \in old : old = {t} /\ t.id = expireTimerId[x]
          ELSE old = {}
    BY ZenonT(60) DEF LobbyInv, ExpiryExact
  <2>2. CASE x = p
    <3>1. old = {} /\ conn'[x] = NoConn /\ expireTimerId'[x] = nextTimer
      BY ZenonT(60), <1>1, <1>2, <1>3, <2>1, <2>2 DEF LobbyTypeOK
    <3>2. new = {n}
      BY ZenonT(60), <1>3, <1>5, <2>2, <3>1
    <3> QED
      BY ZenonT(60), <1>5, <3>1, <3>2
  <2>3. CASE x # p
    <3>1. conn'[x] = conn[x] /\ expireTimerId'[x] = expireTimerId[x]
      BY ZenonT(60), <1>1, <1>3, <2>3 DEF LobbyTypeOK
    <3>2. new = old
      BY ZenonT(60), <1>3, <1>5, <2>3
    <3> QED
      BY ZenonT(60), <2>1, <3>1, <3>2
  <2> QED
    BY ZenonT(60), <2>2, <2>3
<1> QED
  BY SMTT(60), <1>7, <1>8, <1>9, <1>10, <1>11, <1>12, <1>13, <1>14 DEF LobbyInv

\* The callback of a match timer leaves the lobby consistent, stale or not.
LEMMA MatchTimeoutStep ==
  ASSUME LobbyInv, NEW t \in timers, MatchTimeout(t)
  PROVE  LobbyInv'
<1> DEFINE p == t.pid
<1>1. LobbyTypeOK /\ RoomTypeOK
  BY ZenonT(60), TypeParts DEF LobbyInv
<1>2. p \in Players /\ t.kind = "match"
  BY ZenonT(60), <1>1 DEF LobbyTypeOK, Timer, MatchTimeout
<1>3. /\ timers' = timers \ {t}
      /\ matchTimer' = [matchTimer EXCEPT ![p] = 0]
      /\ UNCHANGED <<fresh, connToPlayer, sessions, conn, roomId, account,
                     expireTimerId, nextTimer, nextPlayer, nextRoom, rooms,
                     members, online, records>>
      /\ UNCHANGED <<roomConn, roomPhase, winner, ticker, roomQ, endPosted>>
  BY ZenonT(60) DEF MatchTimeout, roomVars
<1>4. /\ queue \in QueueOf(Players) /\ Queued(queue)
      /\ p \in queue.waiting => p \in sessions /\ state[p] = "kMatching"
  BY ZenonT(60), <1>1 DEF LobbyTypeOK, LobbyInv, QueueMatchesState, Queued
<1>5. /\ queue' = IF p \in queue.waiting THEN Remove(queue, p) ELSE queue
      /\ state' = [state EXCEPT ![p] = IF p \in queue.waiting THEN "kLobby" ELSE @]
  BY ZenonT(60), <1>4 DEF MatchTimeout, Contains
<1>6. queue' \in QueueOf(Players) /\ queue'.waiting = queue.waiting \ {p} /\ Queued(queue')
  BY SMTT(60), <1>4, <1>5, RemoveFacts
<1>7. /\ \A x \in Players : x # p => state'[x] = state[x]
      /\ state'[p] = IF p \in queue.waiting THEN "kLobby" ELSE state[p]
      /\ state' \in [Players -> States]
  BY ZenonT(60), <1>1, <1>2, <1>5 DEF LobbyTypeOK, States
<1>8. matchTimer' \in [Players -> Nat]
      /\ \A x \in Players : matchTimer'[x] = IF x = p THEN 0 ELSE matchTimer[x]
  BY ZenonT(60), <1>1, <1>2, <1>3 DEF LobbyTypeOK
<1> HIDE DEF p
<1>9. TypeOK'
  <2>1. RoomTypeOK'
    BY ZenonT(60), <1>1, <1>3 DEF RoomTypeOK
  <2>2. LobbyTypeOK'
    BY ZenonT(60), <1>1, <1>3, <1>6, <1>7, <1>8 DEF LobbyTypeOK
  <2> QED
    BY ZenonT(60), <2>1, <2>2, TypePartsNext
<1>10. IdsBelowNext'
  <2>1. nextTimer \in Nat \ {0} /\ \A x \in Players : matchTimer[x] < nextTimer
    BY ZenonT(60), <1>1 DEF LobbyTypeOK, LobbyInv, IdsBelowNext
  <2>2. \A x \in Players : matchTimer'[x] < nextTimer
    BY SMTT(60), <1>8, <2>1
  <2> QED
    BY <1>3, <2>2 DEF LobbyInv, IdsBelowNext
<1>11. SessionsClean'
  BY ZenonT(60), <1>3 DEF LobbyInv, SessionsClean
<1>12. TimersOwned'
  <2>1. \A u \in timers : u.id # 0
    BY SMTT(60) DEF LobbyInv, IdsBelowNext
  <2> QED
    BY SMTT(60), <1>3, <1>8, <2>1 DEF LobbyInv, TimersOwned
<1>13. BindingOneToOne'
  BY <1>3 DEF LobbyInv, BindingOneToOne
<1>14. QueueMatchesState'
  <2>1. sessions \subseteq Players
    BY <1>1 DEF LobbyTypeOK
  <2>2. queue'.waiting = {x \in sessions : state'[x] = "kMatching"}
    BY ZenonT(60), <1>2, <1>6, <1>7, <2>1 DEF LobbyInv, QueueMatchesState
  <2> QED
    BY ZenonT(60), <1>3, <1>6, <2>2 DEF LobbyInv, QueueMatchesState, Queued
<1>15. InRoomIsRouted'
  <2>1. sessions \subseteq Players
    BY <1>1 DEF LobbyTypeOK
  <2>2. \A x \in sessions : state'[x] = "kInRoom" <=> state[x] = "kInRoom"
    BY ZenonT(60), <1>2, <1>4, <1>7, <2>1
  <2> QED
    BY ZenonT(60), <1>3, <2>2 DEF LobbyInv, InRoomIsRouted
<1>16. ExpiryExact'
  BY ZenonT(60), <1>2, <1>3, ExpiryKept DEF LobbyInv
<1> QED
  BY SMTT(60), <1>9, <1>10, <1>11, <1>12, <1>13, <1>14, <1>15, <1>16 DEF LobbyInv

\* expireSession never meets a connected session, and erases the one it finds.
LEMMA ExpireStep ==
  ASSUME LobbyInv, NEW t \in timers, ExpireSession(t)
  PROVE  LobbyInv'
<1> DEFINE p == t.pid
<1>1. LobbyTypeOK /\ RoomTypeOK
  BY TypeParts DEF LobbyInv
<1>2. p \in Players /\ t.kind = "expire"
  BY ZenonT(60), <1>1 DEF LobbyTypeOK, Timer, ExpireSession
<1>3. /\ timers' = timers \ {t}
      /\ UNCHANGED <<fresh, connToPlayer, conn, account, queue, matchTimer,
                     nextTimer, nextPlayer, nextRoom, rooms, members, online,
                     records>>
      /\ UNCHANGED <<roomConn, roomPhase, winner, ticker, endPosted>>
  BY ZenonT(60) DEF ExpireSession
<1>4. p \in sessions => conn[p] = NoConn
  BY ZenonT(60), <1>2 DEF LobbyInv, ExpiryExact
<1>5. /\ sessions' = sessions \ {p}
      /\ roomQ' \in [RoomIds -> Seq(Task)]
      /\ state' \in [Players -> States] /\ roomId' \in [Players -> 0..MaxRooms]
      /\ expireTimerId' \in [Players -> Nat]
      /\ \A x \in Players : x # p => /\ state'[x] = state[x] /\ roomId'[x] = roomId[x]
                                    /\ expireTimerId'[x] = expireTimerId[x]
  <2>1. CASE p \in sessions
    <3>1. /\ sessions' = sessions \ {p}
          /\ roomQ' = PostedIf(RoomFound(p), roomId[p], "forceEnd", Opponent(p), NoConn)
          /\ state' = [state EXCEPT ![p] = "kLobby"]
          /\ roomId' = [roomId EXCEPT ![p] = 0]
          /\ expireTimerId' = [expireTimerId EXCEPT ![p] = 0]
      BY ZenonT(60), <1>4, <2>1 DEF ExpireSession
    <3>2. Opponent(p) \in 0..MaxPlayers
      <4>1. sessions \subseteq 0..MaxPlayers /\ 0 \in 0..MaxPlayers
        BY SMTT(60), <1>1 DEF LobbyTypeOK
      <4> DEFINE others == {o \in sessions : roomId[o] = roomId[p] /\ o # p}
      <4>2. others # {} => (CHOOSE o \in others : TRUE) \in others
        BY ZenonT(60)
      <4>3. Opponent(p) = IF others = {} THEN 0 ELSE CHOOSE o \in others : TRUE
        BY ZenonT(60) DEF Opponent
      <4> QED
        BY ZenonT(60), <4>1, <4>2, <4>3
    <3>3. "forceEnd" \in Ops /\ NoConn \in Conns \cup {NoConn} /\ TypeOK
      BY ZenonT(60) DEF Ops, LobbyInv
    <3>4. roomQ' \in [RoomIds -> Seq(Task)]
      BY ZenonT(60), <1>2, <3>1, <3>2, <3>3, PostedIfFoundType
    <3>5. /\ state \in [Players -> States] /\ roomId \in [Players -> 0..MaxRooms]
          /\ expireTimerId \in [Players -> Nat]
          /\ "kLobby" \in States /\ 0 \in 0..MaxRooms /\ 0 \in Nat
      BY SMTT(60), <1>1 DEF LobbyTypeOK, States
    <3> HIDE DEF p
    <3>6. /\ state' \in [Players -> States] /\ roomId' \in [Players -> 0..MaxRooms]
          /\ expireTimerId' \in [Players -> Nat]
      BY <3>1, <3>5, ZenonT(60)
    <3>7. \A x \in Players : x # p => /\ state'[x] = state[x] /\ roomId'[x] = roomId[x]
                                     /\ expireTimerId'[x] = expireTimerId[x]
      BY ZenonT(60), <3>1, <3>5
    <3> QED
      BY ZenonT(60), <3>1, <3>4, <3>6, <3>7
  <2>2. CASE p \notin sessions
    <3>1. UNCHANGED <<sessions, roomQ, state, roomId, expireTimerId>>
      BY ZenonT(60), <2>2 DEF ExpireSession
    <3> QED
      BY SMTT(60), <1>1, <2>2, <3>1 DEF LobbyTypeOK, RoomTypeOK
  <2> QED
    BY ZenonT(60), <2>1, <2>2
<1>6. p \notin queue.waiting /\ sessions \subseteq Players
  BY ZenonT(60), <1>1, <1>4 DEF LobbyInv, QueueMatchesState, LobbyTypeOK
<1>7. TypeOK'
  <2>1. RoomTypeOK'
    BY ZenonT(60), <1>1, <1>3, <1>5 DEF RoomTypeOK
  <2>2. LobbyTypeOK'
    BY ZenonT(60), <1>1, <1>3, <1>5 DEF LobbyTypeOK
  <2> QED
    BY <2>1, <2>2, TypePartsNext
<1>8. \A x \in sessions' : x \in sessions /\ x \in Players /\ x # p /\ x # t.pid
  BY ZenonT(60), <1>5, <1>6
<1>9. ExpiryExact'
  <2>1. \A x \in sessions' : {u \in timers' : u.kind = "expire" /\ u.pid = x}
                              = {u \in timers : u.kind = "expire" /\ u.pid = x}
    BY ZenonT(60), <1>3, <1>8
  <2>2. \A x \in sessions' : conn'[x] = conn[x] /\ expireTimerId'[x] = expireTimerId[x]
    BY ZenonT(60), <1>3, <1>5, <1>8
  <2>3. sessions' \subseteq sessions /\ ExpiryExact
    BY ZenonT(60), <1>8 DEF LobbyInv
  <2> QED
    BY ZenonT(60), <2>1, <2>2, <2>3, ExpiryKept
<1> HIDE DEF p
<1>10. IdsBelowNext'
  BY ZenonT(60), <1>3, <1>8 DEF LobbyInv, IdsBelowNext
<1>11. SessionsClean'
  <2>1. \A x \in Players \ sessions' : conn[x] = NoConn
    BY ZenonT(60), <1>4, <1>5 DEF LobbyInv, SessionsClean
  <2> QED
    BY ZenonT(60), <1>3, <1>8, <2>1 DEF LobbyInv, SessionsClean
<1>12. TimersOwned'
  BY ZenonT(60), <1>3 DEF LobbyInv, TimersOwned
<1>13. BindingOneToOne'
  <2>1. \A c \in Conns : connToPlayer[c] # 0 =>
          connToPlayer[c] \in sessions' /\ conn[connToPlayer[c]] = c
    BY SMTT(60), <1>4, <1>5, ConnsAssumption DEF LobbyInv, BindingOneToOne
  <2> QED
    BY ZenonT(60), <1>3, <1>8, <2>1 DEF LobbyInv, BindingOneToOne
<1>14. QueueMatchesState'
  <2>1. queue.waiting = {x \in sessions' : state'[x] = "kMatching"}
    <3>1. queue.waiting = {x \in sessions : state[x] = "kMatching"}
      BY ZenonT(60) DEF LobbyInv, QueueMatchesState
    <3>2. \A x \in sessions' : state'[x] = state[x]
      BY ZenonT(60), <1>5, <1>8
    <3>3. sessions' = sessions \ {p}
      BY ZenonT(60), <1>5
    <3> QED
      BY ZenonT(60), <1>6, <3>1, <3>2, <3>3
  <2> QED
    BY ZenonT(60), <1>3, <2>1 DEF LobbyInv, QueueMatchesState
<1>15. InRoomIsRouted'
  BY ZenonT(60), <1>3, <1>5, <1>8 DEF LobbyInv, InRoomIsRouted
<1> QED
  BY ZenonT(60), <1>7, <1>9, <1>10, <1>11, <1>12, <1>13, <1>14, <1>15 DEF LobbyInv

\* onRoomEnd erases the room and unroutes exactly the sessions that were in it.
LEMMA RoomEndStep ==
  ASSUME LobbyInv, NEW r \in RoomIds, OnRoomEnd(r)
  PROVE  LobbyInv'
<1> DEFINE inRoom == {p \in sessions : roomId[p] = r}
<1>1. LobbyTypeOK /\ RoomTypeOK
  BY ZenonT(60), TypeParts DEF LobbyInv
<1>2. /\ endPosted' = endPosted \ {r}
      /\ rooms' = rooms \ {r}
      /\ roomId' = [p \in Players |-> IF p \in inRoom THEN 0 ELSE roomId[p]]
      /\ state' = [p \in Players |-> IF p \in inRoom THEN "kLobby" ELSE state[p]]
      /\ records' = records \cup Result(r, inRoom)
      /\ UNCHANGED <<fresh, connToPlayer, sessions, conn, account,
                     expireTimerId, queue, matchTimer, timers, nextTimer,
                     nextPlayer, nextRoom, members, online>>
      /\ UNCHANGED <<roomConn, roomPhase, winner, ticker, roomQ>>
  BY ZenonT(60) DEF OnRoomEnd, SentBack
<1>3. Result(r, inRoom) \subseteq Record
  <2>1. \A p \in inRoom : account[p] \in Accounts
    BY ZenonT(60) DEF LobbyInv, SessionsClean
  <2> HIDE DEF inRoom
  <2> QED
    BY SMTT(60), <2>1 DEF Result, Record
<1>4. r # 0 /\ sessions \subseteq Players
      /\ \A p \in inRoom : p \in sessions /\ roomId[p] = r /\ state[p] = "kInRoom"
  BY SMTT(60), <1>1 DEF LobbyTypeOK, LobbyInv, InRoomIsRouted
<1>5. \A p \in sessions \ inRoom : roomId[p] # r
  OBVIOUS
<1> HIDE DEF inRoom
<1>6. /\ \A p \in inRoom : state'[p] = "kLobby" /\ roomId'[p] = 0
      /\ \A p \in Players \ inRoom : state'[p] = state[p] /\ roomId'[p] = roomId[p]
  BY ZenonT(60), <1>2, <1>4
<1>7. TypeOK'
  <2>1. RoomTypeOK'
    BY ZenonT(60), <1>1, <1>2 DEF RoomTypeOK
  <2>2. state' \in [Players -> States] /\ roomId' \in [Players -> 0..MaxRooms]
    BY SMTT(60), <1>1, <1>2 DEF LobbyTypeOK, States
  <2>3. rooms' \subseteq RoomIds /\ records' \subseteq Record
    BY ZenonT(60), <1>1, <1>2, <1>3 DEF LobbyTypeOK
  <2>4. LobbyTypeOK'
    BY ZenonT(60), <1>1, <1>2, <2>2, <2>3 DEF LobbyTypeOK
  <2> QED
    BY ZenonT(60), <2>1, <2>4, TypePartsNext
<1>8. IdsBelowNext'
  BY ZenonT(60), <1>2 DEF LobbyInv, IdsBelowNext
<1>9. SessionsClean' /\ TimersOwned' /\ BindingOneToOne'
  BY ZenonT(60), <1>2 DEF LobbyInv, SessionsClean, TimersOwned, BindingOneToOne
<1>10. ExpiryExact'
  BY ZenonT(60), <1>2, ExpiryKept DEF LobbyInv
<1>11. QueueMatchesState'
  <2>1. \A p \in sessions : state'[p] = "kMatching" <=> state[p] = "kMatching"
    BY ZenonT(60), <1>4, <1>6
  <2>2. queue.waiting = {p \in sessions : state'[p] = "kMatching"}
    BY ZenonT(60), <2>1 DEF LobbyInv, QueueMatchesState
  <2> QED
    BY ZenonT(60), <1>2, <2>2 DEF LobbyInv, QueueMatchesState
<1>12. InRoomIsRouted'
  <2> SUFFICES ASSUME NEW p \in sessions
               PROVE  /\ state'[p] = "kInRoom" <=> roomId'[p] # 0
                      /\ roomId'[p] # 0 => roomId'[p] \in rooms' /\ p \in members'[roomId'[p]]
    BY ZenonT(60), <1>2 DEF InRoomIsRouted
  <2>1. CASE p \in inRoom
    BY ZenonT(60), <1>6, <2>1
  <2>2. CASE p \notin inRoom
    <3>1. state'[p] = state[p] /\ roomId'[p] = roomId[p] /\ roomId[p] # r
      BY ZenonT(60), <1>4, <1>5, <1>6, <2>2
    <3>2. /\ state[p] = "kInRoom" <=> roomId[p] # 0
          /\ roomId[p] # 0 => roomId[p] \in rooms /\ p \in members[roomId[p]]
      BY ZenonT(60) DEF LobbyInv, InRoomIsRouted
    <3>3. rooms' = rooms \ {r} /\ members' = members
      BY ZenonT(60), <1>2
    <3> QED
      BY ZenonT(60), <3>1, <3>2, <3>3
  <2> QED
    BY ZenonT(60), <2>1, <2>2
<1> QED
  BY ZenonT(60), <1>7, <1>8, <1>9, <1>10, <1>11, <1>12 DEF LobbyInv

-----------------------------------------------------------------------------
(* The invariant, and what follows from it.                                *)

\* The server starts with no session, no timer and an empty queue.
LEMMA LobbyInvInit == Init => LobbyInv
<1> SUFFICES ASSUME Init PROVE LobbyInv
  BY ZenonT(60)
<1>1. queue \in QueueOf(Players) /\ queue.waiting = {}
  BY SMTT(60) DEF Init, EmptyQueue, QueueOf
<1>2. RoomTypeOK
  <2>1. \A r \in RoomIds : roomQ[r] \in Seq(Task)
    BY SMTT(60) DEF Init
  <2>2. roomQ = [r \in RoomIds |-> <<>>]
    BY ZenonT(60) DEF Init
  <2>3. roomQ \in [RoomIds -> Seq(Task)]
    BY ZenonT(60), <2>1, <2>2
  <2> QED
    BY SMTT(60), <2>3 DEF Init, RoomTypeOK, Phases
<1>3. LobbyTypeOK
  BY SMTT(60), <1>1 DEF Init, LobbyTypeOK, States
<1>4. TypeOK
  BY ZenonT(60), <1>2, <1>3, TypeParts
<1>5. IdsBelowNext /\ SessionsClean /\ TimersOwned
  BY SMTT(60) DEF Init, IdsBelowNext, SessionsClean, TimersOwned
<1>6. BindingOneToOne /\ InRoomIsRouted /\ ExpiryExact
  BY ZenonT(60) DEF Init, BindingOneToOne, InRoomIsRouted, ExpiryExact
<1>7. QueueMatchesState
  BY ZenonT(60), <1>1 DEF Init, QueueMatchesState
<1> QED
  BY ZenonT(60), <1>4, <1>5, <1>6, <1>7 DEF LobbyInv

\* What the lobby's invariants speak of is kept by steps that change only rooms.
LEMMA LobbyUnchanged ==
  ASSUME LobbyInv, UNCHANGED lobbyVars, RoomTypeOK'
  PROVE  LobbyInv'
<1>1. LobbyTypeOK
  BY ZenonT(60), TypeParts DEF LobbyInv
<1>2. LobbyTypeOK'
  BY ZenonT(60), <1>1 DEF LobbyTypeOK, lobbyVars
<1>3. TypeOK'
  BY <1>2, TypePartsNext
<1>4. IdsBelowNext' /\ SessionsClean' /\ TimersOwned'
  BY ZenonT(60) DEF LobbyInv, lobbyVars, IdsBelowNext, SessionsClean, TimersOwned
<1>5. BindingOneToOne' /\ InRoomIsRouted' /\ ExpiryExact'
  BY DEF LobbyInv, lobbyVars, BindingOneToOne, InRoomIsRouted, ExpiryExact
<1>6. QueueMatchesState'
  BY ZenonT(60) DEF LobbyInv, lobbyVars, QueueMatchesState
<1> QED
  BY ZenonT(60), <1>3, <1>4, <1>5, <1>6 DEF LobbyInv

\* Every step of the system keeps the lobby's invariant.
LEMMA LobbyInvStep == LobbyInv /\ [Next]_vars => LobbyInv'
<1> SUFFICES ASSUME LobbyInv, [Next]_vars PROVE LobbyInv'
  BY ZenonT(60)
<1>1. CASE \E c \in Conns, a \in Accounts : OnLogin(c, a)
  BY ZenonT(60), <1>1, LoginStep
<1>2. CASE \E c \in Conns, p \in Players, tokenOk \in BOOLEAN : OnReconnect(c, p, tokenOk)
  BY ZenonT(60), <1>2, ReconnectStep
<1>3. CASE \E c \in Conns, p \in Players, tokenOk \in BOOLEAN :
             OnReconnectRefused(c, p, tokenOk)
  BY ZenonT(60), <1>3, RefusedStep
<1>4. CASE \E c \in Conns : OnMatch(c)
  BY ZenonT(60), <1>4, MatchStep
<1>5. CASE \E c \in Conns : OnInput(c)
  BY ZenonT(60), <1>5, InputStep, LobbyUnchanged
<1>6. CASE \E c \in Conns : OnDisconnect(c)
  BY <1>6, DisconnectStep
<1>7. CASE \E t \in timers : MatchTimeout(t)
  BY ZenonT(60), <1>7, MatchTimeoutStep
<1>8. CASE \E t \in timers : ExpireSession(t)
  BY ZenonT(60), <1>8, ExpireStep
<1>9. CASE \E r \in RoomIds : OnRoomEnd(r)
  BY ZenonT(60), <1>9, RoomEndStep
<1>10. CASE \E r \in RoomIds : RoomFunctor(r) \/ \E w \in Players : RoomTick(r, w)
  <2>1. UNCHANGED lobbyVars /\ RoomTypeOK'
    BY ZenonT(60), <1>10, RoomStep DEF LobbyInv
  <2> QED
    BY ZenonT(60), <2>1, LobbyUnchanged
<1>11. CASE UNCHANGED vars
  <2>1. RoomTypeOK /\ UNCHANGED lobbyVars /\ UNCHANGED roomVars
    BY ZenonT(60), <1>11, TypeParts DEF LobbyInv, vars
  <2>2. RoomTypeOK'
    BY ZenonT(60), <2>1 DEF RoomTypeOK, roomVars
  <2> QED
    BY ZenonT(60), <2>1, <2>2, LobbyUnchanged
<1> QED
  BY SMTT(60), <1>1, <1>2, <1>3, <1>4, <1>5, <1>6, <1>7, <1>8, <1>9, <1>10, <1>11
     DEF Next, TimerFires

\* LobbyInv is an inductive invariant of the lobby with its rooms.
THEOREM LobbyInvHolds == Spec => []LobbyInv
  BY LobbyInvInit, LobbyInvStep, PTL DEF Spec

\* Every variable keeps its type; a result that onRoomEnd stores names two
\* accounts.
THEOREM TypeOKHolds == Spec => []TypeOK
<1>1. LobbyInv => TypeOK
  BY DEF LobbyInv
<1> QED
  BY <1>1, LobbyInvHolds, PTL

\* connToPlayer_ and Session::conn are inverse to each other whatever logins,
\* reconnects, disconnects and expiries interleave.
THEOREM BindingOneToOneHolds == Spec => []BindingOneToOne
<1>1. LobbyInv => BindingOneToOne
  BY ZenonT(60) DEF LobbyInv
<1> QED
  BY <1>1, LobbyInvHolds, PTL

\* The match queue holds exactly the matching sessions, all connected, so the
\* sessions tryMatch looks up are there and their connections are not null.
THEOREM QueueMatchesStateHolds == Spec => []QueueMatchesState
<1>1. LobbyInv => QueueMatchesState
  BY ZenonT(60) DEF LobbyInv
<1> QED
  BY <1>1, LobbyInvHolds, PTL

\* A session in a room is in a room that rooms_ holds and that was made for it.
THEOREM InRoomIsRoutedHolds == Spec => []InRoomIsRouted
<1>1. LobbyInv => InRoomIsRouted
  BY ZenonT(60) DEF LobbyInv
<1> QED
  BY <1>1, LobbyInvHolds, PTL

\* A disconnected session has exactly one expiry timer pending, the one it can
\* withdraw, and a connected session has none.
THEOREM ExpiryExactHolds == Spec => []ExpiryExact
<1>1. LobbyInv => ExpiryExact
  BY ZenonT(60) DEF LobbyInv
<1> QED
  BY <1>1, LobbyInvHolds, PTL

-----------------------------------------------------------------------------
(* The online keys.                                                        *)

\* A player id that is still to be handed out has no account, so no session can
\* share one with it.
OnlineInv ==
  /\ OnlineUnlessShared
  /\ \A p \in Players : p >= nextPlayer => account[p] = NoAccount

\* The steps that change neither sessions, accounts nor keys, or remove a
\* session without a connection.
LEMMA OnlineKept ==
  ASSUME LobbyTypeOK, OnlineInv, UNCHANGED <<conn, account, online, nextPlayer>>,
         sessions' \subseteq sessions,
         \A p \in sessions \ sessions' : conn[p] = NoConn
  PROVE  OnlineInv'
  BY ZenonT(60) DEF LobbyTypeOK, OnlineInv, OnlineUnlessShared

\* A login sets the key of its account.
LEMMA OnlineLogin ==
  ASSUME LobbyInv, OnlineInv, NEW c \in Conns, NEW a \in Accounts, OnLogin(c, a)
  PROVE  OnlineInv'
<1> DEFINE p == nextPlayer
<1>1. LobbyTypeOK /\ SessionsClean /\ IdsBelowNext
  BY ZenonT(60), TypeParts DEF LobbyInv
<1>2. p \in Players /\ p \notin sessions /\ account[p] = NoAccount /\ p \in Nat
  BY SMTT(60), <1>1, BoundsAssumption
     DEF LobbyTypeOK, IdsBelowNext, OnlineInv, OnLogin, Players
<1>3. /\ nextPlayer' = p + 1 /\ sessions' = sessions \cup {p}
      /\ conn' = [conn EXCEPT ![p] = c] /\ account' = [account EXCEPT ![p] = a]
      /\ online' = online \cup {a}
  BY ZenonT(60) DEF OnLogin
<1>4. c # NoConn
  BY ZenonT(60), ConnsAssumption
<1>5. /\ conn'[p] = c /\ account'[p] = a
      /\ \A q \in Players : q # p => conn'[q] = conn[q] /\ account'[q] = account[q]
  BY ZenonT(60), <1>1, <1>2, <1>3 DEF LobbyTypeOK
<1>6. ASSUME NEW b \in online'
      PROVE  \E q \in sessions' : conn'[q] # NoConn /\ account'[q] = b
  BY SMTT(60), <1>1, <1>2, <1>3, <1>4, <1>5, <1>6
     DEF LobbyTypeOK, OnlineInv, OnlineUnlessShared
<1>7. ASSUME NEW q \in sessions', conn'[q] # NoConn
      PROVE  account'[q] \in online' \/ \E x \in Players \ {q} : account'[x] = account'[q]
  <2>1. CASE q = p
    BY SMTT(60), <1>3, <1>5, <2>1
  <2>2. CASE q # p
    <3>1. q \in sessions /\ q \in Players /\ conn[q] # NoConn /\ account'[q] = account[q]
      BY ZenonT(60), <1>1, <1>3, <1>5, <1>7, <2>2 DEF LobbyTypeOK
    <3>2. account[q] # NoAccount
      BY ZenonT(60), <1>1, <3>1, AccountsAssumption DEF SessionsClean
    <3> QED
      BY SMTT(60), <1>2, <1>3, <1>5, <3>1, <3>2 DEF OnlineInv, OnlineUnlessShared
  <2> QED
    BY ZenonT(60), <2>1, <2>2
<1>8. \A q \in Players : q >= nextPlayer' => account'[q] = NoAccount
  BY SMTT(60), <1>1, <1>2, <1>3, <1>5 DEF LobbyTypeOK, OnlineInv, Players
<1> QED
  BY ZenonT(60), <1>6, <1>7, <1>8 DEF OnlineInv, OnlineUnlessShared

\* A reconnect sets the key again.
LEMMA OnlineReconnect ==
  ASSUME LobbyInv, OnlineInv, NEW c \in Conns, NEW p \in Players, NEW ok \in BOOLEAN,
         OnReconnect(c, p, ok)
  PROVE  OnlineInv'
<1>1. LobbyTypeOK
  BY TypeParts DEF LobbyInv
<1>2. /\ p \in sessions /\ conn' = [conn EXCEPT ![p] = c] /\ online' = online \cup {account[p]}
      /\ UNCHANGED <<sessions, account, nextPlayer>>
  BY ZenonT(60) DEF OnReconnect, Refused
<1>3. conn'[p] # NoConn /\ \A q \in Players : q # p => conn'[q] = conn[q]
  BY ZenonT(60), <1>1, <1>2, ConnsAssumption DEF LobbyTypeOK
<1>4. sessions \subseteq Players
  BY ZenonT(60), <1>1 DEF LobbyTypeOK
<1>5. ASSUME NEW b \in online'
      PROVE  \E q \in sessions' : conn'[q] # NoConn /\ account'[q] = b
  <2>1. CASE b = account[p]
    BY ZenonT(60), <1>2, <1>3, <2>1
  <2>2. CASE b # account[p]
    <3>1. PICK q \in sessions : conn[q] # NoConn /\ account[q] = b
      BY ZenonT(60), <1>2, <1>5, <2>2 DEF OnlineInv, OnlineUnlessShared
    <3> QED
      BY ZenonT(60), <1>2, <1>3, <1>4, <2>2, <3>1
  <2> QED
    BY ZenonT(60), <2>1, <2>2
<1>6. ASSUME NEW q \in sessions', conn'[q] # NoConn
      PROVE  account'[q] \in online' \/ \E x \in Players \ {q} : account'[x] = account'[q]
  <2>1. CASE q = p
    BY ZenonT(60), <1>2, <2>1
  <2>2. CASE q # p
    <3>1. q \in sessions /\ conn[q] # NoConn
      BY ZenonT(60), <1>2, <1>3, <1>4, <1>6, <2>2
    <3> QED
      BY ZenonT(60), <1>2, <3>1 DEF OnlineInv, OnlineUnlessShared
  <2> QED
    BY ZenonT(60), <2>1, <2>2
<1> QED
  BY ZenonT(60), <1>2, <1>5, <1>6 DEF OnlineInv, OnlineUnlessShared

\* A disconnect clears the key: a session of the account that is still connected
\* shares it with the one that left.
LEMMA OnlineDisconnect ==
  ASSUME LobbyInv, OnlineInv, NEW c \in Conns, OnDisconnect(c)
  PROVE  OnlineInv'
<1> DEFINE p == connToPlayer[c]
<1>1. LobbyTypeOK
  BY TypeParts DEF LobbyInv
<1>2. p \in sessions /\ p \in Players
  BY ZenonT(60), <1>1 DEF LobbyInv, LobbyTypeOK, BindingOneToOne, OnDisconnect, SessionsClean
<1>3. /\ conn' = [conn EXCEPT ![p] = NoConn] /\ online' = online \ {account[p]}
      /\ UNCHANGED <<sessions, account, nextPlayer>>
  BY ZenonT(60), <1>2 DEF OnDisconnect, Offline
<1>4. conn'[p] = NoConn /\ \A q \in Players : q # p => conn'[q] = conn[q]
  BY ZenonT(60), <1>1, <1>2, <1>3 DEF LobbyTypeOK
<1>5. sessions \subseteq Players
  BY ZenonT(60), <1>1 DEF LobbyTypeOK
<1>6. ASSUME NEW b \in online'
      PROVE  \E q \in sessions' : conn'[q] # NoConn /\ account'[q] = b
  <2>1. b \in online /\ b # account[p]
    BY ZenonT(60), <1>3, <1>6
  <2>2. PICK q \in sessions : conn[q] # NoConn /\ account[q] = b
    BY ZenonT(60), <2>1 DEF OnlineInv, OnlineUnlessShared
  <2> QED
    BY ZenonT(60), <1>3, <1>4, <1>5, <2>1, <2>2
<1>7. ASSUME NEW q \in sessions', conn'[q] # NoConn
      PROVE  account'[q] \in online' \/ \E x \in Players \ {q} : account'[x] = account'[q]
  <2>1. q # p /\ q \in sessions /\ conn[q] # NoConn
    BY ZenonT(60), <1>3, <1>4, <1>5, <1>7
  <2>2. CASE account[q] = account[p]
    BY ZenonT(60), <1>2, <1>3, <2>1, <2>2
  <2>3. CASE account[q] # account[p]
    BY ZenonT(60), <1>3, <2>1, <2>3 DEF OnlineInv, OnlineUnlessShared
  <2> QED
    BY ZenonT(60), <2>2, <2>3
<1> QED
  BY ZenonT(60), <1>3, <1>6, <1>7 DEF OnlineInv, OnlineUnlessShared

\* onMatch, the timers and the end of a room leave connections and keys alone.
LEMMA OnlineOthers ==
  ASSUME LobbyInv, OnlineInv,
         \/ \E c \in Conns : OnMatch(c) \/ OnInput(c)
         \/ \E c \in Conns, p \in Players, ok \in BOOLEAN : OnReconnectRefused(c, p, ok)
         \/ TimerFires
         \/ \E r \in RoomIds : OnRoomEnd(r)
         \/ UNCHANGED lobbyVars
  PROVE  OnlineInv'
<1>1. LobbyTypeOK
  BY TypeParts DEF LobbyInv
<1>2. CASE \E c \in Conns : OnMatch(c)
  <2>1. UNCHANGED <<sessions, conn, account, online, nextPlayer>>
    BY ZenonT(60), <1>2 DEF OnMatch, OnMatchWait, OnMatchPair
  <2> QED
    BY <1>1, <2>1, OnlineKept
<1>3. CASE \E t \in timers : ExpireSession(t)
  <2>1. PICK t \in timers : ExpireSession(t)
    BY ZenonT(60), <1>3
  <2>2. UNCHANGED <<conn, account, online, nextPlayer>>
    BY ZenonT(60), <2>1 DEF ExpireSession
  <2>3. sessions' = sessions \/ (conn[t.pid] = NoConn /\ sessions' = sessions \ {t.pid})
    BY ZenonT(60), <2>1 DEF ExpireSession
  <2>4. sessions' \subseteq sessions /\ \A q \in sessions \ sessions' : conn[q] = NoConn
    BY ZenonT(60), <2>3
  <2> QED
    BY ZenonT(60), <1>1, <2>2, <2>4, OnlineKept
<1>4. CASE \/ \E c \in Conns : OnInput(c)
           \/ \E c \in Conns, p \in Players, ok \in BOOLEAN : OnReconnectRefused(c, p, ok)
           \/ \E t \in timers : MatchTimeout(t)
           \/ \E r \in RoomIds : OnRoomEnd(r)
           \/ UNCHANGED lobbyVars
  <2> DEFINE kept == UNCHANGED <<sessions, conn, account, online, nextPlayer>>
  <2>1. ASSUME NEW c \in Conns, OnInput(c) PROVE kept
    BY ZenonT(60), <2>1 DEF OnInput, lobbyVars
  <2>2. ASSUME NEW c \in Conns, NEW p \in Players, NEW ok \in BOOLEAN,
               OnReconnectRefused(c, p, ok)
        PROVE  kept
    BY ZenonT(60), <2>2 DEF OnReconnectRefused
  <2>3. ASSUME NEW t \in timers, MatchTimeout(t) PROVE kept
    BY ZenonT(60), <2>3 DEF MatchTimeout
  <2>4. ASSUME NEW r \in RoomIds, OnRoomEnd(r) PROVE kept
    BY ZenonT(60), <2>4 DEF OnRoomEnd
  <2>5. CASE UNCHANGED lobbyVars
    <3>1. kept
      BY ZenonT(60), <2>5 DEF lobbyVars
    <3> QED
      BY ZenonT(60), <1>1, <3>1, OnlineKept
  <2> QED
    BY ZenonT(60), <1>1, <1>4, <2>1, <2>2, <2>3, <2>4, <2>5, OnlineKept
<1> QED
  BY <1>2, <1>3, <1>4 DEF TimerFires

\* Nobody who is gone is shown online, and a connected player is, unless the
\* account was used for several sessions, whatever logins, reconnects,
\* disconnects and expiries interleave.
THEOREM OnlineUnlessSharedHolds == Spec => []OnlineUnlessShared
<1>1. Init => OnlineInv
  BY SMTT(60) DEF Init, OnlineInv, OnlineUnlessShared
<1>2. ASSUME LobbyInv, OnlineInv, [Next]_vars PROVE OnlineInv'
  <2>1. CASE \E c \in Conns, a \in Accounts : OnLogin(c, a)
    BY ZenonT(60), <1>2, <2>1, OnlineLogin
  <2>2. CASE \E c \in Conns, p \in Players, ok \in BOOLEAN : OnReconnect(c, p, ok)
    BY ZenonT(60), <1>2, <2>2, OnlineReconnect
  <2>3. CASE \E c \in Conns : OnDisconnect(c)
    BY ZenonT(60), <1>2, <2>3, OnlineDisconnect
  <2>4. CASE \E r \in RoomIds : RoomFunctor(r) \/ \E w \in Players : RoomTick(r, w)
    <3>1. UNCHANGED lobbyVars
      BY ZenonT(60), <1>2, <2>4, RoomStep DEF LobbyInv
    <3> QED
      BY ZenonT(60), <1>2, <3>1, OnlineOthers
  <2>5. CASE UNCHANGED vars
    <3>1. UNCHANGED lobbyVars
      BY ZenonT(60), <2>5 DEF vars
    <3> QED
      BY <1>2, <3>1, OnlineOthers
  <2> QED
    BY ZenonT(60), <1>2, <2>1, <2>2, <2>3, <2>4, <2>5, OnlineOthers DEF Next
<1>3. OnlineInv => OnlineUnlessShared
  BY DEF OnlineInv
<1> QED
  BY <1>1, <1>2, <1>3, LobbyInvHolds, PTL DEF Spec

=============================================================================
