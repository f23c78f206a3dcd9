----------------------------- MODULE RoomProofs -----------------------------
(***************************************************************************)
(* What the lobby and the room threads promise each other holds for every  *)
(* number of connections, accounts, players, rooms and timers.  The        *)
(* invariant follows one room from onMatch to onRoomEnd: what is on its    *)
(* FIFO decides how it will start, end and whom it will send to.           *)
(***************************************************************************)
EXTENDS GameServerProofs

-----------------------------------------------------------------------------
(* What a FIFO of functors will do when it is run.                         *)

\* An op is pending on q.
Has(q, op) == \E i \in DOMAIN q : q[i].op = op

\* The first forceEnd on q, the one that may end the battle, names one of two.
FirstForfeit(q, two) ==
  \A i \in DOMAIN q :
    q[i].op = "forceEnd" /\ (\A j \in DOMAIN q : j < i => q[j].op # "forceEnd")
      => q[i].pid \in two

\* Functor t sets the connection of player p.
BindOf(t, p) == t.op \in {"rebind", "dropConn"} /\ t.pid = p

\* A room that sends to d for player p will send to c once q has run: the last
\* functor that sets p's connection sets it to c.
Leaves(q, p, d, c) ==
  /\ \A i \in DOMAIN q :
        BindOf(q[i], p) /\ (\A j \in DOMAIN q : i < j => ~BindOf(q[j], p))
          => q[i].conn = c
  /\ (\A i \in DOMAIN q : ~BindOf(q[i], p)) => d = c

-----------------------------------------------------------------------------
(* Lemmas on posting a functor and on taking the next one.                 *)

\* Posting t adds its op to what is pending.
LEMMA HasAppend ==
  ASSUME NEW q \in Seq(Task), NEW t \in Task, NEW op
  PROVE  Has(Append(q, t), op) <=> Has(q, op) \/ t.op = op
<1> DEFINE a == Append(q, t)
           n == Len(q) + 1
<1>1. /\ n \in DOMAIN a /\ a[n] = t
      /\ \A i \in DOMAIN q : i \in DOMAIN a /\ a[i] = q[i]
      /\ \A i \in DOMAIN a : i \in DOMAIN q \/ i = n
  BY ZenonT(60), AppendAt
<1> HIDE DEF a, n
<1>2. Has(a, op) <=> Has(q, op) \/ t.op = op
  BY ZenonT(60), <1>1 DEF Has
<1> QED
  BY ZenonT(60), <1>2 DEF a

\* Taking the next functor leaves the others pending.
LEMMA HasTail ==
  ASSUME NEW q \in Seq(Task), q # <<>>, NEW op
  PROVE  Has(q, op) <=> Has(Tail(q), op) \/ Head(q).op = op
<1> DEFINE a == Tail(q)
<1>1. /\ 1 \in DOMAIN q /\ q[1] = Head(q)
      /\ \A i \in DOMAIN a : i + 1 \in DOMAIN q /\ a[i] = q[i + 1]
      /\ \A i \in DOMAIN q : i = 1 \/ \E k \in DOMAIN a : i = k + 1
  BY ZenonT(60), TailAt
<1> HIDE DEF a
<1>2. Has(q, op) => Has(a, op) \/ Head(q).op = op
  BY ZenonT(60), <1>1 DEF Has
<1>3. Has(a, op) \/ Head(q).op = op => Has(q, op)
  BY ZenonT(60), <1>1 DEF Has
<1> QED
  BY ZenonT(60), <1>2, <1>3 DEF a

\* A forfeit may be posted if it names one of the two or comes second.
LEMMA ForfeitAppend ==
  ASSUME NEW q \in Seq(Task), NEW t \in Task, NEW two, FirstForfeit(q, two),
         t.op = "forceEnd" => t.pid \in two \/ Has(q, "forceEnd")
  PROVE  FirstForfeit(Append(q, t), two)
<1> DEFINE a == Append(q, t)
           n == Len(q) + 1
<1>1. /\ n \in DOMAIN a /\ a[n] = t
      /\ \A i \in DOMAIN q : i \in DOMAIN a /\ a[i] = q[i] /\ i < n
      /\ \A i \in DOMAIN a : i \in DOMAIN q \/ i = n
  BY ZenonT(60), AppendAt
<1> HIDE DEF a, n
<1>2. FirstForfeit(a, two)
  <2> SUFFICES ASSUME NEW i \in DOMAIN a, a[i].op = "forceEnd",
                      \A j \in DOMAIN a : j < i => a[j].op # "forceEnd"
               PROVE  a[i].pid \in two
    BY ZenonT(60) DEF FirstForfeit
  <2>1. CASE i \in DOMAIN q
    BY ZenonT(60), <1>1, <2>1 DEF FirstForfeit
  <2>2. CASE i = n
    BY ZenonT(60), <1>1, <2>2 DEF Has
  <2> QED
    BY ZenonT(60), <1>1, <2>1, <2>2
<1> QED
  BY ZenonT(60), <1>2 DEF a

\* The first forfeit is the next functor or stays the first one.
LEMMA ForfeitTail ==
  ASSUME NEW q \in Seq(Task), q # <<>>, NEW two, FirstForfeit(q, two)
  PROVE  IF Head(q).op = "forceEnd" THEN Head(q).pid \in two
                                    ELSE FirstForfeit(Tail(q), two)
<1> DEFINE a == Tail(q)
<1>1. /\ 1 \in DOMAIN q /\ q[1] = Head(q)
      /\ \A i \in DOMAIN q : ~(i < 1)
      /\ \A i \in DOMAIN a : i + 1 \in DOMAIN q /\ a[i] = q[i + 1]
      /\ \A i \in DOMAIN q : i = 1 \/ \E k \in DOMAIN a : i = k + 1
      /\ \A i, k \in DOMAIN a : i < k <=> i + 1 < k + 1
  BY ZenonT(60), TailAt
<1> HIDE DEF a
<1>2. CASE Head(q).op = "forceEnd"
  BY ZenonT(60), <1>1, <1>2 DEF FirstForfeit
<1>3. CASE Head(q).op # "forceEnd"
  <2> SUFFICES ASSUME NEW i \in DOMAIN a, a[i].op = "forceEnd",
                      \A j \in DOMAIN a : j < i => a[j].op # "forceEnd"
               PROVE  a[i].pid \in two
    BY ZenonT(60), <1>3 DEF FirstForfeit, a
  <2>1. ASSUME NEW j \in DOMAIN q, j < i + 1
        PROVE  q[j].op # "forceEnd"
    <3>1. CASE j = 1
      BY ZenonT(60), <1>1, <1>3, <3>1
    <3>2. CASE j # 1
      <4>1. PICK k \in DOMAIN a : j = k + 1
        BY ZenonT(60), <1>1, <3>2
      <4>2. k < i /\ q[j] = a[k]
        BY ZenonT(60), <1>1, <2>1, <4>1
      <4> QED
        BY ZenonT(60), <4>2
    <3> QED
      BY ZenonT(60), <3>1, <3>2
  <2> QED
    BY ZenonT(60), <1>1, <2>1 DEF FirstForfeit
<1> QED
  BY ZenonT(60), <1>2, <1>3

\* Posting a functor of p replaces what q leaves p with, and no other does.
LEMMA LeavesAppend ==
  ASSUME NEW q \in Seq(Task), NEW t \in Task, NEW p, NEW d, NEW c, NEW e,
         BindOf(t, p) => t.conn = e,
         ~BindOf(t, p) => Leaves(q, p, d, c) /\ e = c
  PROVE  Leaves(Append(q, t), p, d, e)
<1> DEFINE a == Append(q, t)
           n == Len(q) + 1
<1>1. /\ n \in DOMAIN a /\ a[n] = t
      /\ \A i \in DOMAIN q : i \in DOMAIN a /\ a[i] = q[i] /\ i < n /\ ~(n < i)
      /\ \A i \in DOMAIN a : i \in DOMAIN q \/ i = n
  BY ZenonT(60), AppendAt
<1> HIDE DEF a, n
<1>2. CASE BindOf(t, p)
  <2>1. ASSUME NEW i \in DOMAIN a, \A j \in DOMAIN a : i < j => ~BindOf(a[j], p)
        PROVE  i = n
    BY ZenonT(60), <1>1, <1>2, <2>1
  <2>2. n \in DOMAIN a /\ BindOf(a[n], p) /\ a[n].conn = e
    BY ZenonT(60), <1>1, <1>2
  <2> QED
    BY ZenonT(60), <2>1, <2>2 DEF Leaves, a
<1>3. CASE ~BindOf(t, p)
  <2>1. ASSUME NEW i \in DOMAIN a, BindOf(a[i], p),
               \A j \in DOMAIN a : i < j => ~BindOf(a[j], p)
        PROVE  a[i].conn = e
    <3>1. i \in DOMAIN q /\ a[i] = q[i]
      BY ZenonT(60), <1>1, <1>3, <2>1
    <3> QED
      BY ZenonT(60), <1>1, <1>3, <2>1, <3>1 DEF Leaves
  <2>2. (\A i \in DOMAIN a : ~BindOf(a[i], p)) => d = e
    BY ZenonT(60), <1>1, <1>3 DEF Leaves
  <2> QED
    BY ZenonT(60), <2>1, <2>2 DEF Leaves, a
<1> QED
  BY ZenonT(60), <1>2, <1>3

\* Running the next functor brings the room one step closer to what q leaves.
LEMMA LeavesTail ==
  ASSUME NEW q \in Seq(Task), q # <<>>, NEW p, NEW d, NEW c, NEW e,
         Leaves(q, p, d, c),
         e = IF BindOf(Head(q), p) THEN Head(q).conn ELSE d
  PROVE  Leaves(Tail(q), p, e, c)
<1> DEFINE a == Tail(q)
<1>1. /\ 1 \in DOMAIN q /\ q[1] = Head(q)
      /\ \A i \in DOMAIN a : i + 1 \in DOMAIN q /\ a[i] = q[i + 1] /\ ~(i + 1 < 1)
      /\ \A i \in DOMAIN q : i = 1 \/ \E k \in DOMAIN a : i = k + 1
      /\ \A i, k \in DOMAIN a : i < k <=> i + 1 < k + 1
      /\ ~(1 < 1)
  BY ZenonT(60), TailAt
<1> HIDE DEF a
<1>2. ASSUME NEW i \in DOMAIN a, BindOf(a[i], p),
             \A j \in DOMAIN a : i < j => ~BindOf(a[j], p)
      PROVE  a[i].conn = c
  <2>1. ASSUME NEW j \in DOMAIN q, i + 1 < j
        PROVE  ~BindOf(q[j], p)
    <3>0. ~(i + 1 < 1)
      BY ZenonT(60), <1>1
    <3>1. j # 1
      BY ZenonT(60), <2>1, <3>0
    <3>2. PICK k \in DOMAIN a : j = k + 1
      BY ZenonT(60), <1>1, <3>1
    <3>3. i < k /\ q[j] = a[k]
      BY ZenonT(60), <1>1, <2>1, <3>2
    <3> QED
      BY ZenonT(60), <1>2, <3>3
  <2>2. i + 1 \in DOMAIN q /\ q[i + 1] = a[i]
    BY ZenonT(60), <1>1
  <2> QED
    BY ZenonT(60), <1>2, <2>1, <2>2 DEF Leaves
<1>3. ASSUME \A i \in DOMAIN a : ~BindOf(a[i], p)
      PROVE  e = c
  <2>1. \A j \in DOMAIN q : j # 1 => ~BindOf(q[j], p)
    BY ZenonT(60), <1>1, <1>3
  <2>2. \A j \in DOMAIN q : 1 < j => j # 1
    BY ZenonT(60), <1>1
  <2> QED
    BY ZenonT(60), <1>1, <2>1, <2>2 DEF Leaves
<1> QED
  BY ZenonT(60), <1>2, <1>3 DEF Leaves, a

-----------------------------------------------------------------------------
(* The inductive invariant, one conjunct per aspect of a room.             *)

\* The battle of a room in phase ph is still to be decided.
Undecided(ph) == ph \in {"created", "running"}

\* Rooms up to nextRoom were made for two players with an id; the others are
\* blank.
Made(r) ==
  IF r < nextRoom
    THEN /\ roomPhase[r] # "none"
         /\ \E a, b \in Players : a # b /\ members[r] = {a, b}
         /\ \A p \in members[r] : p < nextPlayer
    ELSE roomPhase[r] = "none" /\ roomQ[r] = <<>> /\ ~ticker[r]

\* start is the first functor a room runs, and it runs once; a ticker that
\* outlives the battle will be released by a functor that is on the FIFO.
LifeOK(ph, q, tk) ==
  /\ ph = "created" => q # <<>> /\ Head(q).op = "start" /\ ~Has(Tail(q), "start") /\ ~tk
  /\ ph # "created" => ~Has(q, "start")
  /\ ph = "ended" /\ tk => Has(q, "resetTicker")
Lives(r) == LifeOK(roomPhase[r], roomQ[r], ticker[r])

\* An undecided battle has both sessions, or a forfeit is on its way that names
\* one of the two; a decided one was won by one of the two.
VerdictOK(ph, q, two, w, all) ==
  /\ ph = "ended" => w \in two
  /\ Undecided(ph) => FirstForfeit(q, two) /\ (all \/ Has(q, "forceEnd"))
Judged(r) ==
  VerdictOK(roomPhase[r], roomQ[r], members[r], winner[r], members[r] \subseteq sessions)

\* An undecided room is in rooms_; a decided one is there until it is reported.
Reported(r) ==
  /\ Undecided(roomPhase[r]) => r \in rooms
  /\ r \in endPosted <=> roomPhase[r] = "ended" /\ r \in rooms

\* The sessions a room of rooms_ was made for point to it, and when its FIFO has
\* run it sends to the connections they have.
Routed(r) == r \in rooms => \A p \in members[r] \cap sessions : roomId[p] = r
Bound(r) ==
  r \in rooms => \A p \in members[r] \cap sessions :
                    Leaves(roomQ[r], p, roomConn[r][p], conn[p])

RoomOK(r) == Made(r) /\ Lives(r) /\ Judged(r) /\ Reported(r) /\ Routed(r) /\ Bound(r)

\* A result is stored when its room is given up, not before.
RecordsSettled == \A x \in records : x.room \notin rooms

RoomInv == (\A r \in RoomIds : RoomOK(r)) /\ RecordsSettled /\ RecordsAreTrue

\* The four invariants of GameServer are consequences.
LEMMA RoomInvImplies ==
  ASSUME TypeOK, RoomInv
  PROVE  EndReportedOnce /\ FreedRoomHasNoTicker /\ RecordsAreTrue /\ RoomBindingConverges
<1>1. EndReportedOnce
  BY ZenonT(60) DEF RoomInv, RoomOK, Reported, Judged, VerdictOK, EndReportedOnce
<1>2. FreedRoomHasNoTicker
  <2> SUFFICES ASSUME NEW r \in RoomIds, roomPhase[r] # "none", r \notin rooms,
                      roomQ[r] = <<>>
               PROVE  ~ticker[r]
    BY DEF FreedRoomHasNoTicker
  <2>1. roomPhase[r] = "ended"
    BY ZenonT(60) DEF RoomInv, RoomOK, Reported, Undecided, TypeOK, Phases
  <2>2. ~Has(roomQ[r], "resetTicker")
    BY DEF Has
  <2> QED
    BY ZenonT(60), <2>1, <2>2 DEF RoomInv, RoomOK, Lives, LifeOK
<1>3. RoomBindingConverges
  BY ZenonT(60) DEF RoomInv, RoomOK, Bound, Leaves, BindOf, RoomBindingConverges, TypeOK
<1> QED
  BY ZenonT(60), <1>1, <1>2, <1>3 DEF RoomInv

\* It holds initially.
LEMMA RoomInvInit == Init => RoomInv
<1> SUFFICES ASSUME Init PROVE RoomInv
  OBVIOUS
<1>1. ASSUME NEW r \in RoomIds PROVE RoomOK(r)
  <2>1. /\ roomPhase[r] = "none" /\ roomQ[r] = <<>> /\ ticker[r] = FALSE
        /\ r \notin rooms /\ r \notin endPosted
    BY ZenonT(60) DEF Init
  <2>2. ~(r < nextRoom)
    BY SMTT(60) DEF Init, RoomIds
  <2>3. \A op : ~Has(roomQ[r], op)
    BY <2>1 DEF Has
  <2> QED
    BY ZenonT(60), <2>1, <2>2, <2>3 DEF RoomOK, Made, Lives, LifeOK, Judged, VerdictOK,
       Reported, Routed, Bound, Undecided
<1> QED
  BY ZenonT(60), <1>1 DEF Init, RoomInv, RecordsSettled, RecordsAreTrue

-----------------------------------------------------------------------------
(* Steps of the room threads.                                              *)

\* What a step on another room's loop leaves alone.
SameRoom(s) ==
  /\ roomConn'[s] = roomConn[s] /\ roomPhase'[s] = roomPhase[s]
  /\ winner'[s] = winner[s] /\ ticker'[s] = ticker[s] /\ roomQ'[s] = roomQ[s]
  /\ s \in endPosted' <=> s \in endPosted

\* A step of one room need only be shown to keep that room's invariant.
LEMMA OneRoom ==
  ASSUME TypeOK, RoomInv, NEW r \in RoomIds, UNCHANGED lobbyVars,
         \A s \in RoomIds \ {r} : SameRoom(s),
         roomPhase[r] = "ended" => roomPhase'[r] = "ended" /\ winner'[r] = winner[r],
         RoomOK(r)'
  PROVE  RoomInv'
<1>1. ASSUME NEW s \in RoomIds, s # r PROVE RoomOK(s)'
  <2>1. SameRoom(s) /\ RoomOK(s)
    BY ZenonT(60), <1>1 DEF RoomInv
  <2>2. Made(s)'
    BY ZenonT(60), <2>1 DEF RoomOK, Made, SameRoom, lobbyVars
  <2>3. Lives(s)'
    BY ZenonT(60), <2>1 DEF RoomOK, Lives, LifeOK, SameRoom, lobbyVars
  <2>4. Judged(s)'
    BY ZenonT(60), <2>1 DEF RoomOK, Judged, VerdictOK, SameRoom, lobbyVars
  <2>5. Reported(s)'
    BY ZenonT(60), <2>1 DEF RoomOK, Reported, SameRoom, lobbyVars
  <2>6. Routed(s)' /\ Bound(s)'
    BY ZenonT(60), <2>1 DEF RoomOK, Routed, Bound, SameRoom, lobbyVars
  <2> QED
    BY ZenonT(60), <2>2, <2>3, <2>4, <2>5, <2>6 DEF RoomOK
<1>2. RecordsSettled'
  BY ZenonT(60) DEF RoomInv, RecordsSettled, lobbyVars
<1>3. \A s \in RoomIds : roomPhase[s] = "ended" =>
         roomPhase'[s] = "ended" /\ winner'[s] = winner[s]
  BY ZenonT(60) DEF SameRoom
<1>4. \A x \in records : x.room \in RoomIds
  BY ZenonT(60) DEF TypeOK, Record
<1>5. RecordsAreTrue'
  BY ZenonT(60), <1>3, <1>4 DEF RoomInv, RecordsAreTrue, lobbyVars
<1> QED
  BY ZenonT(60), <1>1, <1>2, <1>5 DEF RoomInv

\* Taking the next functor off the FIFO keeps the promises of the rest.
LEMMA TakeOne ==
  ASSUME TypeOK, NEW r \in RoomIds, RoomOK(r), roomQ[r] # <<>>
  PROVE  LET q == roomQ[r]
         IN  /\ q \in Seq(Task) /\ Head(q) \in Task /\ Tail(q) \in Seq(Task)
             /\ r < nextRoom
             /\ Head(q).op = "start" <=> roomPhase[r] = "created"
             /\ ~Has(Tail(q), "start")
             /\ Head(q).op # "resetTicker" => (Has(Tail(q), "resetTicker") <=> Has(q, "resetTicker"))
             /\ Undecided(roomPhase[r]) =>
                  IF Head(q).op = "forceEnd"
                    THEN Head(q).pid \in members[r]
                    ELSE /\ FirstForfeit(Tail(q), members[r])
                         /\ members[r] \subseteq sessions \/ Has(Tail(q), "forceEnd")
<1> DEFINE q == roomQ[r]
<1>1. q \in Seq(Task)
  BY ZenonT(60) DEF TypeOK
<1>2. Head(q) \in Task /\ Tail(q) \in Seq(Task)
  BY ZenonT(60), HeadTask
<1>3. \A op : Has(q, op) <=> Has(Tail(q), op) \/ Head(q).op = op
  BY ZenonT(60), <1>1, HasTail
<1>4. r < nextRoom
  BY ZenonT(60) DEF RoomOK, Made
<1>5. /\ Head(q).op = "start" <=> roomPhase[r] = "created"
      /\ ~Has(Tail(q), "start")
  BY ZenonT(60), <1>3 DEF RoomOK, Lives, LifeOK
<1>6. ASSUME Undecided(roomPhase[r])
      PROVE  IF Head(q).op = "forceEnd"
               THEN Head(q).pid \in members[r]
               ELSE /\ FirstForfeit(Tail(q), members[r])
                    /\ members[r] \subseteq sessions \/ Has(Tail(q), "forceEnd")
  <2>1. FirstForfeit(q, members[r]) /\ (members[r] \subseteq sessions \/ Has(q, "forceEnd"))
    BY ZenonT(60), <1>6 DEF RoomOK, Judged, VerdictOK
  <2>2. IF Head(q).op = "forceEnd" THEN Head(q).pid \in members[r]
                                   ELSE FirstForfeit(Tail(q), members[r])
    BY ZenonT(60), <1>1, <2>1, ForfeitTail
  <2> QED
    BY ZenonT(60), <1>3, <2>1, <2>2
<1> QED
  BY ZenonT(60), <1>1, <1>2, <1>3, <1>4, <1>5, <1>6

\* Routed and Bound survive when the functor taken set what it says.
LEMMA TakeBound ==
  ASSUME TypeOK, NEW r \in RoomIds, RoomOK(r), roomQ[r] # <<>>, UNCHANGED lobbyVars,
         roomQ'[r] = Tail(roomQ[r]),
         \A p \in Players : roomConn'[r][p] =
            IF BindOf(Head(roomQ[r]), p) THEN Head(roomQ[r]).conn ELSE roomConn[r][p]
  PROVE  Routed(r)' /\ Bound(r)'
<1>1. Routed(r)'
  BY ZenonT(60) DEF RoomOK, Routed, lobbyVars
<1>2. ASSUME NEW p \in members[r] \cap sessions, r \in rooms
      PROVE  Leaves(Tail(roomQ[r]), p, roomConn'[r][p], conn[p])
  <2>1. Leaves(roomQ[r], p, roomConn[r][p], conn[p])
    BY ZenonT(60), <1>2 DEF RoomOK, Bound
  <2>2. p \in Players
    BY ZenonT(60) DEF TypeOK
  <2>3. roomQ[r] \in Seq(Task)
    BY ZenonT(60) DEF TypeOK
  <2> QED
    BY ZenonT(60), <2>1, <2>2, <2>3, LeavesTail
<1> QED
  BY ZenonT(60), <1>1, <1>2 DEF Bound, lobbyVars

\* start runs first and only once.
LEMMA StartKeeps ==
  ASSUME TypeOK, RoomInv, NEW r \in RoomIds, RoomStart(r)
  PROVE  RoomInv'
<1> DEFINE q == roomQ[r]
<1>1. q # <<>> /\ Head(q).op = "start" /\ RoomOK(r)
  BY ZenonT(60) DEF RoomStart, Dequeue, RoomInv
<1>2. /\ roomQ'[r] = Tail(q) /\ roomPhase'[r] = "running" /\ ticker'[r] = TRUE
      /\ \A s \in RoomIds \ {r} : SameRoom(s)
      /\ UNCHANGED <<lobbyVars, roomConn, winner, endPosted>>
  BY ZenonT(60) DEF RoomStart, SameRoom, TypeOK
<1>3. /\ r < nextRoom /\ roomPhase[r] = "created" /\ ~Has(Tail(q), "start")
      /\ FirstForfeit(Tail(q), members[r])
      /\ members[r] \subseteq sessions \/ Has(Tail(q), "forceEnd")
  BY ZenonT(60), <1>1, TakeOne DEF Undecided
<1>4. Made(r)'
  BY ZenonT(60), <1>1, <1>2, <1>3 DEF RoomOK, Made, lobbyVars
<1>5. Lives(r)' /\ Judged(r)'
  BY ZenonT(60), <1>2, <1>3 DEF Lives, LifeOK, Judged, VerdictOK, lobbyVars
<1>6. Reported(r)'
  BY ZenonT(60), <1>1, <1>2, <1>3 DEF RoomOK, Reported, Undecided, lobbyVars
<1>7. \A p : ~BindOf(Head(q), p)
  BY ZenonT(60), <1>1 DEF BindOf
<1>8. Routed(r)' /\ Bound(r)'
  BY ZenonT(60), <1>1, <1>2, <1>7, TakeBound
<1>9. RoomOK(r)'
  BY ZenonT(60), <1>4, <1>5, <1>6, <1>8 DEF RoomOK
<1> QED
  BY ZenonT(60), <1>2, <1>3, <1>9, OneRoom

\* Functors that decide nothing: input, rebind, dropConn, resetTicker, and a
\* forceEnd that comes too late.
LEMMA QuietKeeps ==
  ASSUME TypeOK, RoomInv, NEW r \in RoomIds, roomQ[r] # <<>>,
         Head(roomQ[r]).op # "start",
         Head(roomQ[r]).op = "forceEnd" => roomPhase[r] = "ended",
         UNCHANGED <<lobbyVars, roomPhase, winner, endPosted>>,
         roomQ' = [roomQ EXCEPT ![r] = Tail(@)],
         \A s \in RoomIds \ {r} : roomConn'[s] = roomConn[s] /\ ticker'[s] = ticker[s],
         ticker'[r] = IF Head(roomQ[r]).op = "resetTicker" THEN FALSE ELSE ticker[r],
         \A p \in Players : roomConn'[r][p] =
            IF BindOf(Head(roomQ[r]), p) THEN Head(roomQ[r]).conn ELSE roomConn[r][p]
  PROVE  RoomInv'
<1> DEFINE q == roomQ[r]
<1>1. RoomOK(r)
  BY ZenonT(60) DEF RoomInv
<1>2. roomQ'[r] = Tail(q) /\ \A s \in RoomIds \ {r} : SameRoom(s)
  BY ZenonT(60) DEF SameRoom, TypeOK
<1>3. /\ r < nextRoom /\ roomPhase[r] # "created" /\ ~Has(Tail(q), "start")
      /\ Head(q).op # "resetTicker" => (Has(Tail(q), "resetTicker") <=> Has(q, "resetTicker"))
  BY ZenonT(60), <1>1, TakeOne
<1>4. Made(r)'
  BY ZenonT(60), <1>1, <1>2, <1>3 DEF RoomOK, Made, lobbyVars
<1>5. Lives(r)'
  BY ZenonT(60), <1>1, <1>2, <1>3 DEF RoomOK, Lives, LifeOK
<1>6. Undecided(roomPhase[r]) =>
        /\ FirstForfeit(Tail(q), members[r])
        /\ members[r] \subseteq sessions \/ Has(Tail(q), "forceEnd")
  BY ZenonT(60), <1>1, TakeOne DEF Undecided
<1>7. Judged(r)'
  BY ZenonT(60), <1>1, <1>2, <1>6 DEF RoomOK, Judged, VerdictOK, lobbyVars
<1>8. Reported(r)'
  BY ZenonT(60), <1>1 DEF RoomOK, Reported, lobbyVars
<1>9. Routed(r)' /\ Bound(r)'
  BY ZenonT(60), <1>1, <1>2, TakeBound
<1>10. RoomOK(r)'
  BY ZenonT(60), <1>4, <1>5, <1>7, <1>8, <1>9 DEF RoomOK
<1> QED
  BY ZenonT(60), <1>2, <1>10, OneRoom

\* A room that ends the battle, by a tick or by a forfeit, with q left to run.
LEMMA EndBattleKeeps ==
  ASSUME TypeOK, RoomInv, NEW r \in RoomIds, NEW w \in members[r], NEW q \in Seq(Task),
         roomPhase[r] = "running", ~Has(q, "start"),
         \A p \in members[r] \cap sessions : Leaves(q, p, roomConn[r][p], conn[p]),
         EndBattle(r, w, q), UNCHANGED <<lobbyVars, roomConn, ticker>>
  PROVE  RoomInv'
<1> DEFINE t == [op |-> "resetTicker", pid |-> 0, conn |-> NoConn]
<1>1. RoomOK(r)
  BY ZenonT(60) DEF RoomInv
<1>2. /\ roomQ'[r] = Append(q, t) /\ roomPhase'[r] = "ended" /\ winner'[r] = w
      /\ r \in endPosted' /\ \A s \in RoomIds \ {r} : SameRoom(s)
  BY ZenonT(60) DEF EndBattle, SameRoom, TypeOK
<1>3. t \in Task
  BY SMTT(60), BoundsAssumption DEF Task, Ops
<1>4. t.op = "resetTicker" /\ \A p : ~BindOf(t, p)
  BY ZenonT(60) DEF BindOf
<1> HIDE DEF t
<1>5. ~Has(Append(q, t), "start") /\ Has(Append(q, t), "resetTicker")
  BY ZenonT(60), <1>3, <1>4, HasAppend
<1>6. Made(r)'
  BY ZenonT(60), <1>1, <1>2 DEF RoomOK, Made, lobbyVars
<1>7. Lives(r)' /\ Judged(r)'
  BY ZenonT(60), <1>2, <1>5 DEF Lives, LifeOK, Judged, VerdictOK, Undecided, lobbyVars
<1>8. Reported(r)'
  BY ZenonT(60), <1>1, <1>2 DEF RoomOK, Reported, Undecided, lobbyVars
<1>9. Routed(r)'
  BY ZenonT(60), <1>1 DEF RoomOK, Routed, lobbyVars
<1>10. \A p \in members[r] \cap sessions : Leaves(Append(q, t), p, roomConn[r][p], conn[p])
  BY ZenonT(60), <1>3, <1>4, LeavesAppend
<1>11. Bound(r)'
  BY ZenonT(60), <1>2, <1>10 DEF Bound, lobbyVars
<1>12. RoomOK(r)'
  BY ZenonT(60), <1>6, <1>7, <1>8, <1>9, <1>11 DEF RoomOK
<1> QED
  BY ZenonT(60), <1>2, <1>12, OneRoom

\* Every step of a room thread keeps the invariant.
LEMMA RoomThreadKeeps ==
  ASSUME TypeOK, RoomInv, NEW r \in RoomIds,
         RoomFunctor(r) \/ \E w \in Players : RoomTick(r, w)
  PROVE  RoomInv'
<1>0. RoomOK(r) /\ roomQ[r] \in Seq(Task)
  BY ZenonT(60) DEF RoomInv, TypeOK
<1>1. CASE RoomStart(r)
  BY ZenonT(60), <1>1, StartKeeps
<1>2. CASE RoomInput(r)
  <2>1. \A p : ~BindOf(Head(roomQ[r]), p)
    BY ZenonT(60), <1>2 DEF RoomInput, Dequeue, BindOf
  <2> QED
    BY ZenonT(60), <1>2, <2>1, QuietKeeps DEF RoomInput, Dequeue
<1>3. ASSUME NEW op \in {"rebind", "dropConn"}, RoomBind(r, op)
      PROVE  RoomInv'
  <2> DEFINE t == Head(roomQ[r])
  <2>1. roomQ[r] # <<>> /\ t.op = op
    BY ZenonT(60), <1>3 DEF RoomBind, Dequeue
  <2>2. roomConn' = [roomConn EXCEPT ![r] = [roomConn[r] EXCEPT ![t.pid] = t.conn]]
    BY ZenonT(60), <1>3 DEF RoomBind
  <2>3. roomConn \in [RoomIds -> [Players -> Conns \cup {NoConn}]]
    BY ZenonT(60) DEF TypeOK
  <2>4. /\ roomConn'[r] = [roomConn[r] EXCEPT ![t.pid] = t.conn]
        /\ \A s \in RoomIds \ {r} : roomConn'[s] = roomConn[s]
    BY ZenonT(60), <2>2, <2>3
  <2>5. \A p \in Players : roomConn'[r][p] = IF t.pid = p THEN t.conn ELSE roomConn[r][p]
    BY ZenonT(60), <2>3, <2>4
  <2>6. \A p : BindOf(t, p) <=> t.pid = p
    BY ZenonT(60), <2>1 DEF BindOf
  <2>7. \A p \in Players : roomConn'[r][p] = IF BindOf(t, p) THEN t.conn ELSE roomConn[r][p]
    BY ZenonT(60), <2>5, <2>6
  <2>8. /\ t.op # "start" /\ t.op # "forceEnd" /\ t.op # "resetTicker"
        /\ UNCHANGED <<lobbyVars, roomPhase, winner, endPosted>> /\ ticker' = ticker
        /\ roomQ' = [roomQ EXCEPT ![r] = Tail(@)]
    BY ZenonT(60), <1>3, <2>1 DEF RoomBind
  <2> QED
    BY ZenonT(60), <2>1, <2>4, <2>7, <2>8, QuietKeeps
<1>4. CASE RoomForceEnd(r)
  <2> DEFINE t == Head(roomQ[r])
  <2>1. roomQ[r] # <<>> /\ t.op = "forceEnd" /\ \A p : ~BindOf(t, p)
    BY ZenonT(60), <1>4 DEF RoomForceEnd, Dequeue, BindOf
  <2>2. CASE Ended(r)
    BY ZenonT(60), <1>4, <2>1, <2>2, QuietKeeps DEF RoomForceEnd, Ended
  <2>3. CASE ~Ended(r)
    <3>1. /\ r < nextRoom /\ roomPhase[r] # "created" /\ ~Has(Tail(roomQ[r]), "start")
          /\ Tail(roomQ[r]) \in Seq(Task)
      BY ZenonT(60), <1>0, <2>1, TakeOne
    <3>2. roomPhase[r] = "running"
      BY ZenonT(60), <1>0, <2>3, <3>1 DEF Ended, RoomOK, Made, TypeOK, Phases
    <3>3. t.pid \in members[r]
      BY ZenonT(60), <1>0, <2>1, <3>2, TakeOne DEF Undecided
    <3>4. r \in rooms
      BY ZenonT(60), <1>0, <3>2 DEF RoomOK, Reported, Undecided
    <3>5. ASSUME NEW p \in members[r] \cap sessions
          PROVE  Leaves(Tail(roomQ[r]), p, roomConn[r][p], conn[p])
      BY ZenonT(60), <1>0, <2>1, <3>4, LeavesTail DEF RoomOK, Bound
    <3>6. EndBattle(r, t.pid, Tail(roomQ[r])) /\ UNCHANGED <<lobbyVars, roomConn, ticker>>
      BY ZenonT(60), <1>4, <2>3 DEF RoomForceEnd
    <3> QED
      BY ZenonT(60), <3>1, <3>2, <3>3, <3>5, <3>6, EndBattleKeeps
  <2> QED
    BY ZenonT(60), <2>2, <2>3
<1>5. CASE RoomResetTicker(r)
  <2>1. roomQ[r] # <<>> /\ Head(roomQ[r]).op = "resetTicker"
        /\ \A p : ~BindOf(Head(roomQ[r]), p)
    BY ZenonT(60), <1>5 DEF RoomResetTicker, Dequeue, BindOf
  <2>2. ticker'[r] = FALSE /\ \A s \in RoomIds \ {r} : ticker'[s] = ticker[s]
    BY ZenonT(60), <1>5 DEF RoomResetTicker, TypeOK
  <2> QED
    BY ZenonT(60), <1>5, <2>1, <2>2, QuietKeeps DEF RoomResetTicker
<1>6. ASSUME NEW w \in Players, RoomTick(r, w)
      PROVE  RoomInv'
  <2>1. ticker[r] /\ w \in members[r] /\ EndBattle(r, w, roomQ[r])
        /\ UNCHANGED <<lobbyVars, roomConn, ticker>> /\ roomPhase[r] # "ended"
    BY ZenonT(60), <1>6 DEF RoomTick, Ended
  <2>2. roomPhase[r] = "running" /\ ~Has(roomQ[r], "start")
    BY ZenonT(60), <1>0, <2>1 DEF RoomOK, Made, Lives, LifeOK, TypeOK, Phases
  <2>3. r \in rooms
    BY ZenonT(60), <1>0, <2>2 DEF RoomOK, Reported, Undecided
  <2>4. \A p \in members[r] \cap sessions : Leaves(roomQ[r], p, roomConn[r][p], conn[p])
    BY ZenonT(60), <1>0, <2>3 DEF RoomOK, Bound
  <2> QED
    BY ZenonT(60), <1>0, <2>1, <2>2, <2>4, EndBattleKeeps
<1> QED
  BY ZenonT(60), <1>1, <1>2, <1>3, <1>4, <1>5, <1>6 DEF RoomFunctor, RoomRebind, RoomDropConn

-----------------------------------------------------------------------------
(* Steps of the lobby.                                                     *)

\* What the handlers other than onLogin, onMatch with a pair, and onRoomEnd can
\* do: post at most one functor t, to a room s of rooms_; rebind the players that
\* t is about; erase sessions, when t is the forfeit that says so.
PostsOnly(b, s, t) ==
  /\ UNCHANGED <<nextRoom, rooms, members, account, nextPlayer, records,
                 roomConn, roomPhase, winner, ticker, endPosted>>
  /\ t.op # "start" /\ (b => s \in rooms)
  /\ roomQ' = IF b THEN [roomQ EXCEPT ![s] = Append(@, t)] ELSE roomQ
  /\ sessions' \subseteq sessions /\ \A p \in sessions' : roomId'[p] = roomId[p]
  /\ b /\ t.op = "forceEnd" /\ Undecided(roomPhase[s]) =>
        t.pid \in members[s] \/ Has(roomQ[s], "forceEnd")
  /\ \A r \in RoomIds : Undecided(roomPhase[r]) /\ members[r] \subseteq sessions =>
        members[r] \subseteq sessions' \/ (b /\ r = s /\ t.op = "forceEnd")
  /\ \A r \in rooms : \A p \in members[r] \cap sessions' :
        IF b /\ r = s /\ BindOf(t, p) THEN t.conn = conn'[p] ELSE conn'[p] = conn[p]

\* Such a step keeps the invariant.
LEMMA LobbyPost ==
  ASSUME LobbyInv, RoomInv, NEW b \in BOOLEAN, NEW s, NEW t \in Task, PostsOnly(b, s, t)
  PROVE  RoomInv'
<1>1. ASSUME NEW r \in RoomIds PROVE RoomOK(r)'
  <2> DEFINE q == roomQ[r]
  <2>0. RoomOK(r) /\ q \in Seq(Task)
    BY ZenonT(60) DEF RoomInv, LobbyInv, TypeOK
  <2>1. roomQ'[r] = IF b /\ r = s THEN Append(q, t) ELSE q
    BY ZenonT(60) DEF PostsOnly, LobbyInv, TypeOK
  <2>2. b /\ r = s => r < nextRoom
    BY ZenonT(60) DEF PostsOnly, LobbyInv, IdsBelowNext
  <2>a. /\ UNCHANGED <<nextRoom, rooms, members, account, nextPlayer, records,
                       roomConn, roomPhase, winner, ticker, endPosted>>
        /\ sessions' \subseteq sessions /\ \A p \in sessions' : roomId'[p] = roomId[p]
        /\ t.op # "start"
    BY ZenonT(60) DEF PostsOnly
  <2>3. Made(r)'
    BY ZenonT(60), <2>0, <2>1, <2>2, <2>a DEF RoomOK, Made
  <2>4. \A op : Has(Append(q, t), op) <=> Has(q, op) \/ t.op = op
    BY ZenonT(60), <2>0, HasAppend
  <2>5. Lives(r)'
    <3>1. ASSUME q # <<>>
          PROVE  /\ Head(Append(q, t)) = Head(q) /\ Append(q, t) # <<>>
                 /\ ~Has(Tail(q), "start") => ~Has(Tail(Append(q, t)), "start")
      <4>1. Head(Append(q, t)) = Head(q) /\ Tail(Append(q, t)) = Append(Tail(q), t)
        BY ZenonT(60), <2>0, <3>1, HeadTailAppend
      <4>2. Append(q, t) # <<>> /\ Tail(q) \in Seq(Task)
        BY ZenonT(60), <2>0, <3>1, AppendProperties, HeadTailProperties
      <4>3. Has(Append(Tail(q), t), "start") <=> Has(Tail(q), "start")
        BY ZenonT(60), <2>a, <4>2, HasAppend
      <4> QED
        BY ZenonT(60), <4>1, <4>2, <4>3
    <3>2. LifeOK(roomPhase[r], Append(q, t), ticker[r])
      BY ZenonT(60), <2>0, <2>4, <2>a, <3>1 DEF RoomOK, Lives, LifeOK
    <3> QED
      BY ZenonT(60), <2>0, <2>1, <2>a, <3>2 DEF RoomOK, Lives
  <2>6. Judged(r)'
    <3>1. roomPhase[r] = "ended" => winner[r] \in members[r]
      BY ZenonT(60), <2>0 DEF RoomOK, Judged, VerdictOK
    <3>2. ASSUME Undecided(roomPhase[r])
          PROVE  /\ FirstForfeit(roomQ'[r], members[r])
                 /\ members[r] \subseteq sessions' \/ Has(roomQ'[r], "forceEnd")
      <4>1. FirstForfeit(q, members[r]) /\ (members[r] \subseteq sessions \/ Has(q, "forceEnd"))
        BY ZenonT(60), <2>0, <3>2 DEF RoomOK, Judged, VerdictOK
      <4>2. CASE b /\ r = s
        <5>1. t.op = "forceEnd" => t.pid \in members[r] \/ Has(q, "forceEnd")
          BY ZenonT(60), <3>2, <4>2 DEF PostsOnly
        <5>2. FirstForfeit(Append(q, t), members[r])
          BY ZenonT(60), <2>0, <4>1, <5>1, ForfeitAppend
        <5> QED
          BY ZenonT(60), <2>1, <2>4, <3>2, <4>1, <4>2, <5>2 DEF PostsOnly
      <4>3. CASE ~(b /\ r = s)
        BY ZenonT(60), <2>1, <3>2, <4>1, <4>3 DEF PostsOnly
      <4> QED
        BY ZenonT(60), <4>2, <4>3
    <3> QED
      BY ZenonT(60), <2>a, <3>1, <3>2 DEF Judged, VerdictOK
  <2>7. Reported(r)'
    BY ZenonT(60), <2>0, <2>a DEF RoomOK, Reported
  <2>8. Routed(r)'
    BY ZenonT(60), <2>0, <2>a DEF RoomOK, Routed
  <2>9. ASSUME NEW p \in members[r] \cap sessions', r \in rooms
        PROVE  Leaves(roomQ'[r], p, roomConn[r][p], conn'[p])
    <3>0. IF b /\ r = s /\ BindOf(t, p) THEN t.conn = conn'[p] ELSE conn'[p] = conn[p]
      BY ZenonT(60), <2>9 DEF PostsOnly
    <3>1. Leaves(q, p, roomConn[r][p], conn[p])
      BY ZenonT(60), <2>0, <2>9, <2>a DEF RoomOK, Bound
    <3>2. CASE b /\ r = s
      <4>1. Leaves(Append(q, t), p, roomConn[r][p], conn'[p])
        BY ZenonT(60), <2>0, <3>0, <3>1, <3>2, LeavesAppend
      <4> QED
        BY ZenonT(60), <2>1, <3>2, <4>1
    <3>3. CASE ~(b /\ r = s)
      BY ZenonT(60), <2>1, <3>0, <3>1, <3>3
    <3> QED
      BY ZenonT(60), <3>2, <3>3
  <2>10. Bound(r)'
    BY ZenonT(60), <2>9, <2>a DEF Bound
  <2> QED
    BY ZenonT(60), <2>3, <2>5, <2>6, <2>7, <2>8, <2>10 DEF RoomOK
<1>2. RecordsSettled' /\ RecordsAreTrue'
  BY ZenonT(60) DEF PostsOnly, RoomInv, RecordsSettled, RecordsAreTrue
<1> QED
  BY ZenonT(60), <1>1, <1>2 DEF RoomInv

\* onLogin: the new player is in no room.
LEMMA LoginKeepsRooms ==
  ASSUME LobbyInv, RoomInv, NEW c \in Conns, NEW a \in Accounts, OnLogin(c, a)
  PROVE  RoomInv'
<1> DEFINE p == nextPlayer
<1>1. /\ sessions' = sessions \cup {p} /\ nextPlayer' = nextPlayer + 1
      /\ \A x \in Players \ {p} : /\ conn'[x] = conn[x] /\ roomId'[x] = roomId[x]
                                  /\ account'[x] = account[x]
      /\ UNCHANGED <<nextRoom, rooms, members, records, roomVars>>
  BY ZenonT(60) DEF OnLogin, LobbyInv, TypeOK
<1>2. \A x \in Players : x < nextPlayer => x < nextPlayer' /\ x # p
  BY SMTT(60), <1>1 DEF LobbyInv, TypeOK, Players
<1>3. \A r \in RoomIds : members[r] \subseteq Players
  BY ZenonT(60) DEF LobbyInv, TypeOK
<1>4. \A r \in rooms : r \in RoomIds /\ r < nextRoom
  BY ZenonT(60) DEF LobbyInv, TypeOK, IdsBelowNext
<1>5. \A r \in RoomIds : r < nextRoom => \A x \in members[r] : x < nextPlayer
  BY ZenonT(60) DEF RoomInv, RoomOK, Made
<1>6. ASSUME NEW r \in RoomIds PROVE RoomOK(r)'
  <2>0. RoomOK(r)
    BY ZenonT(60) DEF RoomInv
  <2>1. Made(r)'
    BY ZenonT(60), <1>1, <1>2, <1>3, <2>0 DEF RoomOK, Made, roomVars
  <2>2. Lives(r)' /\ Reported(r)'
    BY ZenonT(60), <1>1, <2>0 DEF RoomOK, Lives, Reported, roomVars
  <2>3. Judged(r)'
    BY ZenonT(60), <1>1, <2>0 DEF RoomOK, Judged, VerdictOK, roomVars
  <2>4. r \in rooms => \A x \in members[r] \cap sessions' :
          x \in sessions /\ conn'[x] = conn[x] /\ roomId'[x] = roomId[x]
    BY ZenonT(60), <1>1, <1>2, <1>3, <1>4, <1>5
  <2>5. Routed(r)' /\ Bound(r)'
    BY ZenonT(60), <1>1, <2>0, <2>4 DEF RoomOK, Routed, Bound, roomVars
  <2> QED
    BY ZenonT(60), <2>1, <2>2, <2>3, <2>5 DEF RoomOK
<1>7. RecordsSettled'
  BY ZenonT(60), <1>1 DEF RoomInv, RecordsSettled
<1>8. ASSUME NEW x \in records
      PROVE  /\ winner[x.room] \in members[x.room]
             /\ \A m \in members[x.room] : account'[m] = account[m]
  <2>1. x.room \in RoomIds /\ roomPhase[x.room] = "ended"
    BY ZenonT(60) DEF LobbyInv, TypeOK, Record, RoomInv, RecordsAreTrue
  <2>2. RoomOK(x.room)
    BY ZenonT(60), <2>1 DEF RoomInv
  <2>3. winner[x.room] \in members[x.room] /\ x.room < nextRoom
    BY ZenonT(60), <2>1, <2>2 DEF RoomOK, Judged, VerdictOK, Made
  <2> QED
    BY ZenonT(60), <1>1, <1>2, <1>3, <1>5, <2>1, <2>3
<1>9. RecordsAreTrue'
  <2> SUFFICES ASSUME NEW x \in records
               PROVE  /\ roomPhase[x.room] = "ended"
                      /\ x.winner = account'[winner[x.room]]
                      /\ \E l \in members[x.room] \ {winner[x.room]} : x.loser = account'[l]
                      /\ \A y \in records : y.room = x.room => y = x
    BY ZenonT(60), <1>1 DEF RecordsAreTrue, roomVars
  <2>1. /\ roomPhase[x.room] = "ended"
        /\ x.winner = account[winner[x.room]]
        /\ \E l \in members[x.room] \ {winner[x.room]} : x.loser = account[l]
        /\ \A y \in records : y.room = x.room => y = x
    BY ZenonT(60) DEF RoomInv, RecordsAreTrue
  <2> QED
    BY ZenonT(60), <1>8, <2>1
<1> QED
  BY ZenonT(60), <1>6, <1>7, <1>9 DEF RoomInv

\* Room ids start at 1.
LEMMA ZeroNoRoom == 0 \notin RoomIds
  BY SMTT(60), BoundsAssumption DEF RoomIds

\* onMatch with a pair: the new room is as Made, Lives, ... want it, and the two
\* were in no other room.
LEMMA PairKeepsRooms ==
  ASSUME LobbyInv, RoomInv, MatchFrame, NEW p \in sessions, state[p] = "kLobby",
         NEW x \in queue.waiting, x # p, NEW ab, {ab[1], ab[2]} = {x, p}, OnMatchPair(p, ab)
  PROVE  RoomInv'
<1> DEFINE t == [op |-> "start", pid |-> 0, conn |-> NoConn]
<1>0. PICK n : n = nextRoom
  OBVIOUS
<1>1. x \in sessions /\ state[x] = "kMatching" /\ x \in Players /\ p \in Players
  BY ZenonT(60) DEF LobbyInv, QueueMatchesState, TypeOK
<1>2. /\ n \in RoomIds /\ n \notin rooms /\ ~(n < nextRoom) /\ n < nextRoom' /\ n # 0
      /\ \A r \in RoomIds \ {n} : r < nextRoom' <=> r < nextRoom
  <2>1. nextRoom \in Nat \ {0} /\ n \in 1..MaxRooms /\ nextRoom' = nextRoom + 1
    BY SMTT(60), <1>0, BoundsAssumption DEF LobbyInv, TypeOK, OnMatchPair
  <2>2. n \notin rooms
    BY SMTT(60), <1>0, <2>1 DEF LobbyInv, IdsBelowNext
  <2> QED
    BY SMTT(60), <1>0, <2>1, <2>2, BoundsAssumption DEF RoomIds
<1>3. x < nextPlayer /\ p < nextPlayer
  BY ZenonT(60), <1>1 DEF LobbyInv, IdsBelowNext
<1>4. UNCHANGED <<sessions, conn, account, nextPlayer, records, winner, ticker, endPosted>>
  BY ZenonT(60) DEF MatchFrame, OnMatchPair
<1>5. /\ rooms' = rooms \cup {n} /\ members'[n] = {x, p} /\ roomPhase'[n] = "created"
      /\ roomQ'[n] = Append(roomQ[n], t)
      /\ \A y \in {x, p} : roomId'[y] = n /\ roomConn'[n][y] = conn[y]
  BY ZenonT(60), <1>0, <1>1, <1>2 DEF OnMatchPair, Posted, LobbyInv, TypeOK
<1>6. /\ \A r \in RoomIds \ {n} :
            /\ members'[r] = members[r] /\ roomPhase'[r] = roomPhase[r]
            /\ roomQ'[r] = roomQ[r] /\ roomConn'[r] = roomConn[r]
      /\ \A y \in Players \ {x, p} : roomId'[y] = roomId[y]
  BY ZenonT(60), <1>0, <1>1, <1>2 DEF OnMatchPair, Posted, LobbyInv, TypeOK
<1>7. roomPhase[n] = "none" /\ roomQ[n] = <<>> /\ ~ticker[n] /\ n \notin endPosted
  BY ZenonT(60), <1>2 DEF RoomInv, RoomOK, Made, Reported
<1>8. RoomOK(n)'
  <2>1. Made(n)'
    BY ZenonT(60), <1>1, <1>2, <1>3, <1>4, <1>5 DEF Made
  <2>2. t \in Task /\ <<>> \in Seq(Task)
    BY SMTT(60), BoundsAssumption DEF Task, Ops
  <2>3. t.op = "start" /\ \A y : ~BindOf(t, y)
    BY ZenonT(60) DEF BindOf
  <2>4. /\ roomQ'[n] # <<>> /\ Head(roomQ'[n]) = t /\ Tail(roomQ'[n]) = <<>>
        /\ roomQ'[n] = Append(<<>>, t)
    BY SMTT(60), <1>5, <1>7
  <2> HIDE DEF t
  <2>5. Lives(n)'
    <3>1. ~Has(<<>>, "start")
      BY SMTT(60) DEF Has
    <3> QED
      BY ZenonT(60), <1>4, <1>5, <1>7, <2>3, <2>4, <3>1 DEF Lives, LifeOK
  <2>6. Judged(n)'
    <3>1. FirstForfeit(<<>>, {x, p})
      BY SMTT(60) DEF FirstForfeit
    <3>2. FirstForfeit(roomQ'[n], {x, p})
      BY ZenonT(60), <2>2, <2>3, <2>4, <3>1, ForfeitAppend
    <3> QED
      BY ZenonT(60), <1>1, <1>4, <1>5, <3>2 DEF Judged, VerdictOK
  <2>7. Reported(n)'
    BY ZenonT(60), <1>4, <1>5, <1>7 DEF Reported
  <2>8. Routed(n)'
    BY ZenonT(60), <1>5 DEF Routed
  <2>9. \A y \in {x, p} : Leaves(roomQ'[n], y, conn[y], conn[y])
    <3>1. \A y : Leaves(<<>>, y, conn[y], conn[y])
      BY SMTT(60) DEF Leaves
    <3> QED
      BY ZenonT(60), <2>2, <2>3, <2>4, <3>1, LeavesAppend
  <2>10. Bound(n)'
    BY ZenonT(60), <1>4, <1>5, <2>9 DEF Bound
  <2> QED
    BY ZenonT(60), <2>1, <2>5, <2>6, <2>7, <2>8, <2>10 DEF RoomOK
<1>9. ASSUME NEW r \in RoomIds, r # n PROVE RoomOK(r)'
  <2>0. /\ RoomOK(r) /\ members'[r] = members[r] /\ roomPhase'[r] = roomPhase[r]
        /\ roomQ'[r] = roomQ[r] /\ roomConn'[r] = roomConn[r]
        /\ r \in rooms' <=> r \in rooms
    BY ZenonT(60), <1>5, <1>6, <1>9 DEF RoomInv
  <2>1. Made(r)'
    BY ZenonT(60), <1>2, <1>4, <1>9, <2>0 DEF RoomOK, Made
  <2>2. Lives(r)' /\ Reported(r)'
    BY ZenonT(60), <1>4, <2>0 DEF RoomOK, Lives, Reported
  <2>3. Judged(r)'
    BY ZenonT(60), <1>4, <2>0 DEF RoomOK, Judged
  <2>4. ASSUME r \in rooms, NEW y \in members[r] \cap sessions
        PROVE  roomId'[y] = roomId[y]
    <3>1. y \in Players /\ roomId[y] # 0
      BY ZenonT(60), <2>0, <2>4, ZeroNoRoom DEF RoomOK, Routed, LobbyInv, TypeOK
    <3>2. state[y] = "kInRoom"
      BY ZenonT(60), <2>4, <3>1 DEF LobbyInv, InRoomIsRouted
    <3> QED
      BY ZenonT(60), <1>1, <1>6, <3>1, <3>2
  <2>5. Routed(r)' /\ Bound(r)'
    BY ZenonT(60), <1>4, <2>0, <2>4 DEF RoomOK, Routed, Bound
  <2> QED
    BY ZenonT(60), <2>1, <2>2, <2>3, <2>5 DEF RoomOK
<1>10. \A y \in records : y.room # n /\ y.room \in RoomIds
  BY ZenonT(60), <1>7 DEF RoomInv, RecordsAreTrue, LobbyInv, TypeOK, Record
<1>11. RecordsSettled'
  BY ZenonT(60), <1>4, <1>5, <1>10 DEF RoomInv, RecordsSettled
<1>12. RecordsAreTrue'
  BY ZenonT(60), <1>4, <1>6, <1>10 DEF RoomInv, RecordsAreTrue
<1> QED
  BY ZenonT(60), <1>8, <1>9, <1>11, <1>12 DEF RoomInv

\* onRoomEnd: its sessions leave it, and its result is stored once, with the
\* accounts of the winner the room announced and of the other player.
LEMMA RoomEndKeepsRooms ==
  ASSUME LobbyInv, RoomInv, NEW r \in RoomIds, OnRoomEnd(r)
  PROVE  RoomInv'
<1> DEFINE inRoom == {p \in sessions : roomId[p] = r}
<1>1. /\ r \in endPosted /\ endPosted' = endPosted \ {r} /\ rooms' = rooms \ {r}
      /\ records' = records \cup Result(r, inRoom)
      /\ \A p \in Players \ inRoom : roomId'[p] = roomId[p]
      /\ UNCHANGED <<sessions, conn, account, nextPlayer, nextRoom, members,
                     roomConn, roomPhase, winner, ticker, roomQ>>
  BY ZenonT(60) DEF OnRoomEnd, SentBack
<1>2. ASSUME NEW s \in RoomIds PROVE RoomOK(s)'
  <2>0. RoomOK(s)
    BY ZenonT(60) DEF RoomInv
  <2>1. Made(s)' /\ Lives(s)' /\ Judged(s)'
    BY ZenonT(60), <1>1, <2>0 DEF RoomOK, Made, Lives, Judged
  <2>2. Reported(s)'
    BY ZenonT(60), <1>1, <2>0 DEF RoomOK, Reported, Undecided
  <2>3. s \in rooms' => s \in rooms /\ \A p \in members[s] \cap sessions : roomId'[p] = roomId[p]
    BY ZenonT(60), <1>1, <2>0 DEF RoomOK, Routed, LobbyInv, TypeOK
  <2>4. Routed(s)' /\ Bound(s)'
    BY ZenonT(60), <1>1, <2>0, <2>3 DEF RoomOK, Routed, Bound
  <2> QED
    BY ZenonT(60), <2>1, <2>2, <2>4 DEF RoomOK
<1>3. r \in rooms /\ roomPhase[r] = "ended" /\ r < nextRoom
  BY ZenonT(60), <1>1 DEF RoomInv, RoomOK, Reported, Made
<1>4. PICK a, b \in Players : a # b /\ members[r] = {a, b}
  BY ZenonT(60), <1>3 DEF RoomInv, RoomOK, Made
<1>5. inRoom \subseteq members[r]
  BY ZenonT(60), ZeroNoRoom DEF LobbyInv, InRoomIsRouted
<1>6. ASSUME NEW x \in Result(r, inRoom)
      PROVE  /\ x.room = r /\ x.winner = account[winner[r]]
             /\ \E l \in members[r] \ {winner[r]} : x.loser = account[l]
  <2> HIDE DEF inRoom
  <2> QED
    BY SMTT(60), <1>5, <1>6 DEF Result
<1>7. ASSUME NEW x \in Result(r, inRoom), NEW y \in Result(r, inRoom)
      PROVE  x = y
  <2> HIDE DEF inRoom
  <2>1. PICK w1 \in inRoom \cap {winner[r]}, l1 \in inRoom \ {winner[r]} :
          x = [room |-> r, winner |-> account[w1], loser |-> account[l1]]
    BY SMTT(60), <1>7 DEF Result
  <2>2. PICK w2 \in inRoom \cap {winner[r]}, l2 \in inRoom \ {winner[r]} :
          y = [room |-> r, winner |-> account[w2], loser |-> account[l2]]
    BY SMTT(60), <1>7 DEF Result
  <2>3. w1 = w2 /\ l1 = l2
    BY ZenonT(60), <1>4, <1>5
  <2> QED
    BY ZenonT(60), <2>1, <2>2, <2>3
<1>8. \A x \in records : x.room # r /\ x.room \notin rooms
  BY ZenonT(60), <1>3 DEF RoomInv, RecordsSettled
<1>9. RecordsSettled'
  BY ZenonT(60), <1>1, <1>6, <1>8 DEF RecordsSettled
<1>10. RecordsAreTrue'
  <2> HIDE DEF inRoom
  <2> SUFFICES ASSUME NEW x \in records'
               PROVE  /\ roomPhase[x.room] = "ended"
                      /\ x.winner = account[winner[x.room]]
                      /\ \E l \in members[x.room] \ {winner[x.room]} : x.loser = account[l]
                      /\ \A y \in records' : y.room = x.room => y = x
    BY ZenonT(60), <1>1 DEF RecordsAreTrue
  <2>1. CASE x \in records
    <3>1. /\ roomPhase[x.room] = "ended"
          /\ x.winner = account[winner[x.room]]
          /\ \E l \in members[x.room] \ {winner[x.room]} : x.loser = account[l]
          /\ \A y \in records : y.room = x.room => y = x
      BY ZenonT(60), <2>1 DEF RoomInv, RecordsAreTrue
    <3>2. \A y \in Result(r, inRoom) : y.room # x.room
      BY ZenonT(60), <1>6, <1>8, <2>1
    <3> QED
      BY ZenonT(60), <1>1, <3>1, <3>2
  <2>2. CASE x \in Result(r, inRoom)
    <3>1. \A y \in records : y.room # x.room
      BY ZenonT(60), <1>6, <1>8, <2>2
    <3> QED
      BY ZenonT(60), <1>1, <1>3, <1>6, <1>7, <2>2, <3>1
  <2> QED
    BY ZenonT(60), <1>1, <2>1, <2>2
<1> QED
  BY ZenonT(60), <1>2, <1>9, <1>10 DEF RoomInv

\* A session a room was made for is found in it by the lobby's handlers.
LEMMA MemberFound ==
  ASSUME LobbyInv, RoomInv, NEW r \in rooms, NEW p \in members[r] \cap sessions
  PROVE  RoomFound(p) /\ roomId[p] = r /\ r \in RoomIds /\ p \in Players
<1>1. r \in RoomIds /\ p \in Players
  BY ZenonT(60) DEF LobbyInv, TypeOK
<1>2. roomId[p] = r
  BY ZenonT(60), <1>1 DEF RoomInv, RoomOK, Routed
<1>3. state[p] = "kInRoom"
  BY ZenonT(60), <1>1, <1>2, ZeroNoRoom DEF LobbyInv, InRoomIsRouted
<1> QED
  BY ZenonT(60), <1>1, <1>2, <1>3 DEF RoomFound

\* Steps that touch nothing the rooms depend on.
LEMMA RoomsUntouched ==
  ASSUME RoomInv, UNCHANGED <<sessions, conn, roomId, account, nextPlayer, nextRoom,
                              rooms, members, records, roomVars>>
  PROVE  RoomInv'
<1>1. ASSUME NEW r \in RoomIds PROVE RoomOK(r)'
  <2>0. RoomOK(r)
    BY ZenonT(60) DEF RoomInv
  <2>1. Made(r)' /\ Lives(r)' /\ Judged(r)'
    BY ZenonT(60), <2>0 DEF RoomOK, Made, Lives, Judged, roomVars
  <2>2. Reported(r)' /\ Routed(r)' /\ Bound(r)'
    BY ZenonT(60), <2>0 DEF RoomOK, Reported, Routed, Bound, roomVars
  <2> QED
    BY ZenonT(60), <2>1, <2>2 DEF RoomOK
<1>2. RecordsSettled' /\ RecordsAreTrue'
  BY ZenonT(60) DEF RoomInv, RecordsSettled, RecordsAreTrue, roomVars
<1> QED
  BY ZenonT(60), <1>1, <1>2 DEF RoomInv

\* onReconnect and onDisconnect: the session and its room learn the same
\* connection c.
Rebinds(op, p, c) ==
  /\ conn' = [conn EXCEPT ![p] = c]
  /\ roomQ' = PostedIf(RoomFound(p), roomId[p], op, p, c)
  /\ UNCHANGED <<sessions, roomId, account, nextPlayer, nextRoom, rooms, members,
                 records, roomConn, roomPhase, winner, ticker, endPosted>>

\* Such a step keeps the invariant.
LEMMA RebindKeepsRooms ==
  ASSUME LobbyInv, RoomInv, NEW p \in sessions, NEW c \in Conns \cup {NoConn},
         NEW op \in {"rebind", "dropConn"}, Rebinds(op, p, c)
  PROVE  RoomInv'
<1>s. PICK s : s = roomId[p]
  BY ZenonT(60)
<1>0. PICK b \in BOOLEAN : b = RoomFound(p) /\ s = roomId[p]
  BY ZenonT(60), <1>s DEF RoomFound
<1> DEFINE t == [op |-> op, pid |-> p, conn |-> c]
<1>1. t \in Task
  <2>1. p \in 0..MaxPlayers
    BY SMTT(60), BoundsAssumption DEF LobbyInv, TypeOK, Players
  <2> QED
    BY ZenonT(60), <2>1 DEF Task, Ops
<1>2. t.op # "start" /\ t.op # "forceEnd" /\ t.conn = c /\ \A x : BindOf(t, x) <=> x = p
  BY ZenonT(60) DEF BindOf
<1>3. roomQ' = IF b THEN [roomQ EXCEPT ![s] = Append(@, t)] ELSE roomQ
  BY ZenonT(60), <1>0 DEF Rebinds, PostedIf, Posted
<1>4. b => s \in rooms
  BY ZenonT(60), <1>0 DEF RoomFound
<1> HIDE DEF t
<1>5. ASSUME NEW r \in rooms, NEW x \in members[r] \cap sessions
      PROVE  IF b /\ r = s /\ BindOf(t, x) THEN t.conn = conn'[x] ELSE conn'[x] = conn[x]
  <2>1. RoomFound(x) /\ roomId[x] = r /\ x \in Players
    BY ZenonT(60), MemberFound
  <2>2. conn'[x] = IF x = p THEN c ELSE conn[x]
    BY ZenonT(60), <2>1 DEF Rebinds, LobbyInv, TypeOK
  <2> QED
    BY ZenonT(60), <1>0, <1>2, <2>1, <2>2
<1>6. /\ sessions' \subseteq sessions /\ \A x \in sessions' : roomId'[x] = roomId[x]
      /\ b /\ t.op = "forceEnd" /\ Undecided(roomPhase[s]) =>
            t.pid \in members[s] \/ Has(roomQ[s], "forceEnd")
      /\ \A r \in RoomIds : Undecided(roomPhase[r]) /\ members[r] \subseteq sessions =>
            members[r] \subseteq sessions' \/ (b /\ r = s /\ t.op = "forceEnd")
      /\ t.op # "start"
  BY ZenonT(60), <1>2 DEF Rebinds
<1>7. \A r \in rooms : \A x \in members[r] \cap sessions' :
         IF b /\ r = s /\ BindOf(t, x) THEN t.conn = conn'[x] ELSE conn'[x] = conn[x]
  BY ZenonT(60), <1>5 DEF Rebinds
<1>8. UNCHANGED <<nextRoom, rooms, members, account, nextPlayer, records,
                  roomConn, roomPhase, winner, ticker, endPosted>>
  BY ZenonT(60) DEF Rebinds
<1>9. PostsOnly(b, s, t)
  BY ZenonT(60), <1>3, <1>4, <1>6, <1>7, <1>8 DEF PostsOnly
<1> QED
  BY ZenonT(60), <1>1, <1>9, LobbyPost

\* onInput posts an input, which decides nothing.
LEMMA InputKeepsRooms ==
  ASSUME LobbyInv, RoomInv, NEW c \in Conns, OnInput(c)
  PROVE  RoomInv'
<1>0. PICK p, s : p = SessionOf(c) /\ s = roomId[p]
  OBVIOUS
<1> DEFINE t == [op |-> "input", pid |-> p, conn |-> NoConn]
<1>1. p \in sessions /\ s \in rooms
  BY ZenonT(60), <1>0 DEF OnInput, SessionOf, RoomFound
<1>2. t \in Task
  <2>1. p \in 0..MaxPlayers
    BY SMTT(60), <1>1, BoundsAssumption DEF LobbyInv, TypeOK, Players
  <2> QED
    BY ZenonT(60), <2>1 DEF Task, Ops
<1>3. t.op = "input" /\ \A x : ~BindOf(t, x)
  BY ZenonT(60) DEF BindOf
<1>4. roomQ' = [roomQ EXCEPT ![s] = Append(@, t)]
  BY ZenonT(60), <1>0 DEF OnInput, Posted
<1>5. UNCHANGED <<lobbyVars, roomConn, roomPhase, winner, ticker, endPosted>>
  BY ZenonT(60) DEF OnInput
<1> HIDE DEF t
<1>6. PostsOnly(TRUE, s, t)
  BY ZenonT(60), <1>1, <1>3, <1>4, <1>5 DEF PostsOnly, lobbyVars
<1> QED
  BY ZenonT(60), <1>2, <1>6, LobbyPost

\* expireSession: the forfeit names the opponent, or is not the first.
LEMMA ExpireKeepsRooms ==
  ASSUME LobbyInv, RoomInv, NEW u \in timers, ExpireSession(u)
  PROVE  RoomInv'
<1>1. PICK p : p = u.pid
  OBVIOUS
<1>s. PICK s, o : s = roomId[p] /\ o = Opponent(p)
  BY ZenonT(60)
<1>2. PICK b \in BOOLEAN : b = RoomFound(p) /\ s = roomId[p] /\ o = Opponent(p)
  BY ZenonT(60), <1>s DEF RoomFound
<1> DEFINE others == {x \in sessions : roomId[x] = roomId[p] /\ x # p}
<1>3. UNCHANGED <<conn, account, nextPlayer, nextRoom, rooms, members, records,
                  roomConn, roomPhase, winner, ticker, endPosted>>
  BY ZenonT(60) DEF ExpireSession
<1>4. CASE ~(p \in sessions /\ conn[p] = NoConn)
  BY ZenonT(60), <1>1, <1>2, <1>3, <1>4, RoomsUntouched DEF ExpireSession, roomVars
<1>5. CASE p \in sessions /\ conn[p] = NoConn
  <2> DEFINE t == [op |-> "forceEnd", pid |-> o, conn |-> NoConn]
  <2>1. /\ sessions' = sessions \ {p}
        /\ roomId' = [roomId EXCEPT ![p] = 0]
        /\ roomQ' = IF b THEN [roomQ EXCEPT ![s] = Append(@, t)] ELSE roomQ
    BY ZenonT(60), <1>1, <1>2, <1>5 DEF ExpireSession, PostedIf, Posted
  <2>2. \A x \in sessions' : x \in sessions /\ x # p /\ roomId'[x] = roomId[x]
    BY ZenonT(60), <2>1 DEF LobbyInv, TypeOK
  <2>3. IF others = {} THEN o = 0 ELSE o \in others
    BY ZenonT(60), <1>2 DEF Opponent
  <2>4. t \in Task
    <3>1. o \in 0..MaxPlayers
      <4>1. o = 0 \/ o \in Players
        BY ZenonT(60), <2>3 DEF LobbyInv, TypeOK
      <4> QED
        BY SMTT(60), <4>1, BoundsAssumption DEF Players
    <3> QED
      BY ZenonT(60), <3>1 DEF Task, Ops
  <2>5. t.op = "forceEnd" /\ t.pid = o /\ \A x : ~BindOf(t, x)
    BY ZenonT(60) DEF BindOf
  <2>6. b => s \in rooms /\ s \in RoomIds /\ p \in members[s]
    BY ZenonT(60), <1>1, <1>2, <1>5 DEF RoomFound, LobbyInv, TypeOK, InRoomIsRouted
  <2> HIDE DEF t
  <2>7. ASSUME b, Undecided(roomPhase[s])
        PROVE  o \in members[s] \/ Has(roomQ[s], "forceEnd")
    <3>1. RoomOK(s) /\ s < nextRoom
      BY ZenonT(60), <2>6, <2>7 DEF RoomInv, LobbyInv, IdsBelowNext
    <3>2. CASE members[s] \subseteq sessions
      <4>1. PICK x \in members[s] : x # p
        BY ZenonT(60), <3>1 DEF RoomOK, Made
      <4>2. x \in others
        BY ZenonT(60), <1>1, <1>2, <2>6, <2>7, <3>1, <3>2, <4>1 DEF RoomOK, Routed
      <4>3. o \in sessions /\ roomId[o] = s
        BY ZenonT(60), <1>1, <1>2, <2>3, <4>2
      <4> QED
        BY ZenonT(60), <2>6, <2>7, <4>3, ZeroNoRoom DEF LobbyInv, InRoomIsRouted
    <3> QED
      BY ZenonT(60), <2>7, <3>1, <3>2 DEF RoomOK, Judged, VerdictOK
  <2>8. ASSUME NEW r \in RoomIds, Undecided(roomPhase[r]), members[r] \subseteq sessions
        PROVE  members[r] \subseteq sessions' \/ (b /\ r = s)
    <3>1. r \in rooms
      BY ZenonT(60), <2>8 DEF RoomInv, RoomOK, Reported
    <3>2. p \in members[r] => RoomFound(p) /\ roomId[p] = r
      BY ZenonT(60), <1>5, <3>1, MemberFound
    <3> QED
      BY ZenonT(60), <1>1, <1>2, <2>1, <2>8, <3>2
  <2>9. /\ sessions' \subseteq sessions /\ \A x \in sessions' : roomId'[x] = roomId[x]
        /\ \A r \in rooms : \A x \in members[r] \cap sessions' :
              IF b /\ r = s /\ BindOf(t, x) THEN t.conn = conn'[x] ELSE conn'[x] = conn[x]
    BY ZenonT(60), <1>3, <2>2, <2>5
  <2>10. /\ b /\ t.op = "forceEnd" /\ Undecided(roomPhase[s]) =>
              t.pid \in members[s] \/ Has(roomQ[s], "forceEnd")
         /\ \A r \in RoomIds : Undecided(roomPhase[r]) /\ members[r] \subseteq sessions =>
              members[r] \subseteq sessions' \/ (b /\ r = s /\ t.op = "forceEnd")
         /\ b => s \in rooms
         /\ t.op # "start"
    BY ZenonT(60), <2>5, <2>6, <2>7, <2>8
  <2>11. roomQ' = IF b THEN [roomQ EXCEPT ![s] = Append(@, t)] ELSE roomQ
    BY ZenonT(60), <2>1
  <2>12. PostsOnly(b, s, t)
    BY ZenonT(60), <1>3, <2>9, <2>10, <2>11 DEF PostsOnly
  <2> QED
    BY ZenonT(60), <2>4, <2>12, LobbyPost
<1> QED
  BY ZenonT(60), <1>4, <1>5

\* Every step keeps the invariant.
LEMMA RoomInvStep == LobbyInv /\ RoomInv /\ [Next]_vars => RoomInv'
<1> SUFFICES ASSUME LobbyInv, RoomInv, [Next]_vars PROVE RoomInv'
  OBVIOUS
<1>1. CASE \E c \in Conns, a \in Accounts : OnLogin(c, a)
  BY ZenonT(60), <1>1, LoginKeepsRooms
<1>2. ASSUME NEW c \in Conns, NEW p \in Players, NEW ok \in BOOLEAN, OnReconnect(c, p, ok)
      PROVE  RoomInv'
  <2>1. p \in sessions /\ Rebinds("rebind", p, c)
    BY ZenonT(60), <1>2 DEF OnReconnect, Refused, Rebinds
  <2> QED
    BY ZenonT(60), <2>1, RebindKeepsRooms
<1>3. ASSUME NEW c \in Conns, NEW p \in Players, NEW ok \in BOOLEAN,
             OnReconnectRefused(c, p, ok)
      PROVE  RoomInv'
  BY ZenonT(60), <1>3, RoomsUntouched DEF OnReconnectRefused
<1>4. ASSUME NEW c \in Conns, OnMatch(c) PROVE RoomInv'
  <2>1. PICK p : p = SessionOf(c)
    OBVIOUS
  <2>2. MatchFrame
    BY ZenonT(60), <1>4 DEF OnMatch, MatchFrame
  <2>3. p \in sessions /\ state[p] = "kLobby" /\
        (\/ OnMatchWait(p)
         \/ \E x \in queue.waiting : \E ab : x # p /\ {ab[1], ab[2]} = {x, p} /\ OnMatchPair(p, ab))
    BY ZenonT(60), <1>4, <2>1, MatchOutcomes
  <2>4. CASE OnMatchWait(p)
    BY ZenonT(60), <2>2, <2>4, RoomsUntouched DEF MatchFrame, OnMatchWait
  <2> QED
    BY ZenonT(60), <2>2, <2>3, <2>4, PairKeepsRooms
<1>5. CASE \E c \in Conns : OnInput(c)
  BY ZenonT(60), <1>5, InputKeepsRooms
<1>6. ASSUME NEW c \in Conns, OnDisconnect(c) PROVE RoomInv'
  <2>1. PICK p : p = connToPlayer[c]
    OBVIOUS
  <2>2. p \in sessions
    BY ZenonT(60), <1>6, <2>1 DEF OnDisconnect, LobbyInv, BindingOneToOne
  <2>3. Rebinds("dropConn", p, NoConn)
    BY ZenonT(60), <1>6, <2>1, <2>2 DEF OnDisconnect, Rebinds
  <2> QED
    BY ZenonT(60), <2>2, <2>3, RebindKeepsRooms
<1>7. ASSUME NEW t \in timers, MatchTimeout(t) PROVE RoomInv'
  BY ZenonT(60), <1>7, RoomsUntouched DEF MatchTimeout
<1>8. CASE \E t \in timers : ExpireSession(t)
  BY ZenonT(60), <1>8, ExpireKeepsRooms
<1>9. CASE \E r \in RoomIds : OnRoomEnd(r)
  BY ZenonT(60), <1>9, RoomEndKeepsRooms
<1>10. CASE \E r \in RoomIds : RoomFunctor(r) \/ \E w \in Players : RoomTick(r, w)
  BY ZenonT(60), <1>10, RoomThreadKeeps DEF LobbyInv
<1>11. CASE UNCHANGED vars
  BY ZenonT(60), <1>11, RoomsUntouched DEF vars, lobbyVars
<1> QED
  BY ZenonT(60), <1>1, <1>2, <1>3, <1>4, <1>5, <1>6, <1>7, <1>8, <1>9, <1>10, <1>11
     DEF Next, TimerFires

-----------------------------------------------------------------------------
(* The theorems.                                                           *)

\* The life of every room follows RoomInv, however the lobby's handlers, the
\* timers and the room threads interleave.
THEOREM RoomInvHolds == Spec => []RoomInv
  BY RoomInvInit, RoomInvStep, LobbyInvHolds, PTL DEF Spec

\* A decided battle is reported to the lobby exactly once and is won by one of
\* its two players, although expireSession passes winner 0 to forceEnd when both
\* sessions are gone: such a forfeit is never the first (endBattle, onRoomEnd).
THEOREM EndReportedOnceHolds == Spec => []EndReportedOnce
<1>1. LobbyInv /\ RoomInv => EndReportedOnce
  BY ZenonT(60), RoomInvImplies DEF LobbyInv
<1> QED
  BY <1>1, LobbyInvHolds, RoomInvHolds, PTL

\* A room to which nothing refers any more has no ticker: endBattle's functor
\* destroyed it on the room's own loop (Room::endBattle, PeriodicTimer).
THEOREM FreedRoomHasNoTickerHolds == Spec => []FreedRoomHasNoTicker
<1>1. LobbyInv /\ RoomInv => FreedRoomHasNoTicker
  BY ZenonT(60), RoomInvImplies DEF LobbyInv
<1> QED
  BY <1>1, LobbyInvHolds, RoomInvHolds, PTL

\* A stored result names the winner the room announced and the other player, and
\* there is one per room at most (onRoomEnd).
THEOREM RecordsAreTrueHolds == Spec => []RecordsAreTrue
<1>1. RoomInv => RecordsAreTrue
  BY ZenonT(60) DEF RoomInv
<1> QED
  BY <1>1, RoomInvHolds, PTL

\* A room on whose FIFO no rebind or dropConn of a player waits sends to the
\* connection the lobby has for that player (onReconnect, onDisconnect, rebind,
\* dropConn).
THEOREM RoomBindingConvergesHolds == Spec => []RoomBindingConverges
<1>1. LobbyInv /\ RoomInv => RoomBindingConverges
  BY ZenonT(60), RoomInvImplies DEF LobbyInv
<1> QED
  BY <1>1, LobbyInvHolds, RoomInvHolds, PTL
=============================================================================
