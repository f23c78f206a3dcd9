---------------------------- MODULE BattleProofs ----------------------------
(***************************************************************************)
(* The safety of Battle for any damage, cooldown, range and length, and    *)
(* for any lag of the clients: the view of a client that has read its      *)
(* connection is the server's state, a delta removes only what the client  *)
(* holds, and the cooldown bounds the projectiles in flight.  All of it is *)
(* for clients that send finite directions, as Battle assumes.             *)
(***************************************************************************)
EXTENDS Battle, QueueLemmas

Shot == [id : Nat, owner : Players, age : Nat]
Partial(D, R) == UNION {[A -> R] : A \in SUBSET D}
PlayerStates == Partial(Players, Nat \X Nat)
AllShotStates == Partial(Nat, Nat)
Snapshot ==
  [full : BOOLEAN, tick : Nat, removed : SUBSET Nat, shots : AllShotStates,
   players : PlayerStates]
View == [tick : Nat, players : PlayerStates, shots : AllShotStates]

\* The values the variables range over.
BattleType ==
  /\ started \in BOOLEAN /\ tick \in Nat /\ nextShot \in Nat
  /\ hp \in [Players -> Nat] /\ pos \in [Players -> Nat] /\ cd \in [Players -> Nat]
  /\ shots \subseteq Shot
  /\ conns \subseteq Clients
  /\ chan \in [Clients -> Seq(Snapshot)]
  /\ view \in [Clients -> View]

\* Ids are given once, and a projectile is gone when its range is used up.
IdsOK ==
  /\ \A x \in shots : x.id < nextShot /\ x.age < RangeTicks
  /\ \A x, y \in shots : x.id = y.id => x = y

\* The cooldown keeps the projectiles of a player apart: by as many ticks of
\* flight as it takes, and the last one by what is left of it.
Spaced ==
  /\ \A x \in shots : x.age + cd[x.owner] >= CdTicks
  /\ \A x, y \in shots : x.owner = y.owner /\ x # y =>
       x.age + CdTicks <= y.age \/ y.age + CdTicks <= x.age

\* What the client holds when it comes to the i-th snapshot of q, if it holds v
\* now: as to projectiles, what the one before carried; and what the last left.
Before(q, v, i) == IF i = 1 THEN v ELSE q[i - 1]
Newest(q, v) == IF q = <<>> THEN v ELSE q[Len(q)]

\* Snapshot s can be laid over v: a full one names everybody and removes nothing,
\* a delta is newer, removes only projectiles of v and names the others.
Follows(v, s) ==
  IF s.full
  THEN s.removed = {} /\ DOMAIN s.players = Players
  ELSE /\ v.tick < s.tick
       /\ s.removed \subseteq DOMAIN v.shots
       /\ DOMAIN v.shots \subseteq DOMAIN s.shots \cup s.removed
       /\ DOMAIN s.shots \cap s.removed = {}

\* The snapshots on the way follow each other, and the last is up to date.
Chain(p) ==
  /\ \A i \in DOMAIN chan[p] : Follows(Before(chan[p], view[p], i), chan[p][i])
  /\ Newest(chan[p], view[p]).tick <= tick
  /\ Newest(chan[p], view[p]).shots = ShotStates(shots)

\* What a snapshot says of player w.
Now(w) == <<hp[w], pos[w]>>

\* The last snapshot on the way that names player w has w's state; if none does,
\* the client has it.
Told(p, w) ==
  /\ \A i \in DOMAIN chan[p] :
       /\ w \in DOMAIN chan[p][i].players
       /\ \A j \in DOMAIN chan[p] : i < j => w \notin DOMAIN chan[p][j].players
       => chan[p][i].players[w] = Now(w)
  /\ (\A i \in DOMAIN chan[p] : w \notin DOMAIN chan[p][i].players) =>
       w \in DOMAIN view[p].players /\ view[p].players[w] = Now(w)

\* The feed of a client: nothing while it is not connected.
Feed(p) ==
  IF started /\ p \in conns
  THEN Chain(p) /\ \A w \in Players : Told(p, w)
  ELSE chan[p] = <<>>

\* The inductive invariant.
BattleInv == BattleType /\ IdsOK /\ Spaced /\ \A p \in Clients : Feed(p)

-----------------------------------------------------------------------------
(* Partial functions and the snapshots on the way.                         *)

\* A member of Partial(D, R) is a function on a part of D.
LEMMA PartialFcn ==
  ASSUME NEW D, NEW R, NEW f
  PROVE  f \in Partial(D, R) <=> DOMAIN f \subseteq D /\ f \in [DOMAIN f -> R]
  BY ZenonT(60) DEF Partial

\* Functions that agree everywhere are equal.
LEMMA SameFcn ==
  ASSUME NEW D, NEW R, NEW f \in [D -> R], NEW g \in [D -> R], \A k \in D : f[k] = g[k]
  PROVE  f = g
  BY SMTT(60)

\* m is old with the entries of new, without those of gone.
Merges(m, old, new, gone) ==
  /\ DOMAIN m = (DOMAIN old \cup DOMAIN new) \ gone
  /\ \A k \in DOMAIN m : m[k] = IF k \in DOMAIN new THEN new[k] ELSE old[k]

\* What the client makes of two of them.
LEMMA OverlayFacts ==
  ASSUME NEW D, NEW R, NEW old \in Partial(D, R), NEW new \in Partial(D, R), NEW gone
  PROVE  /\ Overlay(old, new, gone) \in Partial(D, R)
         /\ Merges(Overlay(old, new, gone), old, new, gone)
<1> DEFINE K == (DOMAIN old \cup DOMAIN new) \ gone
           o == Overlay(old, new, gone)
<1>1. /\ DOMAIN old \subseteq D /\ old \in [DOMAIN old -> R]
      /\ DOMAIN new \subseteq D /\ new \in [DOMAIN new -> R]
  BY ZenonT(60), PartialFcn
<1>2. o = [k \in K |-> IF k \in DOMAIN new THEN new[k] ELSE old[k]]
  BY ZenonT(60) DEF Overlay
<1>3. DOMAIN o = K /\ \A k \in K : o[k] = IF k \in DOMAIN new THEN new[k] ELSE old[k]
  BY ZenonT(60), <1>2
<1>4. K \subseteq D /\ \A k \in K : (IF k \in DOMAIN new THEN new[k] ELSE old[k]) \in R
  BY ZenonT(60), <1>1
<1>5. o \in [K -> R]
  BY ZenonT(60), <1>2, <1>4
<1>6. o \in Partial(D, R)
  BY ZenonT(60), <1>3, <1>4, <1>5, PartialFcn
<1> QED
  BY ZenonT(60), <1>3, <1>6 DEF Merges

\* Before the first snapshot the client holds nothing.
LEMMA NoViewType ==
  /\ NoView \in View /\ NoView.tick = 0
  /\ NoView.players = <<>> /\ NoView.shots = <<>>
  /\ DOMAIN NoView.players = {} /\ DOMAIN NoView.shots = {}
<1>1. \A R : DOMAIN <<>> = {} /\ <<>> \in [{} -> R]
  BY SMTT(60)
<1>2. <<>> \in PlayerStates /\ <<>> \in AllShotStates
  BY ZenonT(60), <1>1, PartialFcn DEF PlayerStates, AllShotStates
<1>3. 0 \in Nat
  BY SMTT(60)
<1> QED
  BY ZenonT(60), <1>1, <1>2, <1>3 DEF NoView, View

\* A snapshot that is sent comes after the newest, and is the newest.
LEMMA BeforeAppend ==
  ASSUME NEW S, NEW q \in Seq(S), NEW t \in S, NEW v
  PROVE  /\ \A i \in DOMAIN q : Before(Append(q, t), v, i) = Before(q, v, i)
         /\ Before(Append(q, t), v, Len(q) + 1) = Newest(q, v)
         /\ Newest(Append(q, t), v) = t
<1> DEFINE a == Append(q, t)
<1>1. /\ a \in Seq(S) /\ a # <<>> /\ Len(a) = Len(q) + 1 /\ a[Len(q) + 1] = t
      /\ \A i \in DOMAIN q : a[i] = q[i]
  <2>1. Len(a) = Len(q) + 1
    BY ZenonT(60), AppendProperties
  <2> QED
    BY SMTT(60), <2>1, AppendAt
<1>2. Len(q) \in Nat /\ DOMAIN q = 1..Len(q) /\ (q = <<>> <=> Len(q) = 0)
  BY ZenonT(60), LenProperties, EmptySeq
<1> HIDE DEF a
<1>3. Newest(a, v) = t
  BY ZenonT(60), <1>1 DEF Newest
<1>4. ASSUME NEW i \in DOMAIN q PROVE Before(a, v, i) = Before(q, v, i)
  <2>1. i # 1 => i - 1 \in DOMAIN q
    BY SMTT(60), <1>2
  <2> QED
    BY ZenonT(60), <1>1, <2>1 DEF Before
<1>5. Before(a, v, Len(q) + 1) = Newest(q, v)
  <2>1. (Len(q) + 1) - 1 = Len(q) /\ (Len(q) + 1 = 1 <=> q = <<>>) /\ (q # <<>> => Len(q) \in DOMAIN q)
    BY SMTT(60), <1>2
  <2> QED
    BY ZenonT(60), <1>1, <2>1 DEF Before, Newest
<1> QED
  BY ZenonT(60), <1>3, <1>4, <1>5 DEF a

\* A sequence a of snapshots on the way to a client that holds w, after the same
\* sequence with h in front on the way to a client that holds v.
Shifts(q, v, h, a, w) ==
  /\ Before(q, v, 1) = v
  /\ \A i \in DOMAIN a :
       IF i = 1 THEN Before(a, w, i) = w /\ Before(q, v, i + 1) = h
                ELSE Before(a, w, i) = Before(q, v, i + 1)
  /\ IF a = <<>> THEN Newest(q, v) = h /\ Newest(a, w) = w
                 ELSE Newest(a, w) = Newest(q, v)

\* When the head is read and the client holds w instead of v, w takes its place.
LEMMA BeforeTail ==
  ASSUME NEW S, NEW q \in Seq(S), q # <<>>, NEW v, NEW w
  PROVE  Shifts(q, v, Head(q), Tail(q), w)
<1> DEFINE a == Tail(q)
<1>1. /\ a \in Seq(S) /\ 1 \in DOMAIN q /\ q[1] = Head(q)
      /\ \A i \in DOMAIN a : i + 1 \in DOMAIN q /\ a[i] = q[i + 1]
  BY ZenonT(60), TailAt
<1>2. Len(q) \in Nat /\ Len(a) = Len(q) - 1 /\ DOMAIN a = 1..Len(a) /\ (a = <<>> <=> Len(a) = 0)
  <2>1. Len(q) \in Nat /\ DOMAIN a = 1..Len(a) /\ (a = <<>> <=> Len(a) = 0)
    BY ZenonT(60), <1>1, LenProperties, EmptySeq
  <2> QED
    BY ZenonT(60), <2>1, HeadTailProperties
<1> HIDE DEF a
<1>3. Before(q, v, 1) = v
  BY ZenonT(60) DEF Before
<1>4. ASSUME NEW i \in DOMAIN a
      PROVE  IF i = 1 THEN Before(a, w, i) = w /\ Before(q, v, i + 1) = Head(q)
                      ELSE Before(a, w, i) = Before(q, v, i + 1)
  <2>1. (i + 1) - 1 = i /\ i + 1 # 1 /\ (i # 1 => i - 1 \in DOMAIN a /\ (i - 1) + 1 = i)
    BY SMTT(60), <1>2
  <2> QED
    BY ZenonT(60), <1>1, <2>1 DEF Before
<1>5. IF a = <<>> THEN Newest(q, v) = Head(q) /\ Newest(a, w) = w
                  ELSE Newest(a, w) = Newest(q, v)
  <2>1. (a = <<>> => Len(q) = 1) /\ (a # <<>> => Len(a) \in DOMAIN a /\ Len(a) + 1 = Len(q))
    BY SMTT(60), <1>2
  <2> QED
    BY ZenonT(60), <1>1, <2>1 DEF Newest
<1> QED
  BY ZenonT(60), <1>3, <1>4, <1>5 DEF a, Shifts

-----------------------------------------------------------------------------
(* The projectiles.                                                        *)

\* fillProjectileState of every projectile of s.
LEMMA ShotStatesType ==
  ASSUME NEW s, s \subseteq Shot
  PROVE  /\ DOMAIN ShotStates(s) = ShotIds(s) /\ ShotIds(s) \subseteq Nat
         /\ ShotStates(s) \in AllShotStates
<1>1. \A x \in s : x.id \in Nat /\ x.age \in Nat
  BY SMTT(60) DEF Shot
<1>2. ShotIds(s) \subseteq Nat
  BY ZenonT(60), <1>1 DEF ShotIds
<1>3. \A i \in ShotIds(s) : (CHOOSE x \in s : x.id = i).age \in Nat
  <2> SUFFICES ASSUME NEW i \in ShotIds(s) PROVE (CHOOSE x \in s : x.id = i).age \in Nat
    OBVIOUS
  <2>1. \E x \in s : x.id = i
    BY ZenonT(60) DEF ShotIds
  <2>2. (CHOOSE x \in s : x.id = i) \in s
    BY ZenonT(60), <2>1
  <2> QED
    BY ZenonT(60), <1>1, <2>2
<1>4. ShotStates(s) \in [ShotIds(s) -> Nat]
  BY ZenonT(60), <1>3 DEF ShotStates
<1>5. DOMAIN ShotStates(s) = ShotIds(s)
  BY ZenonT(60) DEF ShotStates
<1> QED
  BY ZenonT(60), <1>2, <1>4, <1>5, PartialFcn DEF AllShotStates

\* A projectile that flies on, and one that is fired by p.
Older(x) == [x EXCEPT !.age = @ + 1]
Fresh(ids, p) == [id |-> ids[p], owner |-> p, age |-> 0]

\* The first is one tick older and else the same.
LEMMA OlderFacts ==
  ASSUME NEW x \in Shot
  PROVE  /\ Older(x) \in Shot /\ Older(x).id = x.id /\ Older(x).owner = x.owner
         /\ Older(x).age = x.age + 1
  BY SMTT(60) DEF Older, Shot

\* The second has the number that p got.
LEMMA FreshFacts ==
  ASSUME NEW ids, NEW p \in Players, ids[p] \in Nat
  PROVE  /\ Fresh(ids, p) \in Shot /\ Fresh(ids, p).id = ids[p]
         /\ Fresh(ids, p).owner = p /\ Fresh(ids, p).age = 0
  BY SMTT(60) DEF Fresh, Shot

\* The shooters and the numbers they get.
LEMMA NumberFacts ==
  ASSUME BattleInv, NEW ids \in Numberings
  PROVE  /\ IsFiniteSet(Shooters) /\ Cardinality(Shooters) \in Nat /\ Shooters \subseteq Players
         /\ \A p \in Shooters : /\ ids[p] \in Nat /\ nextShot <= ids[p]
                                /\ ids[p] < nextShot + Cardinality(Shooters)
         /\ \A p, q \in Shooters : ids[p] = ids[q] => p = q
<1>1. Shooters \subseteq Players /\ IsFiniteSet(Players)
  BY ZenonT(60), PlayersAssumption DEF Shooters
<1>2. IsFiniteSet(Shooters)
  BY ZenonT(60), <1>1, FS_Subset
<1>3. Cardinality(Shooters) \in Nat
  BY ZenonT(60), <1>2, FS_CardinalityType
<1>4. nextShot \in Nat
  BY ZenonT(60) DEF BattleInv, BattleType
<1>5. PICK n : n = Cardinality(Shooters)
  BY ZenonT(60)
<1>6. /\ \A p \in Shooters : ids[p] \in nextShot..(nextShot + n - 1)
      /\ \A p, q \in Shooters : ids[p] = ids[q] => p = q
  BY ZenonT(60), <1>5 DEF Numberings
<1>7. \A k \in nextShot..(nextShot + n - 1) : k \in Nat /\ nextShot <= k /\ k < nextShot + n
  BY SMTT(60), <1>3, <1>4, <1>5
<1> QED
  BY ZenonT(60), <1>1, <1>2, <1>3, <1>5, <1>6, <1>7

\* Ids are given once, so there are finitely many projectiles.
LEMMA ShotsFinite == ASSUME BattleInv PROVE IsFiniteSet(shots)
<1> DEFINE f == [x \in shots |-> x.id]
<1>1. nextShot \in Nat /\ \A x \in shots : x.id \in Nat /\ x.id < nextShot
  BY SMTT(60) DEF BattleInv, BattleType, IdsOK, Shot
<1>2. \A x \in shots : x.id \in 0..nextShot
  BY SMTT(60), <1>1
<1>3. \A x, y \in shots : x.id = y.id => x = y
  BY ZenonT(60) DEF BattleInv, IdsOK
<1>4. f \in Injection(shots, 0..nextShot)
  BY ZenonT(60), <1>2, <1>3 DEF Injection, IsInjective
<1>5. IsFiniteSet(0..nextShot)
  BY SMTT(60), <1>1, FS_Interval
<1> QED
  BY ZenonT(60), <1>4, <1>5, FS_Injection

\* The projectiles that a tick takes away.
Gone(hits, lost) == hits \cup lost \cup Spent(shots \ hits)

\* What a tick does to the projectiles when those of g go: the rest flies on and
\* the shooters' are new; a delta that removes g names all others, and only those.
Moves(g, ids) ==
  /\ \A x : x \in shots' <=> \/ \E y \in shots \ g : x = Older(y)
                             \/ \E p \in Shooters : x = Fresh(ids, p)
  /\ \A y \in shots : Older(y).owner = y.owner /\ Older(y).age = y.age + 1
  /\ \A p \in Shooters : Fresh(ids, p).owner = p /\ Fresh(ids, p).age = 0

Renames(g) ==
  /\ g \subseteq shots
  /\ ShotIds(g) \subseteq ShotIds(shots)
  /\ ShotIds(shots) \subseteq ShotIds(shots') \cup ShotIds(g)
  /\ ShotIds(shots') \cap ShotIds(g) = {}

\* A tick does this, and gives each id once.
LEMMA TickShots ==
  ASSUME BattleInv, NEW moved, NEW hits \in SUBSET shots, NEW lost \in SUBSET (shots \ hits),
         NEW ids \in Numberings, OnTick(moved, hits, lost, ids)
  PROVE  /\ nextShot' \in Nat /\ shots' \subseteq Shot /\ IdsOK'
         /\ Moves(Gone(hits, lost), ids) /\ Renames(Gone(hits, lost))
<1>1. PICK g : g = Gone(hits, lost)
  BY ZenonT(60)
<1>2. shots' = Flown(shots \ g) \cup NewShots(ids) /\ nextShot' = nextShot + Cardinality(Shooters)
  BY ZenonT(60), <1>1 DEF OnTick, Gone
<1>3. \A x : x \in shots' <=> \/ \E y \in shots \ g : x = Older(y)
                              \/ \E p \in Shooters : x = Fresh(ids, p)
  BY ZenonT(60), <1>2 DEF Flown, NewShots, Older, Fresh
<1>4. PICK n : n = Cardinality(Shooters)
  BY ZenonT(60)
<1>5. /\ n \in Nat /\ Shooters \subseteq Players /\ nextShot' = nextShot + n
      /\ \A p \in Shooters : ids[p] \in Nat /\ nextShot <= ids[p] /\ ids[p] < nextShot + n
      /\ \A p, q \in Shooters : ids[p] = ids[q] => p = q
  BY ZenonT(60), <1>2, <1>4, NumberFacts
<1>6. shots \subseteq Shot /\ nextShot \in Nat /\ RangeTicks \in Nat \ {0}
  BY ZenonT(60), ParametersAssumption DEF BattleInv, BattleType
<1>7. \A y \in shots : /\ Older(y) \in Shot /\ Older(y).id = y.id /\ Older(y).owner = y.owner
                       /\ Older(y).age = y.age + 1
  BY ZenonT(60), <1>6, OlderFacts
<1>8. \A p \in Shooters : /\ Fresh(ids, p) \in Shot /\ Fresh(ids, p).id = ids[p]
                          /\ Fresh(ids, p).owner = p /\ Fresh(ids, p).age = 0
  BY ZenonT(60), <1>5, FreshFacts
<1>9. g \subseteq shots
  BY ZenonT(60), <1>1 DEF Gone, Spent
<1>10. \A x, y \in shots : x.id = y.id => x = y
  BY ZenonT(60) DEF BattleInv, IdsOK
<1>11. \A y \in shots : y.id \in Nat /\ y.age \in Nat /\ y.id < nextShot
  BY SMTT(60), <1>6 DEF BattleInv, IdsOK, Shot
<1>12. shots' \subseteq Shot /\ nextShot' \in Nat
  <2>1. nextShot' \in Nat
    BY SMTT(60), <1>5, <1>6
  <2>2. ASSUME NEW x \in shots' PROVE x \in Shot
    BY SMTT(60), <1>3, <1>7, <1>8
  <2> QED
    BY ZenonT(60), <2>1, <2>2
<1>13. \A p \in Shooters, y \in shots : y.id # ids[p]
  BY SMTT(60), <1>5, <1>6, <1>11
<1>14. \A x \in shots' : x.id < nextShot' /\ x.age < RangeTicks
  <2>1. ASSUME NEW y \in shots \ g PROVE Older(y).id < nextShot' /\ Older(y).age < RangeTicks
    <3>1. ~(y.age + 1 >= RangeTicks)
      BY ZenonT(60), <1>1 DEF Gone, Spent
    <3> QED
      BY SMTT(60), <1>5, <1>6, <1>7, <1>11, <3>1
  <2>2. ASSUME NEW p \in Shooters
        PROVE  Fresh(ids, p).id < nextShot' /\ Fresh(ids, p).age < RangeTicks
    BY SMTT(60), <1>5, <1>6, <1>8
  <2> QED
    BY ZenonT(60), <1>3, <2>1, <2>2
<1>15. ASSUME NEW x \in shots', NEW y \in shots', x.id = y.id PROVE x = y
  <2>1. CASE \E a, b \in shots \ g : x = Older(a) /\ y = Older(b)
    BY SMTT(60), <1>7, <1>10, <1>15, <2>1
  <2>2. CASE \E a \in shots \ g, p \in Shooters : x = Older(a) /\ y = Fresh(ids, p)
    BY SMTT(60), <1>7, <1>8, <1>13, <1>15, <2>2
  <2>3. CASE \E a \in shots \ g, p \in Shooters : y = Older(a) /\ x = Fresh(ids, p)
    BY SMTT(60), <1>7, <1>8, <1>13, <1>15, <2>3
  <2>4. CASE \E p, q \in Shooters : x = Fresh(ids, p) /\ y = Fresh(ids, q)
    BY SMTT(60), <1>5, <1>8, <1>15, <2>4
  <2> QED
    BY ZenonT(60), <1>3, <2>1, <2>2, <2>3, <2>4
<1>16. IdsOK'
  BY ZenonT(60), <1>14, <1>15 DEF IdsOK
<1>17. ShotIds(g) \subseteq ShotIds(shots)
  BY ZenonT(60), <1>9 DEF ShotIds
<1>18. ShotIds(shots) \subseteq ShotIds(shots') \cup ShotIds(g)
  <2>1. ASSUME NEW y \in shots, y \notin g PROVE y.id \in ShotIds(shots')
    <3>1. Older(y) \in shots' /\ Older(y).id = y.id
      BY ZenonT(60), <1>3, <1>7, <2>1
    <3> QED
      BY ZenonT(60), <3>1 DEF ShotIds
  <2> QED
    BY ZenonT(60), <2>1 DEF ShotIds
<1>19. ShotIds(shots') \cap ShotIds(g) = {}
  <2>1. ASSUME NEW x \in shots', NEW y \in g PROVE x.id # y.id
    <3>1. ASSUME NEW a \in shots \ g, x = Older(a) PROVE x.id # y.id
      BY SMTT(60), <1>7, <1>9, <1>10, <3>1
    <3>2. ASSUME NEW p \in Shooters, x = Fresh(ids, p) PROVE x.id # y.id
      BY SMTT(60), <1>8, <1>9, <1>13, <3>2
    <3> QED
      BY ZenonT(60), <1>3, <3>1, <3>2
  <2> QED
    BY ZenonT(60), <2>1 DEF ShotIds
<1>20. Moves(g, ids)
  BY ZenonT(60), <1>3, <1>7, <1>8 DEF Moves
<1>21. Renames(g)
  BY ZenonT(60), <1>9, <1>17, <1>18, <1>19 DEF Renames
<1> QED
  BY ZenonT(60), <1>1, <1>12, <1>16, <1>20, <1>21

\* The cooldown after a tick keeps the projectiles apart: who shoots has none
\* left, so its last projectile has flown for as long as a cooldown takes.
LEMMA TickSpaced ==
  ASSUME BattleInv, NEW moved, NEW hits \in SUBSET shots, NEW lost \in SUBSET (shots \ hits),
         NEW ids \in Numberings, OnTick(moved, hits, lost, ids)
  PROVE  Spaced' /\ cd' \in [Players -> Nat]
<1>1. PICK g : g = Gone(hits, lost)
  BY ZenonT(60)
<1>2. Moves(g, ids)
  BY ZenonT(60), <1>1, TickShots
<1>3. /\ CdTicks \in Nat \ {0} /\ cd \in [Players -> Nat]
      /\ \A y \in shots : y.owner \in Players /\ y.age \in Nat
  BY SMTT(60), ParametersAssumption DEF BattleInv, BattleType, Shot
<1>4. /\ \A y \in shots : y.age + cd[y.owner] >= CdTicks
      /\ \A x, y \in shots : x.owner = y.owner /\ x # y =>
           x.age + CdTicks <= y.age \/ y.age + CdTicks <= x.age
  BY ZenonT(60) DEF BattleInv, Spaced
<1>5. cd' = [p \in Players |-> CdAfter(p, Shooters)]
  BY ZenonT(60) DEF OnTick
<1>6. ASSUME NEW p \in Players
      PROVE  /\ cd[p] \in Nat /\ cd'[p] \in Nat
             /\ p \in Shooters => cd[p] <= 1 /\ cd'[p] = CdTicks
             /\ p \notin Shooters => cd'[p] = IF cd[p] = 0 THEN 0 ELSE cd[p] - 1
  <2>1. cd[p] \in Nat /\ cd'[p] = CdAfter(p, Shooters)
    BY ZenonT(60), <1>3, <1>5
  <2>2. p \in Shooters => cd'[p] = CdTicks /\ (IF cd[p] = 0 THEN 0 ELSE cd[p] - 1) = 0
    BY ZenonT(60), <2>1 DEF CdAfter, Cooled, Shooters
  <2>3. p \notin Shooters => cd'[p] = IF cd[p] = 0 THEN 0 ELSE cd[p] - 1
    BY ZenonT(60), <2>1 DEF CdAfter, Cooled
  <2> QED
    BY SMTT(60), <1>3, <2>1, <2>2, <2>3
<1>7. cd' \in [Players -> Nat]
  BY ZenonT(60), <1>5, <1>6
<1>8. Shooters \subseteq Players
  BY ZenonT(60) DEF Shooters
<1>9. \A x \in shots' : x.age + cd'[x.owner] >= CdTicks
  <2>1. ASSUME NEW y \in shots \ g PROVE y.age + 1 + cd'[y.owner] >= CdTicks
    BY SMTT(60), <1>3, <1>4, <1>6
  <2>2. ASSUME NEW p \in Shooters PROVE 0 + cd'[p] >= CdTicks
    BY SMTT(60), <1>3, <1>6, <1>8
  <2> QED
    BY SMTT(60), <1>2, <2>1, <2>2 DEF Moves
<1>10. ASSUME NEW x \in shots', NEW y \in shots', x.owner = y.owner, x # y
       PROVE  x.age + CdTicks <= y.age \/ y.age + CdTicks <= x.age
  <2>1. ASSUME NEW a \in shots \ g, NEW p \in Shooters, a.owner = p
        PROVE  0 + CdTicks <= a.age + 1
    BY SMTT(60), <1>3, <1>4, <1>6, <1>8, <2>1
  <2>2. CASE \E a, b \in shots \ g : x = Older(a) /\ y = Older(b)
    BY SMTT(60), <1>2, <1>3, <1>4, <1>10, <2>2 DEF Moves
  <2>3. CASE \E a \in shots \ g, p \in Shooters : x = Older(a) /\ y = Fresh(ids, p)
    BY SMTT(60), <1>2, <1>10, <2>1, <2>3 DEF Moves
  <2>4. CASE \E a \in shots \ g, p \in Shooters : y = Older(a) /\ x = Fresh(ids, p)
    BY SMTT(60), <1>2, <1>10, <2>1, <2>4 DEF Moves
  <2>5. CASE \E p, q \in Shooters : x = Fresh(ids, p) /\ y = Fresh(ids, q)
    BY SMTT(60), <1>2, <1>10, <2>5 DEF Moves
  <2> QED
    BY ZenonT(60), <1>2, <2>2, <2>3, <2>4, <2>5 DEF Moves
<1>11. Spaced'
  BY ZenonT(60), <1>9, <1>10 DEF Spaced
<1> QED
  BY ZenonT(60), <1>7, <1>11

\* A player that a delta does not name has not changed.
LEMMA TickPlayers ==
  ASSUME BattleInv, NEW moved \in SUBSET MayMove, NEW hits \in SUBSET shots,
         NEW lost \in SUBSET (shots \ hits), NEW ids \in Numberings,
         OnTick(moved, hits, lost, ids)
  PROVE  /\ hp' \in [Players -> Nat] /\ pos' \in [Players -> Nat] /\ tick' \in Nat
         /\ \A w \in Players : w \notin moved /\ HitsOn(w, hits) = {} =>
              hp'[w] = hp[w] /\ pos'[w] = pos[w]
<1>1. /\ hp \in [Players -> Nat] /\ pos \in [Players -> Nat] /\ tick \in Nat
      /\ kDamage \in Nat
  BY ZenonT(60), ParametersAssumption DEF BattleInv, BattleType
<1>2. /\ hp' = [w \in Players |-> HpAfter(w, hits)]
      /\ pos' = [w \in Players |-> IF w \in moved THEN tick + 1 ELSE pos[w]]
      /\ tick' = tick + 1
  BY ZenonT(60) DEF OnTick
<1>3. tick + 1 \in Nat
  BY SMTT(60), <1>1
<1>4. ASSUME NEW w \in Players
      PROVE  /\ HpAfter(w, hits) \in Nat
             /\ HitsOn(w, hits) = {} => HpAfter(w, hits) = hp[w]
  <2>1. IsFiniteSet(HitsOn(w, hits))
    <3>1. HitsOn(w, hits) \in SUBSET shots
      BY ZenonT(60) DEF HitsOn
    <3> QED
      BY ZenonT(60), <3>1, ShotsFinite, FS_Subset
  <2>2. PICK n : n = Cardinality(HitsOn(w, hits))
    BY ZenonT(60)
  <2>3. n \in Nat /\ (HitsOn(w, hits) = {} => n = 0)
    BY ZenonT(60), <2>1, <2>2, FS_CardinalityType, FS_EmptySet
  <2>4. PICK lose : lose = kDamage * n
    BY ZenonT(60)
  <2>5. lose \in Nat /\ (n = 0 => lose = 0) /\ hp[w] \in Nat
    BY SMTT(60), <1>1, <2>3, <2>4
  <2>6. HpAfter(w, hits) = IF lose >= hp[w] THEN 0 ELSE hp[w] - lose
    BY ZenonT(60), <2>2, <2>4 DEF HpAfter
  <2> QED
    BY SMTT(60), <2>3, <2>5, <2>6
<1> QED
  BY ZenonT(60), <1>1, <1>2, <1>3, <1>4

-----------------------------------------------------------------------------
(* The feed of a client.                                                   *)

\* Snapshot s goes out to client p in a step after which it is up to date.
Sends(p, s) ==
  /\ chan'[p] = Append(chan[p], s) /\ view'[p] = view[p]
  /\ Follows(Newest(chan[p], view[p]), s)
  /\ s.tick <= tick' /\ s.shots = ShotStates(shots')
  /\ \A w \in Players : IF w \in DOMAIN s.players THEN s.players[w] = Now(w)'
                                                  ELSE Now(w)' = Now(w)

\* The snapshots then still tell the client everything.
LEMMA SendKeeps ==
  ASSUME NEW p \in Clients, NEW s \in Snapshot, chan[p] \in Seq(Snapshot),
         Chain(p), \A w \in Players : Told(p, w), Sends(p, s)
  PROVE  Chain(p)' /\ \A w \in Players : Told(p, w)'
<1>1. PICK q : q = chan[p]
  BY ZenonT(60)
<1>2. PICK v : v = view[p]
  BY ZenonT(60)
<1>3. PICK a : a = chan'[p]
  BY ZenonT(60)
<1>4. q \in Seq(Snapshot) /\ a = Append(q, s) /\ view'[p] = v
  BY ZenonT(60), <1>1, <1>2, <1>3 DEF Sends
<1>5. PICK n : n = Len(q) + 1
  BY ZenonT(60)
<1>6. /\ n \in DOMAIN a /\ a[n] = s
      /\ \A i \in DOMAIN q : i \in DOMAIN a /\ a[i] = q[i] /\ i < n
      /\ \A i \in DOMAIN a : i \in DOMAIN q \/ i = n
  BY ZenonT(60), <1>4, <1>5, AppendAt
<1>7. /\ \A i \in DOMAIN q : Before(a, v, i) = Before(q, v, i)
      /\ Before(a, v, n) = Newest(q, v)
      /\ Newest(a, v) = s
  <2>1. /\ \A i \in DOMAIN q : Before(Append(q, s), v, i) = Before(q, v, i)
        /\ Before(Append(q, s), v, Len(q) + 1) = Newest(q, v)
        /\ Newest(Append(q, s), v) = s
    BY SMTT(60), <1>4, BeforeAppend
  <2> QED
    BY ZenonT(60), <1>4, <1>5, <2>1
<1>8. Chain(p)'
  <2>1. \A i \in DOMAIN q : Follows(Before(q, v, i), q[i])
    BY ZenonT(60), <1>1, <1>2 DEF Chain
  <2>2. /\ Follows(Newest(q, v), s) /\ s.tick <= tick' /\ s.shots = ShotStates(shots')
    BY ZenonT(60), <1>1, <1>2 DEF Sends
  <2>3. ASSUME NEW i \in DOMAIN a PROVE Follows(Before(a, v, i), a[i])
    BY ZenonT(60), <1>6, <1>7, <2>1, <2>2
  <2>4. /\ \A i \in DOMAIN chan'[p] : Follows(Before(chan'[p], view'[p], i), chan'[p][i])
        /\ Newest(chan'[p], view'[p]) = s
    BY ZenonT(60), <1>3, <1>4, <1>7, <2>3
  <2> QED
    BY ZenonT(60), <2>2, <2>4 DEF Chain
<1>9. ASSUME NEW w \in Players PROVE Told(p, w)'
  <2>1. /\ \A i \in DOMAIN q :
             /\ w \in DOMAIN q[i].players
             /\ \A j \in DOMAIN q : i < j => w \notin DOMAIN q[j].players
             => q[i].players[w] = Now(w)
        /\ (\A i \in DOMAIN q : w \notin DOMAIN q[i].players) =>
             w \in DOMAIN v.players /\ v.players[w] = Now(w)
    BY ZenonT(60), <1>1, <1>2 DEF Told
  <2>2. IF w \in DOMAIN s.players THEN s.players[w] = Now(w)' ELSE Now(w)' = Now(w)
    BY ZenonT(60) DEF Sends
  <2>3. ASSUME NEW i \in DOMAIN a, w \in DOMAIN a[i].players,
               \A j \in DOMAIN a : i < j => w \notin DOMAIN a[j].players
        PROVE  a[i].players[w] = Now(w)'
    <3>1. CASE i = n
      BY ZenonT(60), <1>6, <2>2, <2>3, <3>1
    <3>2. CASE i \in DOMAIN q
      <4>1. w \notin DOMAIN s.players
        BY ZenonT(60), <1>6, <2>3, <3>2
      <4>2. \A j \in DOMAIN q : i < j => w \notin DOMAIN q[j].players
        BY ZenonT(60), <1>6, <2>3
      <4>3. q[i].players[w] = Now(w) /\ a[i] = q[i]
        BY ZenonT(60), <1>6, <2>1, <2>3, <3>2, <4>2
      <4> QED
        BY ZenonT(60), <2>2, <4>1, <4>3
    <3> QED
      BY ZenonT(60), <1>6, <3>1, <3>2
  <2>4. ASSUME \A i \in DOMAIN a : w \notin DOMAIN a[i].players
        PROVE  w \in DOMAIN v.players /\ v.players[w] = Now(w)'
    BY ZenonT(60), <1>6, <2>1, <2>2, <2>4
  <2> QED
    BY ZenonT(60), <1>3, <1>4, <2>3, <2>4 DEF Told
<1> QED
  BY ZenonT(60), <1>8, <1>9

\* A full snapshot is enough by itself.
LEMMA FullStarts ==
  ASSUME NEW p \in Clients, NEW s, chan'[p] = <<s>>, s.full,
         s.removed = {}, DOMAIN s.players = Players, s.tick <= tick',
         s.shots = ShotStates(shots'), \A w \in Players : s.players[w] = Now(w)'
  PROVE  Chain(p)' /\ \A w \in Players : Told(p, w)'
<1>1. /\ DOMAIN <<s>> = {1} /\ <<s>>[1] = s /\ <<s>> # <<>> /\ Len(<<s>>) = 1
  BY SMTT(60)
<1>2. Chain(p)'
  <2>1. Newest(<<s>>, view'[p]) = s
    BY ZenonT(60), <1>1 DEF Newest
  <2>2. \A i \in DOMAIN <<s>> : Follows(Before(<<s>>, view'[p], i), <<s>>[i])
    BY ZenonT(60), <1>1 DEF Follows
  <2> QED
    BY ZenonT(60), <2>1, <2>2 DEF Chain
<1>3. ASSUME NEW w \in Players PROVE Told(p, w)'
  BY ZenonT(60), <1>1 DEF Told
<1> QED
  BY ZenonT(60), <1>2, <1>3

\* A step with nothing to tell client p keeps what it is told.
LEMMA SameFeed ==
  ASSUME NEW p \in Clients, chan'[p] = chan[p], view'[p] = view[p],
         tick <= tick', tick \in Nat, tick' \in Nat,
         Newest(chan[p], view[p]).tick \in Nat,
         ShotStates(shots') = ShotStates(shots),
         \A w \in Players : Now(w)' = Now(w),
         Chain(p), \A w \in Players : Told(p, w)
  PROVE  Chain(p)' /\ \A w \in Players : Told(p, w)'
<1>1. Newest(chan'[p], view'[p]) = Newest(chan[p], view[p])
  BY ZenonT(60)
<1>2. Newest(chan[p], view[p]).tick <= tick
  BY ZenonT(60) DEF Chain
<1>3. Newest(chan[p], view[p]).tick <= tick'
  BY SMTT(60), <1>2
<1>4. Chain(p)'
  BY ZenonT(60), <1>1, <1>3 DEF Chain
<1>5. ASSUME NEW w \in Players PROVE Told(p, w)'
  BY ZenonT(60) DEF Told
<1> QED
  BY ZenonT(60), <1>4, <1>5

\* Reading a snapshot: what the client makes of it takes its place.
LEMMA ReadKeeps ==
  ASSUME BattleInv, NEW p \in Clients, ClientPush(p)
  PROVE  /\ Feed(p)' /\ view'[p] \in View
<1>1. PICK q : q = chan[p]
  BY ZenonT(60)
<1>2. PICK v : v = view[p]
  BY ZenonT(60)
<1>3. PICK s : s = Head(q)
  BY ZenonT(60)
<1>4. PICK a : a = Tail(q)
  BY ZenonT(60)
<1>5. PICK u : u = view'[p]
  BY ZenonT(60)
<1>6. PICK b : b = IF s.full THEN NoView ELSE v
  BY ZenonT(60)
<1>7. /\ q \in Seq(Snapshot) /\ q # <<>> /\ v \in View /\ chan'[p] = a
      /\ u = IF b.tick # 0 /\ s.tick <= b.tick
               THEN b
               ELSE [tick    |-> s.tick,
                     players |-> Overlay(b.players, s.players, {}),
                     shots   |-> Overlay(b.shots, s.shots, s.removed)]
  <2>1. chan \in [Clients -> Seq(Snapshot)] /\ view \in [Clients -> View]
    BY ZenonT(60) DEF BattleInv, BattleType
  <2> QED
    BY ZenonT(60), <2>1, <1>1, <1>2, <1>3, <1>4, <1>5, <1>6 DEF ClientPush, Base
<1>8. started /\ p \in conns /\ Chain(p) /\ \A w \in Players : Told(p, w)
  BY ZenonT(60), <1>1, <1>7 DEF BattleInv, Feed
<1>9. /\ a \in Seq(Snapshot) /\ 1 \in DOMAIN q /\ q[1] = s /\ s \in Snapshot
      /\ \A i \in DOMAIN a : i + 1 \in DOMAIN q /\ a[i] = q[i + 1]
      /\ \A i \in DOMAIN q : i = 1 \/ \E k \in DOMAIN a : i = k + 1
      /\ \A i, k \in DOMAIN a : i + 1 < k + 1 => i < k
      /\ \A i \in DOMAIN a : 1 < i + 1
  <2>1. /\ Tail(q) \in Seq(Snapshot) /\ 1 \in DOMAIN q /\ q[1] = Head(q) /\ Head(q) \in Snapshot
        /\ \A i \in DOMAIN Tail(q) : i + 1 \in DOMAIN q /\ Tail(q)[i] = q[i + 1]
        /\ \A i \in DOMAIN q : i = 1 \/ \E k \in DOMAIN Tail(q) : i = k + 1
        /\ \A i, k \in DOMAIN Tail(q) : i < k <=> i + 1 < k + 1
        /\ \A i \in DOMAIN Tail(q) : 1 < i + 1
    BY ZenonT(60), <1>7, TailAt
  <2> QED
    BY ZenonT(60), <1>3, <1>4, <2>1
<1>10. /\ \A i \in DOMAIN q : Follows(Before(q, v, i), q[i])
       /\ Newest(q, v).tick <= tick /\ Newest(q, v).shots = ShotStates(shots)
  BY ZenonT(60), <1>1, <1>2, <1>8 DEF Chain
<1>11. /\ Before(q, v, 1) = v
       /\ \A i \in DOMAIN a :
            IF i = 1 THEN Before(a, u, i) = u /\ Before(q, v, i + 1) = s
                     ELSE Before(a, u, i) = Before(q, v, i + 1)
       /\ IF a = <<>> THEN Newest(q, v) = s /\ Newest(a, u) = u
                      ELSE Newest(a, u) = Newest(q, v)
  <2>1. q \in Seq(Snapshot) /\ q # <<>>
    BY ZenonT(60), <1>7
  <2>2. Shifts(q, v, Head(q), Tail(q), u)
    BY ZenonT(60), <2>1, BeforeTail
  <2> QED
    BY ZenonT(60), <1>3, <1>4, <2>2 DEF Shifts
<1>12. Follows(v, s)
  BY ZenonT(60), <1>9, <1>10, <1>11
<1>13. b \in View /\ b.tick \in Nat /\ b.players \in PlayerStates /\ b.shots \in AllShotStates
  <2>1. b \in View
    BY ZenonT(60), <1>6, <1>7, NoViewType
  <2> QED
    BY ZenonT(60), <2>1 DEF View
<1>14. /\ s.tick \in Nat /\ s.players \in PlayerStates /\ s.shots \in AllShotStates
       /\ s.full \in BOOLEAN
  BY ZenonT(60), <1>9 DEF Snapshot
<1>15. ~(b.tick # 0 /\ s.tick <= b.tick)
  <2>1. CASE s.full
    BY ZenonT(60), <1>6, <2>1, NoViewType
  <2>2. CASE ~s.full
    <3>1. b = v /\ v.tick < s.tick
      BY ZenonT(60), <1>6, <1>12, <2>2 DEF Follows
    <3> QED
      BY SMTT(60), <3>1, <1>13, <1>14
  <2> QED
    BY ZenonT(60), <2>1, <2>2
<1>16. /\ u.tick = s.tick /\ u.players = Overlay(b.players, s.players, {})
       /\ u.shots = Overlay(b.shots, s.shots, s.removed)
  BY ZenonT(60), <1>7, <1>15
<1>17. /\ u.shots \in AllShotStates
       /\ DOMAIN u.shots = (DOMAIN b.shots \cup DOMAIN s.shots) \ s.removed
       /\ \A k \in DOMAIN u.shots : u.shots[k] = IF k \in DOMAIN s.shots THEN s.shots[k] ELSE b.shots[k]
  <2>1. /\ Overlay(b.shots, s.shots, s.removed) \in AllShotStates
        /\ Merges(Overlay(b.shots, s.shots, s.removed), b.shots, s.shots, s.removed)
    BY ZenonT(60), <1>13, <1>14, OverlayFacts DEF AllShotStates
  <2> QED
    BY ZenonT(60), <2>1, <1>16 DEF Merges
<1>18. /\ u.players \in PlayerStates
       /\ DOMAIN u.players = DOMAIN b.players \cup DOMAIN s.players
       /\ \A k \in DOMAIN u.players :
            u.players[k] = IF k \in DOMAIN s.players THEN s.players[k] ELSE b.players[k]
  <2>1. /\ Overlay(b.players, s.players, {}) \in PlayerStates
        /\ Merges(Overlay(b.players, s.players, {}), b.players, s.players, {})
    BY ZenonT(60), <1>13, <1>14, OverlayFacts DEF PlayerStates
  <2> QED
    BY ZenonT(60), <2>1, <1>16 DEF Merges
<1>19. u \in View
  <2>1. u = [tick |-> s.tick, players |-> Overlay(b.players, s.players, {}),
             shots |-> Overlay(b.shots, s.shots, s.removed)]
    BY ZenonT(60), <1>7, <1>15
  <2>2. /\ Overlay(b.players, s.players, {}) \in PlayerStates
        /\ Overlay(b.shots, s.shots, s.removed) \in AllShotStates
    BY ZenonT(60), <1>16, <1>17, <1>18
  <2> QED
    BY ZenonT(60), <2>1, <2>2, <1>14 DEF View
<1>20. u.shots = s.shots
  <2>1. DOMAIN u.shots = DOMAIN s.shots
    <3>1. CASE s.full
      <4>1. s.removed = {} /\ DOMAIN b.shots = {}
        BY ZenonT(60), <1>6, <1>12, <3>1, NoViewType DEF Follows
      <4> QED
        BY ZenonT(60), <4>1, <1>17
    <3>2. CASE ~s.full
      <4>1. /\ b = v /\ DOMAIN v.shots \subseteq DOMAIN s.shots \cup s.removed
            /\ DOMAIN s.shots \cap s.removed = {}
        BY ZenonT(60), <1>6, <1>12, <3>2 DEF Follows
      <4> QED
        BY ZenonT(60), <4>1, <1>17
    <3> QED
      BY ZenonT(60), <3>1, <3>2
  <2>2. \A k \in DOMAIN u.shots : u.shots[k] = s.shots[k]
    BY ZenonT(60), <2>1, <1>17
  <2>3. u.shots \in [DOMAIN s.shots -> Nat] /\ s.shots \in [DOMAIN s.shots -> Nat]
    BY ZenonT(60), <1>14, <1>17, <2>1, PartialFcn DEF AllShotStates
  <2> QED
    BY SMTT(60), <2>1, <2>2, <2>3, SameFcn
<1>21. Chain(p)'
  <2>1. ASSUME NEW i \in DOMAIN a PROVE Follows(Before(a, u, i), a[i])
    <3>1. Follows(Before(q, v, i + 1), a[i])
      BY ZenonT(60), <1>9, <1>10
    <3>2. CASE i = 1
      <4>1. Follows(s, a[i]) /\ Before(a, u, i) = u
        BY ZenonT(60), <3>1, <3>2, <1>11
      <4> QED
        BY ZenonT(60), <4>1, <1>16, <1>20 DEF Follows
    <3>3. CASE i # 1
      BY ZenonT(60), <3>1, <3>3, <1>11
    <3> QED
      BY ZenonT(60), <3>2, <3>3
  <2>2. Newest(a, u).tick <= tick /\ Newest(a, u).shots = ShotStates(shots)
    BY ZenonT(60), <1>10, <1>11, <1>16, <1>20
  <2>3. tick' = tick /\ shots' = shots
    BY ZenonT(60) DEF ClientPush, simVars
  <2>4. /\ \A i \in DOMAIN chan'[p] : Follows(Before(chan'[p], view'[p], i), chan'[p][i])
        /\ Newest(chan'[p], view'[p]).tick <= tick'
        /\ Newest(chan'[p], view'[p]).shots = ShotStates(shots')
    BY ZenonT(60), <1>5, <1>7, <2>1, <2>2, <2>3
  <2> QED
    BY ZenonT(60), <2>4 DEF Chain
<1>22. /\ \A i \in DOMAIN a, j \in DOMAIN q : i + 1 < j => \E k \in DOMAIN a : i < k /\ a[k] = q[j]
       /\ \A j \in DOMAIN q : 1 < j => \E k \in DOMAIN a : a[k] = q[j]
  <2>1. DOMAIN a \subseteq Nat
    BY SMTT(60), <1>9
  <2>2. ~(1 < 1) /\ \A i \in DOMAIN a : ~(i + 1 < 1)
    BY SMTT(60), <2>1
  <2> QED
    BY ZenonT(60), <2>2, <1>9
<1>23. ASSUME NEW w \in Players PROVE Told(p, w)'
  <2>1. /\ \A i \in DOMAIN q :
             /\ w \in DOMAIN q[i].players
             /\ \A j \in DOMAIN q : i < j => w \notin DOMAIN q[j].players
             => q[i].players[w] = Now(w)
        /\ (\A i \in DOMAIN q : w \notin DOMAIN q[i].players) =>
             w \in DOMAIN v.players /\ v.players[w] = Now(w)
    BY ZenonT(60), <1>1, <1>2, <1>8 DEF Told
  <2>2. Now(w)' = Now(w)
    BY ZenonT(60) DEF ClientPush, simVars, Now
  <2>3. ASSUME NEW i \in DOMAIN a, w \in DOMAIN a[i].players,
               \A j \in DOMAIN a : i < j => w \notin DOMAIN a[j].players
        PROVE  a[i].players[w] = Now(w)
    <3>1. \A j \in DOMAIN q : i + 1 < j => w \notin DOMAIN q[j].players
      BY ZenonT(60), <1>22, <2>3
    <3> QED
      BY ZenonT(60), <3>1, <1>9, <2>1, <2>3
  <2>4. ASSUME \A i \in DOMAIN a : w \notin DOMAIN a[i].players
        PROVE  w \in DOMAIN u.players /\ u.players[w] = Now(w)
    <3>1. \A j \in DOMAIN q : 1 < j => w \notin DOMAIN q[j].players
      BY ZenonT(60), <1>22, <2>4
    <3>2. CASE w \in DOMAIN s.players
      <4>1. s.players[w] = Now(w)
        BY ZenonT(60), <3>1, <3>2, <1>9, <2>1
      <4> QED
        BY ZenonT(60), <4>1, <3>2, <1>18
    <3>3. CASE w \notin DOMAIN s.players
      <4>1. ~s.full
        BY ZenonT(60), <1>12, <3>3 DEF Follows
      <4>2. b = v
        BY ZenonT(60), <4>1, <1>6
      <4>3. \A j \in DOMAIN q : w \notin DOMAIN q[j].players
        BY ZenonT(60), <3>3, <1>9, <2>4
      <4>4. w \in DOMAIN v.players /\ v.players[w] = Now(w)
        BY ZenonT(60), <4>3, <2>1
      <4> QED
        BY ZenonT(60), <4>2, <4>4, <3>3, <1>18
    <3> QED
      BY ZenonT(60), <3>2, <3>3
  <2> QED
    BY ZenonT(60), <1>5, <1>7, <2>2, <2>3, <2>4 DEF Told
<1>24. started' /\ p \in conns'
  BY ZenonT(60), <1>8 DEF ClientPush
<1> QED
  BY ZenonT(60), <1>5, <1>19, <1>21, <1>23, <1>24 DEF Feed

\* The newest thing on the way, or what the client holds, has a tick.
LEMMA NewestType ==
  ASSUME NEW q \in Seq(Snapshot), NEW v \in View
  PROVE  Newest(q, v).tick \in Nat /\ DOMAIN Newest(q, v).shots \subseteq Nat
<1>1. q # <<>> => q[Len(q)] \in Snapshot
  <2>1. q # <<>> => Len(q) \in DOMAIN q
    BY SMTT(60)
  <2> QED
    BY SMTT(60), <2>1
<1>2. \A t \in Snapshot : t.tick \in Nat /\ t.shots \in AllShotStates
  BY ZenonT(60) DEF Snapshot
<1>3. v.tick \in Nat /\ v.shots \in AllShotStates
  BY ZenonT(60) DEF View
<1>4. \A f \in AllShotStates : DOMAIN f \subseteq Nat
  BY ZenonT(60), PartialFcn DEF AllShotStates
<1>5. CASE q = <<>>
  BY ZenonT(60), <1>3, <1>4, <1>5 DEF Newest
<1>6. CASE q # <<>>
  <2>1. Newest(q, v) \in Snapshot
    BY ZenonT(60), <1>1, <1>6 DEF Newest
  <2> QED
    BY ZenonT(60), <2>1, <1>2, <1>4
<1> QED
  BY ZenonT(60), <1>5, <1>6

\* The full snapshot names everything.
LEMMA FullFacts ==
  ASSUME BattleType
  PROVE  /\ FullSnapshot \in Snapshot /\ FullSnapshot.full /\ FullSnapshot.removed = {}
         /\ DOMAIN FullSnapshot.players = Players /\ FullSnapshot.tick = tick
         /\ FullSnapshot.shots = ShotStates(shots)
         /\ \A w \in Players : FullSnapshot.players[w] = Now(w)
<1>1. ShotStates(shots) \in AllShotStates
  BY ZenonT(60), ShotStatesType DEF BattleType
<1>2. \A w \in Players : Now(w) \in Nat \X Nat
  BY SMTT(60) DEF BattleType, Now
<1>3. PICK f : f = [w \in Players |-> Now(w)]
  BY ZenonT(60)
<1>4. f \in [Players -> Nat \X Nat] /\ DOMAIN f = Players /\ \A w \in Players : f[w] = Now(w)
  BY ZenonT(60), <1>2, <1>3
<1>5. f \in PlayerStates
  BY ZenonT(60), <1>4, PartialFcn DEF PlayerStates
<1>6. FullSnapshot = [full |-> TRUE, tick |-> tick, removed |-> {}, shots |-> ShotStates(shots),
                      players |-> f]
  BY ZenonT(60), <1>3 DEF FullSnapshot, Now
<1>7. tick \in Nat /\ TRUE \in BOOLEAN /\ {} \in SUBSET Nat
  BY ZenonT(60) DEF BattleType
<1>8. FullSnapshot \in Snapshot
  BY ZenonT(60), <1>1, <1>5, <1>6, <1>7 DEF Snapshot
<1> QED
  BY ZenonT(60), <1>4, <1>6, <1>8

\* The delta of a tick: what it names is up to date, what it leaves out has not
\* changed, and it comes after a snapshot with the projectiles of before.
Tells(s, g) ==
  /\ ~s.full /\ s.tick = tick' /\ s.shots = ShotStates(shots') /\ s.removed = ShotIds(g)
  /\ \A w \in Players : IF w \in DOMAIN s.players THEN s.players[w] = Now(w)'
                                                  ELSE Now(w)' = Now(w)

\* onTick's delta does this.
LEMMA DeltaFacts ==
  ASSUME BattleInv, NEW moved \in SUBSET MayMove, NEW hits \in SUBSET shots,
         NEW lost \in SUBSET (shots \ hits), NEW ids \in Numberings,
         OnTick(moved, hits, lost, ids)
  PROVE  /\ Delta(moved, hits, Gone(hits, lost)) \in Snapshot
         /\ Tells(Delta(moved, hits, Gone(hits, lost)), Gone(hits, lost))
<1>1. PICK g : g = Gone(hits, lost)
  BY ZenonT(60)
<1>2. /\ shots' \subseteq Shot /\ Renames(g)
  BY ZenonT(60), <1>1, TickShots
<1>3. /\ hp' \in [Players -> Nat] /\ pos' \in [Players -> Nat] /\ tick' \in Nat
      /\ \A w \in Players : w \notin moved /\ HitsOn(w, hits) = {} =>
           hp'[w] = hp[w] /\ pos'[w] = pos[w]
  BY ZenonT(60), TickPlayers
<1>4. PICK m : m = moved \cup {w \in Players : HitsOn(w, hits) # {}}
  BY ZenonT(60)
<1>5. m \subseteq Players /\ \A w \in Players : w \notin m => Now(w)' = Now(w)
  <2>1. moved \subseteq Players
    BY ZenonT(60) DEF MayMove
  <2> QED
    BY ZenonT(60), <2>1, <1>3, <1>4 DEF Now
<1>6. PICK f : f = [w \in m |-> Now(w)']
  BY ZenonT(60)
<1>7. \A w \in Players : Now(w)' \in Nat \X Nat
  <2>1. \A w \in Players : hp'[w] \in Nat /\ pos'[w] \in Nat
    BY ZenonT(60), <1>3
  <2> QED
    BY SMTT(60), <2>1 DEF Now
<1>8. f \in [m -> Nat \X Nat] /\ DOMAIN f = m /\ \A w \in m : f[w] = Now(w)'
  BY ZenonT(60), <1>5, <1>6, <1>7
<1>9. f \in PlayerStates
  BY ZenonT(60), <1>5, <1>8, PartialFcn DEF PlayerStates
<1>10. PICK z : z = ShotStates(shots')
  BY ZenonT(60)
<1>11. z \in AllShotStates
  BY ZenonT(60), <1>2, <1>10, ShotStatesType
<1>12. ShotIds(g) \in SUBSET Nat
  <2>1. shots \subseteq Shot /\ ShotIds(g) \subseteq ShotIds(shots)
    BY ZenonT(60), <1>2 DEF BattleInv, BattleType, Renames
  <2> QED
    BY ZenonT(60), <2>1, ShotStatesType
<1>13. PICK s : s = [full |-> FALSE, tick |-> tick', shots |-> z, removed |-> ShotIds(g), players |-> f]
  BY ZenonT(60)
<1>14. Delta(moved, hits, g) = s
  BY ZenonT(60), <1>4, <1>6, <1>10, <1>13 DEF Delta, Now
<1>15. /\ s.full = FALSE /\ s.tick = tick' /\ s.shots = z /\ s.removed = ShotIds(g) /\ s.players = f
  BY ZenonT(60), <1>13
<1>16. s \in Snapshot
  <2>1. FALSE \in BOOLEAN
    BY ZenonT(60)
  <2> QED
    BY ZenonT(60), <2>1, <1>3, <1>9, <1>11, <1>12, <1>13 DEF Snapshot
<1>17. Tells(s, g)
  BY ZenonT(60), <1>5, <1>8, <1>10, <1>15 DEF Tells
<1> QED
  BY ZenonT(60), <1>1, <1>14, <1>16, <1>17

\* A tick sends the delta to who is connected, unless there is nothing to tell.
LEMMA TickFeed ==
  ASSUME BattleInv, NEW moved \in SUBSET MayMove, NEW hits \in SUBSET shots,
         NEW lost \in SUBSET (shots \ hits), NEW ids \in Numberings,
         OnTick(moved, hits, lost, ids)
  PROVE  /\ chan' \in [Clients -> Seq(Snapshot)]
         /\ \A p \in Clients : Feed(p)'
<1>1. PICK g : g = Gone(hits, lost)
  BY ZenonT(60)
<1>2. PICK s : s = Delta(moved, hits, g)
  BY ZenonT(60)
<1>3. s \in Snapshot /\ Tells(s, g)
  BY ZenonT(60), <1>1, <1>2, DeltaFacts
<1>4. /\ started /\ started' = started /\ conns' = conns /\ view' = view /\ tick' = tick + 1
      /\ chan' = [p \in Clients |->
                    IF p \in conns /\ Worth(s) THEN Append(chan[p], s) ELSE chan[p]]
  BY ZenonT(60), <1>1, <1>2 DEF OnTick, Gone
<1>5. /\ chan \in [Clients -> Seq(Snapshot)] /\ view \in [Clients -> View] /\ tick \in Nat
      /\ shots \subseteq Shot
  BY ZenonT(60) DEF BattleInv, BattleType
<1>6. tick' \in Nat /\ tick < tick' /\ tick <= tick' /\ tick' <= tick'
  BY SMTT(60), <1>4, <1>5
<1>7. Renames(g) /\ shots' \subseteq Shot
  BY ZenonT(60), <1>1, TickShots
<1>8. \A q \in Seq(Snapshot) : Append(q, s) \in Seq(Snapshot)
  BY ZenonT(60), <1>3, AppendProperties
<1>9. chan' \in [Clients -> Seq(Snapshot)]
  BY ZenonT(60), <1>4, <1>5, <1>8
<1>10. ASSUME NEW p \in Clients, p \in conns, Worth(s) PROVE Feed(p)'
  <2>1. Chain(p) /\ \A w \in Players : Told(p, w)
    BY ZenonT(60), <1>4, <1>10 DEF BattleInv, Feed
  <2>2. PICK t : t = Newest(chan[p], view[p])
    BY ZenonT(60)
  <2>3. t.tick <= tick /\ t.shots = ShotStates(shots) /\ t.tick \in Nat
    <3>1. chan[p] \in Seq(Snapshot) /\ view[p] \in View
      BY ZenonT(60), <1>5
    <3> QED
      BY ZenonT(60), <2>1, <2>2, <3>1, NewestType DEF Chain
  <2>4. t.tick < tick'
    BY SMTT(60), <2>3, <1>5, <1>4
  <2>5. DOMAIN t.shots = ShotIds(shots) /\ DOMAIN s.shots = ShotIds(shots') /\ s.removed = ShotIds(g)
    BY ZenonT(60), <2>3, <1>3, <1>5, <1>7, ShotStatesType DEF Tells
  <2>6. Follows(t, s)
    BY ZenonT(60), <2>4, <2>5, <1>3, <1>7 DEF Follows, Tells, Renames
  <2>7. chan'[p] = Append(chan[p], s) /\ view'[p] = view[p] /\ chan[p] \in Seq(Snapshot)
    BY ZenonT(60), <1>4, <1>5, <1>10
  <2>8. Sends(p, s)
    BY ZenonT(60), <2>2, <2>6, <2>7, <1>3, <1>6 DEF Sends, Tells
  <2>9. Chain(p)' /\ \A w \in Players : Told(p, w)'
    BY ZenonT(60), <2>1, <2>7, <2>8, <1>3, SendKeeps
  <2> QED
    BY ZenonT(60), <2>9, <1>4, <1>10 DEF Feed
<1>11. ASSUME NEW p \in Clients, p \in conns, ~Worth(s) PROVE Feed(p)'
  <2>1. Chain(p) /\ \A w \in Players : Told(p, w)
    BY ZenonT(60), <1>4, <1>11 DEF BattleInv, Feed
  <2>2. DOMAIN s.players = {} /\ DOMAIN s.shots = {} /\ s.removed = {}
    BY ZenonT(60), <1>11 DEF Worth
  <2>3. ShotIds(shots') = {} /\ ShotIds(g) = {}
    BY ZenonT(60), <2>2, <1>3, <1>7, ShotStatesType DEF Tells
  <2>4. ShotIds(shots) = {}
    BY ZenonT(60), <2>3, <1>7 DEF Renames
  <2>5. shots = {} /\ shots' = {}
    BY ZenonT(60), <2>3, <2>4 DEF ShotIds
  <2>6. ShotStates(shots') = ShotStates(shots)
    BY ZenonT(60), <2>5
  <2>7. \A w \in Players : Now(w)' = Now(w)
    BY ZenonT(60), <2>2, <1>3 DEF Tells
  <2>8. /\ chan'[p] = chan[p] /\ view'[p] = view[p]
        /\ chan[p] \in Seq(Snapshot) /\ view[p] \in View
    BY ZenonT(60), <1>4, <1>5, <1>11
  <2>9. Newest(chan[p], view[p]).tick \in Nat
    BY ZenonT(60), <2>8, NewestType
  <2>10. Chain(p)' /\ \A w \in Players : Told(p, w)'
    BY ZenonT(60), <2>1, <2>6, <2>7, <2>8, <2>9, <1>5, <1>6, SameFeed
  <2> QED
    BY ZenonT(60), <2>10, <1>4, <1>11 DEF Feed
<1>12. ASSUME NEW p \in Clients, p \notin conns PROVE Feed(p)'
  <2>1. chan[p] = <<>>
    BY ZenonT(60), <1>12 DEF BattleInv, Feed
  <2> QED
    BY ZenonT(60), <2>1, <1>4, <1>12 DEF Feed
<1> QED
  BY ZenonT(60), <1>9, <1>10, <1>11, <1>12

\* A step that leaves the simulation, the connection and its client alone.
LEMMA IdleFeed ==
  ASSUME BattleInv, NEW p \in Clients, chan'[p] = chan[p], view'[p] = view[p],
         started' = started, p \in conns' <=> p \in conns,
         tick' = tick, hp' = hp, pos' = pos, shots' = shots
  PROVE  Feed(p)'
<1>1. Chain(p) => Chain(p)'
  BY ZenonT(60) DEF Chain
<1>2. \A w \in Players : Told(p, w) => Told(p, w)'
  BY ZenonT(60) DEF Told, Now
<1>3. CASE started /\ p \in conns
  BY ZenonT(60), <1>1, <1>2, <1>3 DEF BattleInv, Feed
<1>4. CASE ~(started /\ p \in conns)
  BY ZenonT(60), <1>4 DEF BattleInv, Feed
<1> QED
  BY ZenonT(60), <1>3, <1>4

\* start() and rebind() put the full snapshot on an empty connection.
LEMMA FullFeed ==
  ASSUME BattleInv, NEW p \in Clients, chan'[p] = <<FullSnapshot>>, started', p \in conns',
         tick' = tick, hp' = hp, pos' = pos, shots' = shots
  PROVE  Feed(p)'
<1>1. PICK s : s = FullSnapshot
  BY ZenonT(60)
<1>2. /\ s.full /\ s.removed = {} /\ DOMAIN s.players = Players /\ s.tick = tick
      /\ s.shots = ShotStates(shots) /\ \A w \in Players : s.players[w] = Now(w)
  BY ZenonT(60), <1>1, FullFacts DEF BattleInv
<1>3. \A w \in Players : Now(w)' = Now(w)
  BY ZenonT(60) DEF Now
<1>4. tick \in Nat
  BY ZenonT(60) DEF BattleInv, BattleType
<1>5. tick <= tick
  BY SMTT(60), <1>4
<1>6. Chain(p)' /\ \A w \in Players : Told(p, w)'
  <2>1. chan'[p] = <<s>> /\ s.tick <= tick' /\ s.shots = ShotStates(shots')
    BY ZenonT(60), <1>1, <1>2, <1>5
  <2>2. \A w \in Players : s.players[w] = Now(w)'
    BY ZenonT(60), <1>2, <1>3
  <2> QED
    BY ZenonT(60), <2>1, <2>2, <1>2, FullStarts
<1> QED
  BY ZenonT(60), <1>6 DEF Feed

-----------------------------------------------------------------------------
(* The invariant holds.                                                    *)

\* Nothing is in flight and nothing on the way before start().
LEMMA BattleInvInit == Init => BattleInv
<1> SUFFICES ASSUME Init PROVE BattleInv
  OBVIOUS
<1>1. kMaxHp \in Nat /\ 0 \in Nat /\ 1 \in Nat
  BY SMTT(60), ParametersAssumption
<1>2. <<>> \in Seq(Snapshot)
  BY SMTT(60)
<1>3. BattleType
  BY ZenonT(60), <1>1, <1>2, NoViewType DEF Init, BattleType
<1>4. IdsOK /\ Spaced
  BY ZenonT(60) DEF Init, IdsOK, Spaced
<1>5. \A p \in Clients : Feed(p)
  BY ZenonT(60) DEF Init, Feed
<1> QED
  BY ZenonT(60), <1>3, <1>4, <1>5 DEF BattleInv

\* A step that leaves the simulation alone except for the inputs.
LEMMA KeepsSim ==
  ASSUME BattleInv, tick' = tick, hp' = hp, pos' = pos, cd' = cd, shots' = shots,
         nextShot' = nextShot
  PROVE  /\ IdsOK' /\ Spaced' /\ tick' \in Nat /\ nextShot' \in Nat
         /\ hp' \in [Players -> Nat] /\ pos' \in [Players -> Nat] /\ cd' \in [Players -> Nat]
         /\ shots' \subseteq Shot
  BY ZenonT(60) DEF BattleInv, BattleType, IdsOK, Spaced

\* Every step keeps the invariant.
LEMMA BattleInvStep == BattleInv /\ [Next]_vars => BattleInv'
<1> SUFFICES ASSUME BattleInv, [Next]_vars PROVE BattleInv'
  OBVIOUS
<1>0. /\ BattleType /\ \A p \in Clients : Feed(p)
  BY ZenonT(60) DEF BattleInv
<1>1. /\ started \in BOOLEAN /\ conns \subseteq Clients
      /\ chan \in [Clients -> Seq(Snapshot)] /\ view \in [Clients -> View]
  BY ZenonT(60), <1>0 DEF BattleType
<1>2. FullSnapshot \in Snapshot
  BY ZenonT(60), <1>0, FullFacts
<1>3. <<FullSnapshot>> \in Seq(Snapshot) /\ <<>> \in Seq(Snapshot)
  <2>1. PICK s : s = FullSnapshot
    BY ZenonT(60)
  <2>2. <<s>> \in Seq(Snapshot) /\ <<>> \in Seq(Snapshot)
    <3>1. s \in Snapshot
      BY ZenonT(60), <1>2, <2>1
    <3> QED
      BY SMTT(60), <3>1
  <2> QED
    BY ZenonT(60), <2>1, <2>2
<1>4. CASE Start
  <2>1. /\ tick' = tick /\ hp' = hp /\ pos' = pos /\ cd' = cd /\ shots' = shots
        /\ nextShot' = nextShot /\ ~started /\ started' /\ conns' = conns /\ view' = view
        /\ chan' = [p \in Clients |->
                      IF p \in conns THEN Append(chan[p], FullSnapshot) ELSE chan[p]]
    BY ZenonT(60), <1>4 DEF Start, simVars
  <2>2. \A p \in Clients : chan[p] = <<>>
    BY ZenonT(60), <1>0, <2>1 DEF Feed
  <2>3. Append(<<>>, FullSnapshot) = <<FullSnapshot>>
    <3>1. \A s : Append(<<>>, s) = <<s>>
      BY SMTT(60)
    <3> QED
      BY ZenonT(60), <3>1
  <2>4. \A p \in Clients : chan'[p] = IF p \in conns THEN <<FullSnapshot>> ELSE <<>>
    BY ZenonT(60), <2>1, <2>2, <2>3
  <2>5. chan' \in [Clients -> Seq(Snapshot)]
    BY ZenonT(60), <2>1, <2>4, <1>3
  <2>6. ASSUME NEW p \in Clients PROVE Feed(p)'
    <3>1. CASE p \in conns
      <4>1. chan'[p] = <<FullSnapshot>> /\ started' /\ p \in conns'
        BY ZenonT(60), <3>1, <2>1, <2>4
      <4> QED
        BY ZenonT(60), <4>1, <2>1, FullFeed
    <3>2. CASE p \notin conns
      <4>1. chan'[p] = <<>> /\ p \notin conns'
        BY ZenonT(60), <3>2, <2>1, <2>4
      <4> QED
        BY ZenonT(60), <4>1 DEF Feed
    <3> QED
      BY ZenonT(60), <3>1, <3>2
  <2>7. started' \in BOOLEAN
    BY ZenonT(60), <1>4 DEF Start
  <2>8. BattleType' /\ IdsOK' /\ Spaced'
    BY ZenonT(60), <2>1, <2>5, <2>7, <1>1, KeepsSim DEF BattleType
  <2> QED
    BY ZenonT(60), <2>6, <2>8 DEF BattleInv
<1>5. ASSUME tick' = tick, hp' = hp, pos' = pos, cd' = cd, shots' = shots, nextShot' = nextShot,
             started' = started, conns' = conns, chan' = chan, view' = view
      PROVE  BattleInv'
  <2>1. BattleType' /\ IdsOK' /\ Spaced'
    BY ZenonT(60), <1>1, <1>5, KeepsSim DEF BattleType
  <2>2. ASSUME NEW p \in Clients PROVE Feed(p)'
    BY ZenonT(60), <1>5, IdleFeed
  <2> QED
    BY ZenonT(60), <2>1, <2>2 DEF BattleInv
<1>6. ASSUME NEW w \in Players, ForceEnd(w) PROVE BattleInv'
  BY ZenonT(60), <1>5, <1>6 DEF ForceEnd, simVars
<1>7. ASSUME NEW w \in Players, NEW in \in Inputs, OnInput(w, in) PROVE BattleInv'
  BY ZenonT(60), <1>5, <1>7 DEF OnInput
<1>8. ASSUME NEW w \in Clients, DropConn(w) \/ Rebind(w) PROVE BattleInv'
  <2>1. /\ tick' = tick /\ hp' = hp /\ pos' = pos /\ cd' = cd /\ shots' = shots
        /\ nextShot' = nextShot /\ started /\ started' = started /\ view' = view
    BY ZenonT(60), <1>8 DEF DropConn, Rebind, simVars
  <2>2. /\ chan' \in [Clients -> Seq(Snapshot)] /\ \A p \in Clients : p # w => chan'[p] = chan[p]
        /\ conns' \subseteq Clients /\ \A p \in Clients : p # w => (p \in conns' <=> p \in conns)
    BY ZenonT(60), <1>1, <1>3, <1>8 DEF DropConn, Rebind
  <2>3. Feed(w)'
    <3>1. CASE DropConn(w)
      <4>1. chan'[w] = <<>> /\ w \notin conns'
        BY ZenonT(60), <1>1, <3>1 DEF DropConn
      <4> QED
        BY ZenonT(60), <4>1 DEF Feed
    <3>2. CASE Rebind(w)
      <4>1. chan'[w] = <<FullSnapshot>> /\ w \in conns'
        BY ZenonT(60), <1>1, <3>2 DEF Rebind
      <4>2. started'
        BY ZenonT(60), <2>1
      <4> QED
        BY ZenonT(60), <4>1, <4>2, <2>1, FullFeed
    <3> QED
      BY ZenonT(60), <1>8, <3>1, <3>2
  <2>4. ASSUME NEW p \in Clients, p # w PROVE Feed(p)'
    <3>1. /\ chan'[p] = chan[p] /\ view'[p] = view[p] /\ (p \in conns' <=> p \in conns)
      BY ZenonT(60), <2>1, <2>2, <2>4
    <3> QED
      BY ZenonT(60), <3>1, <2>1, IdleFeed
  <2>5. BattleType' /\ IdsOK' /\ Spaced'
    BY ZenonT(60), <1>1, <2>1, <2>2, KeepsSim DEF BattleType
  <2> QED
    BY ZenonT(60), <2>3, <2>4, <2>5 DEF BattleInv
<1>9. ASSUME NEW w \in Clients, ClientPush(w) PROVE BattleInv'
  <2>1. /\ tick' = tick /\ hp' = hp /\ pos' = pos /\ cd' = cd /\ shots' = shots
        /\ nextShot' = nextShot /\ started' = started /\ conns' = conns
        /\ chan' = [chan EXCEPT ![w] = Tail(@)] /\ chan[w] # <<>>
    BY ZenonT(60), <1>9 DEF ClientPush, simVars
  <2>2. Feed(w)' /\ view'[w] \in View
    BY ZenonT(60), <1>9, ReadKeeps
  <2>3. /\ DOMAIN view' = Clients /\ \A p \in Clients : p # w => view'[p] = view[p]
        /\ view' = [p \in DOMAIN view' |-> view'[p]]
    BY ZenonT(60), <1>1, <1>9 DEF ClientPush
  <2>4. view' \in [Clients -> View]
    BY ZenonT(60), <2>2, <2>3, <1>1
  <2>5. Tail(chan[w]) \in Seq(Snapshot)
    <3>1. chan[w] \in Seq(Snapshot)
      BY ZenonT(60), <1>1
    <3> QED
      BY ZenonT(60), <3>1, <2>1, TailAt
  <2>6. chan' \in [Clients -> Seq(Snapshot)] /\ \A p \in Clients : p # w => chan'[p] = chan[p]
    BY ZenonT(60), <1>1, <2>1, <2>5
  <2>7. ASSUME NEW p \in Clients, p # w PROVE Feed(p)'
    <3>1. chan'[p] = chan[p] /\ view'[p] = view[p] /\ (p \in conns' <=> p \in conns)
      BY ZenonT(60), <2>1, <2>3, <2>6, <2>7
    <3> QED
      BY ZenonT(60), <3>1, <2>1, IdleFeed
  <2>8. BattleType' /\ IdsOK' /\ Spaced'
    BY ZenonT(60), <1>1, <2>1, <2>4, <2>6, KeepsSim DEF BattleType
  <2> QED
    BY ZenonT(60), <2>2, <2>7, <2>8 DEF BattleInv
<1>10. ASSUME NEW moved \in SUBSET MayMove, NEW hits \in SUBSET shots, NEW ids \in Numberings,
              NEW lost \in SUBSET (shots \ hits), OnTick(moved, hits, lost, ids)
       PROVE  BattleInv'
  <2>1. nextShot' \in Nat /\ shots' \subseteq Shot /\ IdsOK'
    BY ZenonT(60), <1>10, TickShots
  <2>2. Spaced' /\ cd' \in [Players -> Nat]
    BY ZenonT(60), <1>10, TickSpaced
  <2>3. hp' \in [Players -> Nat] /\ pos' \in [Players -> Nat] /\ tick' \in Nat
    BY ZenonT(60), <1>10, TickPlayers
  <2>4. chan' \in [Clients -> Seq(Snapshot)] /\ \A p \in Clients : Feed(p)'
    BY ZenonT(60), <1>10, TickFeed
  <2>5. started' = started /\ conns' = conns /\ view' = view
    BY ZenonT(60), <1>10 DEF OnTick
  <2>6. BattleType'
    BY ZenonT(60), <2>1, <2>2, <2>3, <2>4, <2>5, <1>1 DEF BattleType
  <2> QED
    BY ZenonT(60), <2>1, <2>2, <2>4, <2>6 DEF BattleInv
<1>11. CASE UNCHANGED vars
  BY ZenonT(60), <1>5, <1>11 DEF vars, simVars
<1> QED
  BY ZenonT(60), <1>4, <1>6, <1>7, <1>8, <1>9, <1>10, <1>11 DEF Next

\* The invariant of the battle: the types, each projectile's id given once, the
\* projectiles of a player a cooldown apart, and for each connected client a
\* chain of snapshots that together tell all of the server's state.
THEOREM BattleInvHolds == Spec => []BattleInv
<1>1. Init => BattleInv
  BY BattleInvInit
<1>2. BattleInv /\ [Next]_vars => BattleInv'
  BY BattleInvStep
<1> QED
  BY <1>1, <1>2, PTL DEF Spec

-----------------------------------------------------------------------------
(* What the invariant says.                                                *)

\* Once a connected client has read everything, its view is the server's state
\* (Room::onTick, sendFullSnapshot, rebind; SnapshotInterpolator.Push).
THEOREM ViewIsExactHolds == Spec => []ViewIsExact
<1>1. ASSUME BattleInv, NEW p \in conns, chan[p] = <<>>, started
      PROVE  /\ view[p].players = [q \in Players |-> <<hp[q], pos[q]>>]
             /\ view[p].shots = ShotStates(shots)
  <2>1. p \in Clients /\ view[p] \in View
    BY ZenonT(60), <1>1 DEF BattleInv, BattleType
  <2>2. Chain(p) /\ \A w \in Players : Told(p, w)
    BY ZenonT(60), <1>1, <2>1 DEF BattleInv, Feed
  <2>3. view[p].shots = ShotStates(shots)
    BY ZenonT(60), <1>1, <2>2 DEF Chain, Newest
  <2>4. DOMAIN chan[p] = {}
    <3>1. DOMAIN <<>> = {}
      BY SMTT(60)
    <3> QED
      BY ZenonT(60), <1>1, <3>1
  <2>5. \A w \in Players : w \in DOMAIN view[p].players /\ view[p].players[w] = Now(w)
    BY ZenonT(60), <2>2, <2>4 DEF Told
  <2>6. PICK f : f = view[p].players
    BY ZenonT(60)
  <2>7. DOMAIN f \subseteq Players /\ f \in [DOMAIN f -> Nat \X Nat]
    BY ZenonT(60), <2>1, <2>6, PartialFcn DEF View, PlayerStates
  <2>8. DOMAIN f = Players /\ f \in [Players -> Nat \X Nat] /\ \A w \in Players : f[w] = Now(w)
    BY ZenonT(60), <2>5, <2>6, <2>7
  <2>9. f = [w \in Players |-> Now(w)]
    BY ZenonT(60), <2>8
  <2> QED
    BY ZenonT(60), <2>3, <2>6, <2>9 DEF Now
<1>2. BattleInv => ViewIsExact
  BY ZenonT(60), <1>1 DEF ViewIsExact
<1> QED
  BY <1>2, BattleInvHolds, PTL

\* What a delta removes, the client that reads it holds (BattleSim::step phase 4,
\* SnapshotInterpolator.Push).
THEOREM TombstonesAreKnownHolds == Spec => []TombstonesAreKnown
<1>1. ASSUME BattleInv, NEW p \in conns, chan[p] # <<>>
      PROVE  Head(chan[p]).removed \subseteq DOMAIN view[p].shots
  <2>1. p \in Clients /\ chan[p] \in Seq(Snapshot)
    BY ZenonT(60), <1>1 DEF BattleInv, BattleType
  <2>2. Chain(p)
    BY ZenonT(60), <1>1, <2>1 DEF BattleInv, Feed
  <2>3. 1 \in DOMAIN chan[p] /\ chan[p][1] = Head(chan[p])
    BY ZenonT(60), <1>1, <2>1, TailAt
  <2>4. Follows(Before(chan[p], view[p], 1), chan[p][1])
    BY ZenonT(60), <2>2, <2>3 DEF Chain
  <2>5. Follows(view[p], Head(chan[p]))
    BY ZenonT(60), <2>3, <2>4 DEF Before
  <2> QED
    BY ZenonT(60), <2>5 DEF Follows
<1>2. BattleInv => TombstonesAreKnown
  BY ZenonT(60), <1>1 DEF TombstonesAreKnown
<1> QED
  BY <1>2, BattleInvHolds, PTL

\* Whole cooldowns: ages that are a cooldown apart have different numbers of them,
\* and an age below r + 1 has no more than r has.
LEMMA Cooldowns ==
  ASSUME NEW c \in Nat \ {0}
  PROVE  /\ \A a \in Nat : a \div c \in Nat
         /\ \A a, b \in Nat : a + c <= b => a \div c # b \div c
         /\ \A a, r \in Nat : a <= r => a \div c <= r \div c
         /\ \A r \in Nat : (r + c) \div c = (r \div c) + 1
<1>1. ASSUME NEW a \in Nat PROVE a \div c \in Nat
  BY SMTT(60)
<1>2. ASSUME NEW a \in Nat, NEW b \in Nat, a + c <= b PROVE a \div c # b \div c
  BY SMTT(60), <1>2
<1>3. ASSUME NEW a \in Nat, NEW r \in Nat, a <= r PROVE a \div c <= r \div c
  BY SMTT(60), <1>3
<1>4. ASSUME NEW r \in Nat PROVE (r + c) \div c = (r \div c) + 1
  BY SMTT(60)
<1> QED
  BY ZenonT(60), <1>1, <1>2, <1>3, <1>4

\* A player never has more projectiles in flight than cooldowns fit into the
\* range, rounded up (BattleSim::step phases 2 to 4): two of them are a cooldown
\* apart, so each has flown for another number of whole cooldowns.  That a
\* projectile goes when its range is used up (Spent) is what InputsAssumption is
\* for: the code's comparison decides it only for finite positions.
THEOREM ShotsInFlightBoundedHolds == Spec => []ShotsInFlightBounded
<1>1. ASSUME BattleInv, NEW p \in Players
      PROVE  Cardinality({x \in shots : x.owner = p}) <= (RangeTicks + CdTicks - 1) \div CdTicks
  <2>1. PICK c : c = CdTicks
    BY ZenonT(60)
  <2>2. PICK r : r = RangeTicks - 1
    BY ZenonT(60)
  <2>3. PICK s : s = {x \in shots : x.owner = p}
    BY ZenonT(60)
  <2>4. c \in Nat \ {0} /\ r \in Nat /\ RangeTicks + CdTicks - 1 = r + c /\ RangeTicks = r + 1
    BY SMTT(60), <2>1, <2>2, ParametersAssumption
  <2>5. \A x \in s : x.age \in Nat /\ x.age < r + 1
    <3>1. shots \subseteq Shot /\ \A x \in shots : x.age < RangeTicks
      BY ZenonT(60), <1>1 DEF BattleInv, BattleType, IdsOK
    <3>2. \A x \in Shot : x.age \in Nat
      BY ZenonT(60) DEF Shot
    <3> QED
      BY ZenonT(60), <2>3, <2>4, <3>1, <3>2
  <2>6. \A x \in s : x.age <= r
    BY SMTT(60), <2>4, <2>5
  <2>7. \A x, y \in s : x # y => x.age + c <= y.age \/ y.age + c <= x.age
    <3>1. \A x, y \in shots : x.owner = y.owner /\ x # y =>
            x.age + CdTicks <= y.age \/ y.age + CdTicks <= x.age
      BY ZenonT(60), <1>1 DEF BattleInv, Spaced
    <3> QED
      BY ZenonT(60), <2>1, <2>3, <3>1
  <2>8. PICK n : n = r \div c
    BY ZenonT(60)
  <2>9. n \in Nat /\ (r + c) \div c = n + 1
    BY ZenonT(60), <2>4, <2>8, Cooldowns
  <2>10. \A x \in s : x.age \div c \in Nat /\ x.age \div c <= n
    BY ZenonT(60), <2>4, <2>5, <2>6, <2>8, Cooldowns
  <2>11. \A x, y \in s : x.age \div c = y.age \div c => x = y
    BY ZenonT(60), <2>4, <2>5, <2>7, Cooldowns
  <2>12. PICK f : f = [x \in s |-> x.age \div c]
    BY ZenonT(60)
  <2>13. \A k \in Nat : k <= n => k \in 0..n
    BY SMTT(60), <2>9
  <2>14. f \in Injection(s, 0..n)
    BY ZenonT(60), <2>10, <2>11, <2>12, <2>13 DEF Injection, IsInjective
  <2>15. IsFiniteSet(0..n) /\ Cardinality(0..n) = n + 1
    <3>1. 0 \in Int /\ n \in Int /\ ~(0 > n) /\ n - 0 + 1 = n + 1
      BY SMTT(60), <2>9
    <3> QED
      BY ZenonT(60), <3>1, FS_Interval
  <2>16. Cardinality(s) <= Cardinality(0..n)
    BY ZenonT(60), <2>14, <2>15, FS_Injection
  <2> QED
    BY ZenonT(60), <2>1, <2>3, <2>4, <2>9, <2>15, <2>16
<1>2. BattleInv => ShotsInFlightBounded
  BY ZenonT(60), <1>1 DEF ShotsInFlightBounded
<1> QED
  BY <1>2, BattleInvHolds, PTL
=============================================================================
