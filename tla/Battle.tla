------------------------------- MODULE Battle -------------------------------
(***************************************************************************)
(* One battle: the room (src/src/game/Room.cc) and the simulation it steps *)
(* (BattleSim.cc), the snapshots it sends, and the view the client builds  *)
(* from them (client SnapshotInterpolator.cs, Push).                       *)
(*                                                                         *)
(* Geometry is abstracted to its outcomes.  In a tick every player that    *)
(* wants to move may or may not change position (the arena's walls), and   *)
(* every projectile that was in flight hits a player, flies on, or leaves  *)
(* the arena; it is gone at the latest when its range is used up.  A       *)
(* position is represented by the tick at which it last changed.  The maps *)
(* of BattleSim are unordered: shots of one tick get their ids in any      *)
(* order.                                                                  *)
(*                                                                         *)
(* One thing is assumed of the clients: the direction of an input is two   *)
(* finite numbers.  BattleSim shortens a direction that is too long and    *)
(* checks nothing else; with one that is not a number, positions become    *)
(* that too, and neither the walls nor the range decide anything.          *)
(*                                                                         *)
(* A player's connection is a FIFO of snapshots.  Losing it loses what is  *)
(* in it; the lobby never asks for a rebind before the dropConn of the     *)
(* connection before.  EnterRoom and BattleEnd, and what endBattle does to *)
(* the ticker and the lobby, are in module GameServer.                     *)
(***************************************************************************)
EXTENDS Integers, Sequences, FiniteSets

CONSTANTS
  Players,     \* the two players of the room
  Clients,     \* the players whose connection and view are followed
  Inputs,      \* the inputs a client may send
  kMaxHp, kDamage,
  CdTicks,     \* kAttackCd in ticks
  RangeTicks,  \* kProjectileRange in ticks of flight
  MaxTick,     \* bound: ticks of a battle
  MaxChan      \* bound: no tick while a client lags this many snapshots behind

ASSUME PlayersAssumption == IsFiniteSet(Players) /\ Cardinality(Players) = 2

\* An input whose direction is finite: it moves, or its direction is zero.
FiniteInput == [move : BOOLEAN, attack : BOOLEAN]

ASSUME InputsAssumption == Inputs \subseteq FiniteInput
ASSUME ClientsAssumption == Clients \subseteq Players
ASSUME ParametersAssumption ==
  /\ {kMaxHp, kDamage, CdTicks, RangeTicks} \subseteq Nat \ {0}
  /\ MaxTick \in Nat /\ MaxChan \in Nat

NoInput == [move |-> FALSE, attack |-> FALSE]

VARIABLES
  started,     \* start() has run: the ticker is set
  ended,       \* ended_
  winner,      \* what endBattle announced, {} before
  tick,        \* tick_
  hp, pos,     \* P::hp, and the tick of the last change of P::x, P::y
  cd,          \* P::cdMs, in ticks
  input,       \* P::input, NoInput until hasInput
  shots,       \* projectiles_: records [id, owner, age]
  nextShot,    \* nextProjectileId_
  conns,       \* the players whose entry in conns_ is not null
  chan,        \* per player, the snapshots on the way to the client
  view         \* per player, what the client's interpolator holds

simVars == <<tick, hp, pos, cd, input, shots, nextShot>>
vars == <<started, ended, winner, simVars, conns, chan, view>>

Alive(p) == hp[p] > 0
ShotIds(s) == {x.id : x \in s}

\* fillProjectileState for each of the projectiles in s: id and position, which
\* the number of ticks it has flown stands for.
ShotStates(s) == [i \in ShotIds(s) |-> (CHOOSE x \in s : x.id = i).age]

\* A client before its first full snapshot.
NoView == [tick |-> 0, players |-> <<>>, shots |-> <<>>]

Init ==
  /\ started = FALSE /\ ended = FALSE /\ winner = {}
  /\ tick = 0
  /\ hp = [p \in Players |-> kMaxHp] /\ pos = [p \in Players |-> 0]
  /\ cd = [p \in Players |-> 0] /\ input = [p \in Players |-> NoInput]
  /\ shots = {} /\ nextShot = 1
  /\ conns = Clients
  /\ chan = [p \in Clients |-> <<>>]
  /\ view = [p \in Clients |-> NoView]

-----------------------------------------------------------------------------
(* Room.                                                                   *)

\* sendFullSnapshot: every player and every projectile.
FullSnapshot ==
  [full |-> TRUE, tick |-> tick, removed |-> {}, shots |-> ShotStates(shots),
   players |-> [p \in Players |-> <<hp[p], pos[p]>>]]

Start ==
  /\ ~started
  /\ started' = TRUE
  /\ chan' = [p \in Clients |->
                IF p \in conns THEN Append(chan[p], FullSnapshot) ELSE chan[p]]
  /\ UNCHANGED <<ended, winner, simVars, conns, view>>

\* onInput and applyInput: the latest input replaces the one before.
OnInput(p, in) ==
  /\ started /\ ~ended
  /\ input' = [input EXCEPT ![p] = in]
  /\ UNCHANGED <<started, ended, winner, tick, hp, pos, cd, shots, nextShot,
                 conns, chan, view>>

\* dropConn, after the client lost its connection.
DropConn(p) ==
  /\ started /\ p \in conns
  /\ conns' = conns \ {p}
  /\ chan' = [chan EXCEPT ![p] = <<>>]
  /\ UNCHANGED <<started, ended, winner, simVars, view>>

\* rebind: the new connection gets a full snapshot first.
Rebind(p) ==
  /\ started /\ p \notin conns
  /\ conns' = conns \cup {p}
  /\ chan' = [chan EXCEPT ![p] = <<FullSnapshot>>]
  /\ UNCHANGED <<started, ended, winner, simVars, view>>

\* forceEnd, for the opponent of a player whose session expired.
ForceEnd(w) ==
  /\ started /\ ~ended
  /\ ended' = TRUE /\ winner' = {w}
  /\ UNCHANGED <<started, simVars, conns, chan, view>>

-----------------------------------------------------------------------------
(* BattleSim::step, phase by phase, and Room::onTick around it.            *)

\* 1) Who moves: alive, with a direction, which is finite; a wall may stop any
\* of them.
MayMove == {p \in Players : Alive(p) /\ input[p].move}

\* Mutant: a shot does not set the cooldown.
CdAfterNot(p, who) == 0

\* 2) The cooldown runs down by one tick.
Cooled(p) == IF cd[p] = 0 THEN 0 ELSE cd[p] - 1

\* 3) Who shoots.
Shooters == {p \in Players : Alive(p) /\ input[p].attack /\ Cooled(p) = 0}

\* The cooldown after the shots of the players in who.
CdAfter(p, who) == IF p \in who THEN CdTicks ELSE Cooled(p)

\* The new projectiles, ids given in some order of the shooters.
NewShots(ids) == {[id |-> ids[p], owner |-> p, age |-> 0] : p \in Shooters}

\* 4) Which projectiles hit: each hits the other player, as long as that player
\* is alive when its turn comes (kDamage per hit, hp never below 0).
HitsOn(p, hits) == {x \in hits : x.owner # p}
MayHit(hits) ==
  \A p \in Players :
    HitsOn(p, hits) # {} => kDamage * (Cardinality(HitsOn(p, hits)) - 1) < hp[p]

HpAfter(p, hits) ==
  LET lost == kDamage * Cardinality(HitsOn(p, hits))
  IN  IF lost >= hp[p] THEN 0 ELSE hp[p] - lost

\* Which of the others must go: those whose range is used up.  In the code this
\* is a comparison of floats, which finite positions decide: every projectile
\* flies at the one speed towards the opponent (there is one alive while the
\* battle goes on), or, fired from on top of the opponent, stays and hits.
Spent(s) == {x \in s : x.age + 1 >= RangeTicks}
Flown(s) == {[x EXCEPT !.age = @ + 1] : x \in s}

\* winnerOrZero, as the set of players it names: one left alive.
Survivor(h) ==
  LET alive == {p \in Players : h[p] > 0}
  IN  IF Cardinality(alive) = 1 THEN alive ELSE {}

\* Mutants: removed projectiles are not announced; the projectiles are those
\* before the shots of this tick.
DeltaNoTombstones(moved, hits, gone) ==
  [full |-> FALSE, tick |-> tick', shots |-> ShotStates(shots'), removed |-> {},
   players |-> [p \in moved \cup {q \in Players : HitsOn(q, hits) # {}} |->
                  <<hp'[p], pos'[p]>>]]
DeltaNoNewShots(moved, hits, gone) ==
  [full |-> FALSE, tick |-> tick', shots |-> ShotStates({x \in shots' : x.age > 0}),
   removed |-> ShotIds(gone),
   players |-> [p \in moved \cup {q \in Players : HitsOn(q, hits) # {}} |->
                  <<hp'[p], pos'[p]>>]]

\* The delta onTick sends: changed players, all projectiles, those removed.
Delta(moved, hits, gone) ==
  [full |-> FALSE, tick |-> tick', shots |-> ShotStates(shots'), removed |-> ShotIds(gone),
   players |-> [p \in moved \cup {q \in Players : HitsOn(q, hits) # {}} |->
                  <<hp'[p], pos'[p]>>]]

\* A tick with nothing to tell is not sent.
Worth(d) == DOMAIN d.players # {} \/ DOMAIN d.shots # {} \/ d.removed # {}

\* onTick: moved are the players that changed position, hits and lost the
\* projectiles that hit or left the arena, ids the numbering of new ones.
OnTick(moved, hits, lost, ids) ==
  LET gone == hits \cup lost \cup Spent(shots \ hits)
      d    == Delta(moved, hits, gone)
  IN  /\ started /\ ~ended
      /\ tick < MaxTick
      /\ \A p \in conns : Len(chan[p]) < MaxChan
      /\ MayHit(hits)
      /\ tick' = tick + 1
      /\ pos' = [p \in Players |-> IF p \in moved THEN tick + 1 ELSE pos[p]]
      /\ cd' = [p \in Players |-> CdAfter(p, Shooters)]
      /\ nextShot' = nextShot + Cardinality(Shooters)
      /\ hp' = [p \in Players |-> HpAfter(p, hits)]
      /\ shots' = Flown(shots \ gone) \cup NewShots(ids)
      /\ chan' = [p \in Clients |->
                    IF p \in conns /\ Worth(d) THEN Append(chan[p], d) ELSE chan[p]]
      /\ winner' = Survivor(hp')
      /\ ended' = (Survivor(hp') # {})
      /\ UNCHANGED <<started, input, conns, view>>

\* The numberings of this tick's shooters: consecutive ids, in any order.
Numberings ==
  LET new == nextShot..(nextShot + Cardinality(Shooters) - 1)
  IN  {f \in [Shooters -> new] : \A p, q \in Shooters : f[p] = f[q] => p = q}

-----------------------------------------------------------------------------
(* The client.                                                             *)

\* Push: a full snapshot starts from nothing.
Base(p, s) == IF s.full THEN NoView ELSE view[p]

\* The entries of new replace those of old, and the ones in gone are taken out.
Overlay(old, new, gone) ==
  [k \in (DOMAIN old \cup DOMAIN new) \ gone |->
     IF k \in DOMAIN new THEN new[k] ELSE old[k]]

\* Push: an old tick is dropped, else changed players and projectiles replace
\* what the client had and removed projectiles go.
ClientPush(p) ==
  LET s == Head(chan[p])
      b == Base(p, s)
  IN  /\ chan[p] # <<>>
      /\ chan' = [chan EXCEPT ![p] = Tail(@)]
      /\ view' = [view EXCEPT ![p] =
           IF b.tick # 0 /\ s.tick <= b.tick
             THEN b
             ELSE [tick    |-> s.tick,
                   players |-> Overlay(b.players, s.players, {}),
                   shots   |-> Overlay(b.shots, s.shots, s.removed)]]
      /\ UNCHANGED <<started, ended, winner, simVars, conns>>

-----------------------------------------------------------------------------

Next ==
  \/ Start
  \/ \E p \in Players : ForceEnd(p) \/ \E in \in Inputs : OnInput(p, in)
  \/ \E p \in Clients : DropConn(p) \/ Rebind(p) \/ ClientPush(p)
  \/ \E moved \in SUBSET MayMove, hits \in SUBSET shots, ids \in Numberings :
        \E lost \in SUBSET (shots \ hits) : OnTick(moved, hits, lost, ids)

Spec == Init /\ [][Next]_vars

-----------------------------------------------------------------------------

\* Once a connected client has read what is on its connection, its view is the
\* server's state: deltas, tombstones and the full snapshot after a reconnect
\* together lose nothing.
ViewIsExact ==
  \A p \in conns :
    chan[p] = <<>> /\ started =>
      /\ view[p].players = [q \in Players |-> <<hp[q], pos[q]>>]
      /\ view[p].shots = ShotStates(shots)

\* Cooldown and range together bound what a snapshot carries: as long as clients
\* send finite directions (InputsAssumption), a player never has more projectiles
\* in flight than cooldowns fit into the range (rounded up).
ShotsInFlightBounded ==
  \A p \in Players :
    Cardinality({x \in shots : x.owner = p}) <= (RangeTicks + CdTicks - 1) \div CdTicks

\* Every shot is visible for at least one snapshot, even one fired at close
\* range: what a delta removes, the client holds.
TombstonesAreKnown ==
  \A p \in conns : chan[p] # <<>> => Head(chan[p]).removed \subseteq DOMAIN view[p].shots

\* "HP at zero loses": when a player is down, the battle is over.  The code does
\* not keep this: two players who fall in the same tick leave no survivor, and
\* winnerOrZero keeps returning 0.
KnockoutEndsBattle == (\E p \in Players : hp[p] = 0) => ended
=============================================================================
