----------------------------- MODULE TimerWheel -----------------------------
(***************************************************************************)
(* The two-level timing wheel of src/src/timer/TimerWheel.cc.              *)
(*                                                                         *)
(* Callbacks run inside advance() and may call add() and cancel(), so      *)
(* advance() is not one step: AdvanceBegin computes the number of ticks,   *)
(* each tick moves the clock and takes a slot of L1 if L0 has gone round   *)
(* (TickBegin), places its nodes again one by one (CascadeNext), takes the *)
(* slot of L0 (FireSlot), fires its nodes one by one (FireNext) and ends   *)
(* (TickEnd).  Between two callbacks, and outside advance(), Add and       *)
(* Cancel may happen.                                                      *)
(***************************************************************************)
EXTENDS Naturals, Sequences, FiniteSets

CONSTANTS
  kSlots,    \* slots per level, 64 in the code
  kTickMs,   \* milliseconds per tick, 100 in the code
  Delays,    \* the delays, in ms, that add() is called with
  Elapsed,   \* the times, in ms, that advance() is called with
  MaxTimers, \* bound: how many timers are added
  MaxTick    \* bound: no advance() once this tick is reached

ASSUME SlotsAssumption == kSlots \in Nat /\ kSlots > 1
ASSUME TickAssumption == kTickMs \in Nat \ {0}
ASSUME DelaysAssumption == Delays \subseteq Nat /\ Elapsed \subseteq Nat
ASSUME BoundsAssumption == MaxTimers \in Nat /\ MaxTick \in Nat

Ids   == 1..MaxTimers
Slots == 0..(kSlots - 1)

VARIABLES
  nowTick,     \* nowTick_
  remainderMs, \* remainderMs_
  steps,       \* ticks that the running advance() has still to do, 0 outside
  mode,        \* "idle", between ticks ("step"), in the cascade ("cascade"),
               \* before a callback ("firing"), in a callback ("callback")
  l0, l1,      \* the slots of both levels: sequences of ids
  cascade,     \* what is left of the slot being cascaded
  toFire,      \* fireSlot()'s pending: what is left of the slot being fired
  expiry,      \* Node::expiryTick
  alive,       \* the keys of alive_
  canceled,    \* ids of nodes whose canceled flag is set
  nextId,      \* nextId_
  due,         \* the tick that each timer was asked for, 0 before it is added
  delay,       \* the delay it was added with
  fired        \* ids whose callback ran

wheelVars == <<nowTick, remainderMs, steps, mode, l0, l1, cascade, toFire,
              expiry, alive, canceled, nextId, due, delay, fired>>

WheelInit ==
  /\ nowTick = 0 /\ remainderMs = 0 /\ steps = 0 /\ mode = "idle"
  /\ l0 = [s \in Slots |-> <<>>] /\ l1 = [s \in Slots |-> <<>>]
  /\ cascade = <<>> /\ toFire = <<>>
  /\ expiry = [n \in Ids |-> 0]
  /\ alive = {} /\ canceled = {}
  /\ nextId = 1
  /\ due = [n \in Ids |-> 0] /\ delay = [n \in Ids |-> 0]
  /\ fired = {}

\* Where a caller of add() or cancel() may be.
InCaller == mode \in {"idle", "callback"}

\* The delay in ticks: rounded up, at least one.
Ticks(ms) ==
  LET t == (ms + kTickMs - 1) \div kTickMs
  IN  IF t = 0 THEN 1 ELSE t

\* Mutant: the L1 slot is one too far.
L1SlotNext(e) == (e \div kSlots + 1) % kSlots

\* place(): which level, and which slot of it.
OnL0(e, now) == e - now < kSlots
L0Slot(e) == e % kSlots
L1Slot(e) == (e \div kSlots) % kSlots

\* place(): a node beyond the range of L1 gets a nearer expiry.
Cut(e, now) == IF e - now >= kSlots * kSlots THEN now + kSlots * kSlots - 1 ELSE e

\* place(): node n, with expiryTick e, goes to the end of its slot.
Place(n, e) ==
  IF OnL0(e, nowTick)
    THEN /\ l0' = [l0 EXCEPT ![L0Slot(e)] = Append(@, n)]
         /\ expiry' = [expiry EXCEPT ![n] = e]
         /\ UNCHANGED l1
    ELSE LET x == Cut(e, nowTick)
         IN  /\ l1' = [l1 EXCEPT ![L1Slot(x)] = Append(@, n)]
             /\ expiry' = [expiry EXCEPT ![n] = x]
             /\ UNCHANGED l0

\* add(): also from a callback.
Add(ms) ==
  LET n == nextId
  IN  /\ InCaller
      /\ nextId <= MaxTimers
      /\ nextId' = nextId + 1
      /\ alive' = alive \cup {n}
      /\ Place(n, nowTick + Ticks(ms))
      /\ due' = [due EXCEPT ![n] = nowTick + Ticks(ms)]
      /\ delay' = [delay EXCEPT ![n] = ms]
      /\ UNCHANGED <<nowTick, remainderMs, steps, mode, cascade, toFire, canceled, fired>>

\* cancel(): the node stays in its slot, flagged.
Cancel(n) ==
  /\ InCaller
  /\ n \in alive
  /\ canceled' = canceled \cup {n}
  /\ alive' = alive \ {n}
  /\ UNCHANGED <<nowTick, remainderMs, steps, mode, l0, l1, cascade, toFire, expiry,
                 nextId, due, delay, fired>>

\* What is less than a tick.
Remainder(total) == total % kTickMs

\* advance(): the remainder is kept for the next call.
AdvanceBegin(ms) ==
  LET total == remainderMs + ms
  IN  /\ mode = "idle"
      /\ nowTick < MaxTick
      /\ remainderMs' = Remainder(total)
      /\ steps' = total \div kTickMs
      /\ mode' = IF total \div kTickMs = 0 THEN "idle" ELSE "step"
      /\ UNCHANGED <<nowTick, l0, l1, cascade, toFire, expiry, alive, canceled,
                     nextId, due, delay, fired>>

\* Mutant: the cascade goes through the slot from the back.
TakenDownBackwards(t) ==
  LET c == l1[(t \div kSlots) % kSlots]
  IN  IF t % kSlots = 0 THEN [i \in DOMAIN c |-> c[Len(c) + 1 - i]] ELSE <<>>

\* When L0 has gone round, the current slot of L1 is taken.
TakenDown(t) == IF t % kSlots = 0 THEN l1[(t \div kSlots) % kSlots] ELSE <<>>

\* A tick of advance() begins.
TickBegin ==
  LET t == nowTick + 1
  IN  /\ mode = "step"
      /\ nowTick' = t
      /\ cascade' = TakenDown(t)
      /\ l1' = IF t % kSlots = 0
                 THEN [l1 EXCEPT ![(t \div kSlots) % kSlots] = <<>>] ELSE l1
      /\ mode' = "cascade"
      /\ UNCHANGED <<remainderMs, steps, l0, toFire, expiry, alive, canceled,
                     nextId, due, delay, fired>>

\* The next node of that slot is dropped if it was cancelled, and placed again by
\* what is left of its delay if not.
CascadeNext ==
  LET n == Head(cascade)
  IN  /\ mode = "cascade"
      /\ cascade # <<>>
      /\ cascade' = Tail(cascade)
      /\ IF n \in canceled THEN UNCHANGED <<l0, l1, expiry>> ELSE Place(n, expiry[n])
      /\ UNCHANGED <<nowTick, remainderMs, steps, mode, toFire, alive, canceled,
                     nextId, due, delay, fired>>

\* fireSlot() takes the current slot of L0, with what the cascade put there.
FireSlot ==
  /\ mode = "cascade"
  /\ cascade = <<>>
  /\ toFire' = l0[L0Slot(nowTick)]
  /\ l0' = [l0 EXCEPT ![L0Slot(nowTick)] = <<>>]
  /\ mode' = "firing"
  /\ UNCHANGED <<nowTick, remainderMs, steps, l1, cascade, expiry, alive, canceled,
                 nextId, due, delay, fired>>

\* fireSlot() passes over cancelled nodes.
Skipped(n) == n \in canceled

FireNext ==
  LET n == Head(toFire)
  IN  /\ mode \in {"firing", "callback"}
      /\ toFire # <<>>
      /\ toFire' = Tail(toFire)
      /\ IF Skipped(n)
           THEN UNCHANGED <<alive, fired, mode>>
           ELSE alive' = alive \ {n} /\ fired' = fired \cup {n} /\ mode' = "callback"
      /\ UNCHANGED <<nowTick, remainderMs, steps, l0, l1, cascade, expiry, canceled,
                     nextId, due, delay>>

TickEnd ==
  /\ mode \in {"firing", "callback"}
  /\ toFire = <<>>
  /\ steps' = steps - 1
  /\ mode' = IF steps = 1 THEN "idle" ELSE "step"
  /\ UNCHANGED <<nowTick, remainderMs, l0, l1, cascade, toFire, expiry, alive,
                 canceled, nextId, due, delay, fired>>

WheelNext ==
  \/ \E ms \in Delays : Add(ms)
  \/ \E n \in Ids : Cancel(n)
  \/ \E ms \in Elapsed : AdvanceBegin(ms)
  \/ TickBegin \/ CascadeNext \/ FireSlot \/ FireNext \/ TickEnd

WheelSpec == WheelInit /\ [][WheelNext]_wheelVars

-----------------------------------------------------------------------------

\* The timers whose delay is within the range of L1.
InRange == {n \in Ids : Ticks(delay[n]) < kSlots * kSlots}

\* The wheel implements exact timers.
Abstract == INSTANCE Timers WITH
  now <- nowTick,
  armed <- {[id |-> n, due |-> due[n]] : n \in alive \cap InRange},
  fired <- fired \cap InRange

\* Every timer within the range of L1 fires at the tick it was asked for, once,
\* unless it is cancelled first: never early, never late, wherever the cascades
\* and the callbacks that add and cancel fall, and whatever timers beyond the
\* range share its slots.
ImplementsTimers == Abstract!Spec

\* Of two timers with the same delay the one added first fires first, also when
\* both are due at the same tick.  (The lobby's two 30 s timers rely on it.)
EqualDelaysInOrder ==
  \A m, n \in Ids :
    m < n /\ delay[m] = delay[n] /\ n \in fired => m \in fired \cup canceled

\* "What is beyond the range of L1 is cut down to the farthest slot; the cascade
\* places it again by what remains": no timer fires before the tick it was asked
\* for.  The code does not keep this: place() overwrites the expiry, so nothing
\* remains when the slot comes round.
NeverEarly == \A n \in fired : due[n] <= nowTick
=============================================================================
