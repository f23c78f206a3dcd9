----------------------------- MODULE LoopProofs -----------------------------
(***************************************************************************)
(* What a thread of the server runs on.  First the safety of EventLoop and *)
(* EventLoopThread, for any set of producers and any number of functors.   *)
(* Then the timing wheel, for any number of slots, any length of a tick    *)
(* and any delays: it implements exact timers, and timers with equal       *)
(* delays fire in the order they were added.                               *)
(***************************************************************************)
EXTENDS EventLoop, TimerWheel, QueueLemmas

-----------------------------------------------------------------------------
(* The event loop (src/src/net/EventLoop.cc, EventLoopThread.cc).          *)

\* A functor is running, or about to run, only inside doPendingFunctors.
RunningOnly == (functors # <<>> \/ nested) => tpc = "run"

\* loop_ is set from the publication of the loop until the thread leaves, and
\* the destructor calls quit() only while it is.
LoopPublished ==
  /\ loopSet <=> tpc \notin {"unborn", "built", "dead"}
  /\ OwnerLocks => loopSet

\* Someone is between the push and the write of a post.
Writing == nested \/ opc = "write" \/ \E x \in Producers : ppc[x] = "write"

\* Except on the way from epoll_wait to the swap, a pending functor has an
\* unreported, readable eventfd or a write to come; and so has a quit that came
\* after the test of the while loop.
WakeupDue ==
  /\ pending # <<>> /\ tpc \notin {"wakeup", "swap"}
       => (edge /\ counter > 0) \/ Writing
  /\ quit /\ tpc = "poll" => (edge /\ counter > 0) \/ Writing

\* The inductive invariant.
LoopInv == TypeOK /\ RunInOrder /\ RunningOnly /\ LoopPublished /\ WakeupDue

\* The steps that leave all functors where they are.
Quiet ==
  \/ ThreadBuild \/ ThreadPublish \/ LoopEnter \/ LoopTest \/ PollWakeup
  \/ HandleWakeup \/ NestedWrite \/ FunctorsDone \/ ThreadEnd \/ PollOther
  \/ OwnerStep \/ DtorLock \/ \E x \in Producers : QueueWrite(x)

\* Those steps keep every type and the order of the functors.
LEMMA QuietTypes ==
  ASSUME LoopInv, Quiet
  PROVE  TypeOK' /\ RunInOrder'
<1>1. UNCHANGED <<pending, functors, pushed, executed>>
  BY Zenon DEF Quiet, ThreadBuild, ThreadPublish, LoopEnter, LoopTest, PollWakeup,
     HandleWakeup, NestedWrite, FunctorsDone, ThreadEnd, PollOther, OwnerStep, OwnerSpawn,
     OwnerGetsLoop, DtorQuit, DtorWrite, DtorJoin, DtorLock, QueueWrite
<1>2. RunInOrder'
  BY <1>1 DEF LoopInv, RunInOrder
<1>3. /\ pending' \in Seq(1..MaxTasks) /\ functors' \in Seq(1..MaxTasks)
      /\ pushed' \in 0..MaxTasks /\ executed' \in Seq(1..MaxTasks)
  BY SMTT(60), <1>1 DEF LoopInv, TypeOK
<1>4. ppc' \in [Producers -> {"idle", "write"}]
  BY DEF LoopInv, TypeOK, Quiet, ThreadBuild, ThreadPublish, LoopEnter, LoopTest,
     PollWakeup, HandleWakeup, NestedWrite, FunctorsDone, ThreadEnd, PollOther, OwnerStep,
     OwnerSpawn, OwnerGetsLoop, DtorQuit, DtorWrite, DtorJoin, DtorLock, QueueWrite
<1>5. /\ tpc' \in {"unborn", "built", "published", "test", "poll", "wakeup",
                   "swap", "run", "left", "dead"}
      /\ loopSet' \in BOOLEAN /\ quit' \in BOOLEAN /\ edge' \in BOOLEAN
      /\ counter' \in {0, 1} /\ nested' \in BOOLEAN
      /\ opc' \in {"start", "wait", "use", "quit", "write", "join", "done"}
  BY ZenonT(60) DEF LoopInv, TypeOK, Quiet, ThreadBuild, ThreadPublish, LoopEnter, LoopTest,
     PollWakeup, HandleWakeup, NestedWrite, FunctorsDone, ThreadEnd, PollOther, OwnerStep,
     OwnerSpawn, OwnerGetsLoop, DtorQuit, DtorWrite, DtorJoin, DtorLock, QueueWrite, Wakeup,
     MayDie
<1> QED
  BY <1>2, <1>3, <1>4, <1>5 DEF TypeOK

\* The conjuncts about control, for the same steps.
LEMMA QuietControl ==
  ASSUME LoopInv, Quiet
  PROVE  RunningOnly' /\ LoopPublished'
<1>1. RunningOnly'
  BY DEF LoopInv, TypeOK, RunningOnly, Quiet, ThreadBuild, ThreadPublish, LoopEnter,
     LoopTest, PollWakeup, HandleWakeup, NestedWrite, FunctorsDone, ThreadEnd, PollOther,
     OwnerStep, OwnerSpawn, OwnerGetsLoop, DtorQuit, DtorWrite, DtorJoin, DtorLock,
     QueueWrite, MayDie
<1>2. LoopPublished'
  BY DEF LoopInv, TypeOK, LoopPublished, OwnerLocks, Quiet, ThreadBuild, ThreadPublish,
     LoopEnter, LoopTest, PollWakeup, HandleWakeup, NestedWrite, FunctorsDone, ThreadEnd,
     PollOther, OwnerStep, OwnerSpawn, OwnerGetsLoop, DtorQuit, DtorWrite, DtorJoin,
     DtorLock, QueueWrite, MayDie, RunningOnly
<1> QED
  BY <1>1, <1>2

\* A wakeup stays due: only reporting the eventfd uses it up, and that leads to
\* the swap; a write makes it readable with a fresh edge.
LEMMA QuietWakeup ==
  ASSUME LoopInv, Quiet
  PROVE  WakeupDue'
<1>1. CASE NestedWrite \/ DtorWrite \/ \E x \in Producers : QueueWrite(x)
  <2>1. edge' /\ counter' > 0
    BY <1>1 DEF NestedWrite, DtorWrite, QueueWrite, Wakeup
  <2> QED
    BY <2>1 DEF WakeupDue
<1>2. CASE PollWakeup \/ PollOther
  BY <1>2 DEF WakeupDue, PollWakeup, PollOther
<1>3. CASE HandleWakeup \/ LoopEnter
  BY <1>3 DEF LoopInv, WakeupDue, Writing, HandleWakeup, LoopEnter
<1>4. CASE DtorQuit
  BY <1>4 DEF LoopInv, WakeupDue, Writing, DtorQuit
<1>5. CASE \/ ThreadBuild \/ ThreadPublish \/ LoopTest \/ FunctorsDone \/ ThreadEnd
           \/ OwnerSpawn \/ OwnerGetsLoop \/ DtorJoin \/ DtorLock
  <2>1. UNCHANGED <<pending, quit, edge, counter, nested, ppc>>
    BY <1>5 DEF ThreadBuild, ThreadPublish, LoopTest, FunctorsDone, ThreadEnd, OwnerSpawn,
                OwnerGetsLoop, DtorJoin, DtorLock
  <2>2. opc = "write" => opc' = "write"
    BY <1>5 DEF ThreadBuild, ThreadPublish, LoopTest, FunctorsDone, ThreadEnd, OwnerSpawn,
                OwnerGetsLoop, DtorJoin, DtorLock
  <2>3. /\ tpc' \notin {"wakeup", "swap"} => tpc \notin {"wakeup", "swap"}
        /\ tpc' = "poll" => tpc = "poll" \/ ~quit
    BY <1>5 DEF ThreadBuild, ThreadPublish, LoopTest, FunctorsDone, ThreadEnd, OwnerSpawn,
                OwnerGetsLoop, DtorJoin, DtorLock, MayDie
  <2> QED
    BY <2>1, <2>2, <2>3 DEF LoopInv, WakeupDue, Writing
<1> QED
  BY <1>1, <1>2, <1>3, <1>4, <1>5 DEF Quiet, OwnerStep

\* The swap of doPendingFunctors, whose local batch was empty.
LEMMA SwapStep ==
  ASSUME LoopInv, SwapPending
  PROVE  LoopInv'
<1>1. /\ executed \in Seq(1..MaxTasks) /\ pending \in Seq(1..MaxTasks)
      /\ functors = <<>>
  BY DEF LoopInv, TypeOK, RunningOnly, SwapPending
<1>2. executed \o pending \o <<>> = executed \o <<>> \o pending
  BY <1>1, ConcatEmptySeq, ConcatProperties
<1>3. RunInOrder'
  BY <1>1, <1>2 DEF LoopInv, RunInOrder, SwapPending
<1>4. TypeOK'
  <2>1. <<>> \in Seq(1..MaxTasks)
    OBVIOUS
  <2> QED
    BY <2>1 DEF LoopInv, TypeOK, SwapPending
<1>5. RunningOnly' /\ LoopPublished' /\ WakeupDue'
  BY DEF LoopInv, RunningOnly, LoopPublished, OwnerLocks, WakeupDue, SwapPending
<1> QED
  BY <1>3, <1>4, <1>5 DEF LoopInv

\* A functor that runs, and may post another one.
LEMMA RunStep ==
  ASSUME LoopInv, NEW posts \in BOOLEAN, RunFunctor(posts)
  PROVE  LoopInv'
<1>1. /\ executed \in Seq(1..MaxTasks) /\ functors \in Seq(1..MaxTasks)
      /\ pending \in Seq(1..MaxTasks) /\ pushed \in Nat /\ functors # <<>>
  BY MaxTasksAssumption DEF LoopInv, TypeOK, RunFunctor
<1>2. /\ executed' \in Seq(1..MaxTasks) /\ functors' \in Seq(1..MaxTasks)
      /\ executed' \o functors' = executed \o functors
  <2>1. Head(functors) \in 1..MaxTasks /\ Tail(functors) \in Seq(1..MaxTasks)
    BY Zenon, <1>1, HeadTailProperties
  <2>2. Append(executed, Head(functors)) \o Tail(functors) = executed \o functors
    BY SMTT(60), <1>1, HeadMoves
  <2>3. Append(executed, Head(functors)) \in Seq(1..MaxTasks)
    BY <1>1, <2>1, AppendProperties
  <2>4. executed' = Append(executed, Head(functors)) /\ functors' = Tail(functors)
    BY DEF RunFunctor
  <2> QED
    BY SMTT(60), <2>1, <2>2, <2>3, <2>4
<1>3. /\ pending' \in Seq(1..MaxTasks) /\ pushed' \in 0..MaxTasks
      /\ RunInOrder'
  <2>1. CASE posts
    <3>1. pushed + 1 \in 1..MaxTasks /\ pushed' = pushed + 1
          /\ pending' = Append(pending, pushed + 1)
      BY SMTT(60), <1>1, <2>1, MaxTasksAssumption DEF RunFunctor
    <3>2. executed \o functors \o Append(pending, pushed + 1)
            = Append(executed \o functors \o pending, pushed + 1)
      BY SMTT(60), <1>1, <3>1, PushAppends
    <3>3. Append([n \in 1..pushed |-> n], pushed + 1) = [n \in 1..(pushed + 1) |-> n]
      BY SMTT(60), <1>1, HistoryGrows
    <3>4. RunInOrder'
      BY Zenon, <1>2, <3>1, <3>2, <3>3 DEF LoopInv, RunInOrder
    <3>5. Append(pending, pushed + 1) \in Seq(1..MaxTasks)
      BY <1>1, <3>1, AppendProperties
    <3> QED
      BY <3>1, <3>4, <3>5
  <2>2. CASE ~posts
    <3>1. pending' = pending /\ pushed' = pushed
      BY <2>2 DEF RunFunctor
    <3> QED
      BY <1>1, <1>2, <3>1 DEF LoopInv, TypeOK, RunInOrder
  <2> QED
    BY <2>1, <2>2
<1>4. UNCHANGED <<tpc, loopSet, quit, counter, edge, ppc, opc>> /\ tpc = "run"
      /\ nested' = posts /\ ~nested /\ (~posts => pending' = pending)
  BY DEF RunFunctor
<1>5. TypeOK'
  BY <1>2, <1>3, <1>4 DEF LoopInv, TypeOK
<1>6. RunningOnly' /\ LoopPublished' /\ WakeupDue'
  BY <1>4 DEF LoopInv, RunningOnly, LoopPublished, OwnerLocks, WakeupDue, Writing
<1> QED
  BY <1>3, <1>5, <1>6 DEF LoopInv

\* A post from another thread.
LEMMA PushStep ==
  ASSUME LoopInv, NEW x \in Producers, QueuePush(x)
  PROVE  LoopInv'
<1>1. /\ executed \in Seq(1..MaxTasks) /\ functors \in Seq(1..MaxTasks)
      /\ pending \in Seq(1..MaxTasks) /\ pushed \in Nat /\ pushed + 1 \in 1..MaxTasks
  BY MaxTasksAssumption DEF LoopInv, TypeOK, QueuePush
<1>2. /\ pending' = Append(pending, pushed + 1) /\ pushed' = pushed + 1
      /\ ppc' = [ppc EXCEPT ![x] = "write"]
      /\ UNCHANGED <<tpc, loopSet, quit, counter, edge, functors, nested, opc, executed>>
  BY DEF QueuePush
<1>3. RunInOrder'
  <2>1. executed \o functors \o Append(pending, pushed + 1)
          = Append(executed \o functors \o pending, pushed + 1)
    BY SMTT(60), <1>1, PushAppends
  <2>2. Append([n \in 1..pushed |-> n], pushed + 1) = [n \in 1..(pushed + 1) |-> n]
    BY <1>1, HistoryGrows
  <2> QED
    BY Zenon, <1>2, <2>1, <2>2 DEF LoopInv, RunInOrder
<1>4. TypeOK'
  <2>1. Append(pending, pushed + 1) \in Seq(1..MaxTasks)
    BY <1>1, AppendProperties
  <2>2. pushed + 1 \in 0..MaxTasks
    BY <1>1
  <2> QED
    BY <1>2, <2>1, <2>2 DEF LoopInv, TypeOK
<1>5. Writing'
  <2>1. ppc'[x] = "write"
    BY <1>2 DEF LoopInv, TypeOK
  <2> QED
    BY <2>1 DEF Writing
<1>6. RunningOnly' /\ LoopPublished' /\ WakeupDue'
  BY <1>2, <1>5 DEF LoopInv, RunningOnly, LoopPublished, OwnerLocks, WakeupDue
<1> QED
  BY <1>3, <1>4, <1>6 DEF LoopInv

-----------------------------------------------------------------------------

\* The invariant holds in every reachable state of the loop.
THEOREM LoopInvHolds == Spec => []LoopInv
<1>1. Init => LoopInv
  <2> SUFFICES ASSUME Init PROVE LoopInv
    OBVIOUS
  <2>1. RunningOnly /\ LoopPublished /\ WakeupDue
    BY DEF Init, RunningOnly, LoopPublished, OwnerLocks, WakeupDue
  <2>2. <<>> \o <<>> \o <<>> = [n \in 1..0 |-> n]
    OBVIOUS
  <2>3. RunInOrder
    BY <2>2 DEF Init, RunInOrder
  <2>4. TypeOK
    <3>1. 0 \in 0..MaxTasks /\ <<>> \in Seq(1..MaxTasks)
      BY MaxTasksAssumption
    <3> QED
      BY Zenon, <3>1 DEF Init, TypeOK
  <2> QED
    BY <2>1, <2>3, <2>4 DEF LoopInv
<1>2. LoopInv /\ [Next]_vars => LoopInv'
  <2> SUFFICES ASSUME LoopInv, [Next]_vars PROVE LoopInv'
    BY SMTT(60)
  <2>1. CASE UNCHANGED vars
    BY <2>1 DEF vars, LoopInv, TypeOK, RunInOrder, RunningOnly, LoopPublished, OwnerLocks,
                WakeupDue, Writing
  <2>2. CASE Quiet
    BY <2>2, QuietTypes, QuietControl, QuietWakeup DEF LoopInv
  <2>3. CASE Next
    BY <2>2, <2>3, SwapStep, RunStep, PushStep DEF Next, ThreadStep, Quiet
  <2> QED
    BY <2>1, <2>3
<1> QED
  BY <1>1, <1>2, PTL DEF Spec

\* Functors run in the order in which they were pushed, each exactly once.
THEOREM RunInOrderHolds == Spec => []RunInOrder
<1>1. LoopInv => RunInOrder
  BY DEF LoopInv
<1> QED
  BY <1>1, LoopInvHolds, PTL

\* No functor and no quit waits for the poll timeout.
THEOREM NoLostWakeupHolds == Spec => []NoLostWakeup
<1>1. LoopInv => NoLostWakeup
  BY DEF LoopInv, RunningOnly, WakeupDue, Writing, NoLostWakeup
<1> QED
  BY <1>1, LoopInvHolds, PTL

\* quit() is only called on a loop that has not been destroyed.
THEOREM QuitTouchesLiveLoopHolds == Spec => []QuitTouchesLiveLoop
<1>1. LoopInv => QuitTouchesLiveLoop
  BY DEF LoopInv, LoopPublished, QuitTouchesLiveLoop
<1> QED
  BY <1>1, LoopInvHolds, PTL

-----------------------------------------------------------------------------
(* The timing wheel (src/src/timer/TimerWheel.cc).                         *)

\* The values the variables range over.
WheelType ==
  /\ nowTick \in Nat /\ nextId \in Nat \ {0}
  /\ mode \in {"idle", "step", "cascade", "firing", "callback"}
  /\ l0 \in [Slots -> Seq(Ids)] /\ l1 \in [Slots -> Seq(Ids)]
  /\ cascade \in Seq(Ids) /\ toFire \in Seq(Ids)
  /\ expiry \in [Ids -> Nat] /\ delay \in [Ids -> Nat]

\* The ids that were given out; such a timer is alive unless it fired or was
\* cancelled.
Given == {n \in Ids : n < nextId}
AliveOK ==
  /\ alive = Given \ (fired \cup canceled)
  /\ fired \subseteq Given /\ canceled \subseteq Given

\* How far ahead a timer is placed that is asked for t ticks ahead.
Reach(t) == IF t < kSlots * kSlots THEN t ELSE kSlots * kSlots - 1

\* When a timer will fire, as its delay and the order of adding have it.
DueOK ==
  /\ \A n \in Given : /\ delay[n] \in Delays
                      /\ expiry[n] <= nowTick + Reach(Ticks(delay[n]))
  /\ \A m, n \in Given : m < n /\ delay[m] = delay[n] => expiry[m] <= expiry[n]

\* The delay d takes a timer to L1 when it is added.
Far(d) == Reach(Ticks(d)) >= kSlots

\* The first tick that is still to be fired.
First == IF mode = "cascade" THEN nowTick ELSE nowTick + 1

\* The timers that may lie in slot s of L0: due within a lap, and not put there
\* past the cascade if they began on L1.
Home0(s) ==
  {n \in Given \ fired :
     /\ First <= expiry[n] /\ expiry[n] < nowTick + kSlots /\ L0Slot(expiry[n]) = s
     /\ Far(delay[n]) => expiry[n] \div kSlots <= nowTick \div kSlots}

\* Those that may lie in slot s of L1: due in a later lap of L0, the current slot
\* being that of the last of them.
Home1(s) ==
  {n \in Given \ fired :
     /\ nowTick \div kSlots < expiry[n] \div kSlots
     /\ expiry[n] \div kSlots <= nowTick \div kSlots + kSlots
     /\ L1Slot(expiry[n]) = s /\ Far(delay[n])}

\* Those the cascade may bring down, and those that may be about to fire.
Falling ==
  {n \in Given \ fired : /\ expiry[n] \div kSlots = nowTick \div kSlots
                         /\ nowTick <= expiry[n] /\ expiry[n] < nowTick + kSlots}
DueNow == {n \in Given \ fired : expiry[n] = nowTick}

AllHome ==
  /\ \A s \in Slots : l0[s] \in Seq(Home0(s)) /\ l1[s] \in Seq(Home1(s))
  /\ cascade \in Seq(Falling) /\ (mode # "cascade" => cascade = <<>>)
  /\ toFire \in Seq(DueNow) /\ (mode \notin {"firing", "callback"} => toFire = <<>>)

\* Every timer that is alive lies somewhere.
Somewhere(n) ==
  \/ Occurs(toFire, n) \/ Occurs(cascade, n)
  \/ \E s \in Slots : Occurs(l0[s], n) \/ Occurs(l1[s], n)
AllSomewhere == \A n \in alive : Somewhere(n)

\* Timers with the same delay d that are due at the same tick t lie in the order
\* in which they were added (so none lies there twice), also across p and q.
Twins(m, n, d, t) == d[m] = d[n] /\ t[m] = t[n]
Sorted(q, d, t) == \A i, j \in DOMAIN q : i < j /\ Twins(q[i], q[j], d, t) => q[i] < q[j]
Across(p, q, d, t) ==
  \A i \in DOMAIN p, j \in DOMAIN q : Twins(p[i], q[j], d, t) => p[i] < q[j]

AllSorted ==
  /\ Sorted(cascade, delay, expiry) /\ Sorted(toFire, delay, expiry)
  /\ \A s \in Slots : /\ Sorted(l0[s], delay, expiry) /\ Sorted(l1[s], delay, expiry)
                      /\ Across(l0[s], cascade, delay, expiry)

\* The inductive invariant.
WheelInv ==
  /\ WheelType /\ AliveOK /\ DueOK /\ AllHome /\ AllSomewhere /\ AllSorted
  /\ EqualDelaysInOrder

-----------------------------------------------------------------------------
(* Laps and slots.                                                         *)

\* Quotient and remainder.
LEMMA DivMod ==
  ASSUME NEW a \in Nat
  PROVE  /\ a \div kSlots \in Nat /\ a % kSlots \in Slots
         /\ a = kSlots * (a \div kSlots) + (a % kSlots)
  BY SMTT(60), SlotsAssumption DEF Slots

\* A product with a larger factor is larger by one lap at least.
LEMMA OneLap ==
  ASSUME NEW a \in Nat, NEW b \in Nat, a < b
  PROVE  kSlots * a + kSlots <= kSlots * b
<1>1. PICK c \in Nat : b = a + 1 + c
  BY SMTT(60)
<1>2. kSlots * b = kSlots * a + kSlots + kSlots * c /\ kSlots * c \in Nat
  BY SMTT(60), <1>1, SlotsAssumption
<1>3. kSlots * a \in Nat /\ kSlots \in Nat
  BY SMTT(60), SlotsAssumption
<1> QED
  BY SMTT(60), <1>2, <1>3

\* Ticks less than a lap apart with the same slot are the same.
LEMMA SameSlot ==
  ASSUME NEW a \in Nat, NEW b \in Nat, b <= a, a < b + kSlots, a % kSlots = b % kSlots
  PROVE  a = b
<1> DEFINE x == a \div kSlots
           y == b \div kSlots
           r == b % kSlots
<1>1. /\ x \in Nat /\ y \in Nat /\ r \in Nat
      /\ a = kSlots * x + r /\ b = kSlots * y + r
  BY SMTT(60), DivMod DEF Slots
<1> HIDE DEF x, y, r
<1>2. kSlots \in Nat /\ kSlots * x \in Nat /\ kSlots * y \in Nat
  BY SMTT(60), <1>1, SlotsAssumption
<1>3. ~(y < x)
  BY SMTT(60), <1>1, <1>2, OneLap
<1>4. ~(x < y)
  BY SMTT(60), <1>1, <1>2, OneLap, SlotsAssumption
<1> QED
  BY SMTT(60), <1>1, <1>3, <1>4

\* The lap of a tick.
LEMMA LapOf ==
  ASSUME NEW a \in Nat, NEW q \in Nat, kSlots * q <= a, a < kSlots * q + kSlots
  PROVE  a \div kSlots = q
<1> DEFINE x == a \div kSlots
           r == a % kSlots
<1>1. x \in Nat /\ r \in Nat /\ r < kSlots /\ a = kSlots * x + r
  BY SMTT(60), DivMod, SlotsAssumption DEF Slots
<1> HIDE DEF x, r
<1>2. kSlots \in Nat /\ kSlots * x \in Nat /\ kSlots * q \in Nat
  BY SMTT(60), <1>1, SlotsAssumption
<1>3. ~(q < x)
  BY SMTT(60), <1>1, <1>2, OneLap
<1>4. ~(x < q)
  BY SMTT(60), <1>1, <1>2, OneLap
<1>5. x = q
  BY SMTT(60), <1>1, <1>3, <1>4
<1> QED
  BY <1>5 DEF x

\* A tick ends a lap or not.
LEMMA NextLap ==
  ASSUME NEW a \in Nat
  PROVE  (a + 1) \div kSlots = IF (a + 1) % kSlots = 0 THEN a \div kSlots + 1 ELSE a \div kSlots
<1> DEFINE x == (a + 1) \div kSlots
           r == (a + 1) % kSlots
<1>1. x \in Nat /\ r \in Nat /\ r < kSlots /\ a + 1 = kSlots * x + r
  BY SMTT(60), DivMod, SlotsAssumption DEF Slots
<1> HIDE DEF x, r
<1>2. kSlots \in Nat /\ kSlots >= 1 /\ kSlots * x \in Nat
  BY SMTT(60), <1>1, SlotsAssumption
<1>3. CASE r = 0
  <2>1. x # 0
    BY SMTT(60), <1>1, <1>3, SlotsAssumption
  <2>2. x - 1 \in Nat /\ kSlots * x = kSlots * (x - 1) + kSlots /\ kSlots * (x - 1) \in Nat
    BY SMTT(60), <1>1, <2>1, SlotsAssumption
  <2>3. a \div kSlots = x - 1
    BY SMTT(60), <1>1, <1>2, <1>3, <2>2, LapOf
  <2> QED
    BY SMTT(60), <1>1, <1>3, <2>3 DEF x, r
<1>4. CASE r # 0
  <2>1. a \div kSlots = x
    BY SMTT(60), <1>1, <1>2, <1>4, LapOf
  <2> QED
    BY SMTT(60), <1>4, <2>1 DEF x, r
<1> QED
  BY <1>3, <1>4

\* Of ticks in the same lap none is before its first or a lap behind it.
LEMMA FirstOfLap ==
  ASSUME NEW a \in Nat, NEW t \in Nat, t % kSlots = 0, a \div kSlots = t \div kSlots
  PROVE  t <= a /\ a < t + kSlots
<1> DEFINE x == t \div kSlots
           r == a % kSlots
<1>1. x \in Nat /\ r \in Nat /\ r < kSlots /\ a = kSlots * x + r /\ t = kSlots * x
  BY SMTT(60), DivMod, SlotsAssumption DEF Slots
<1> HIDE DEF x, r
<1>2. kSlots \in Nat /\ kSlots * x \in Nat
  BY SMTT(60), <1>1, SlotsAssumption
<1> QED
  BY SMTT(60), <1>1, <1>2

\* A later lap is later.
LEMMA LaterLap ==
  ASSUME NEW a \in Nat, NEW b \in Nat, a \div kSlots < b \div kSlots
  PROVE  a < b
<1> DEFINE x == a \div kSlots
           y == b \div kSlots
           r == a % kSlots
           u == b % kSlots
<1>1. /\ x \in Nat /\ y \in Nat /\ r \in Nat /\ u \in Nat /\ r < kSlots
      /\ a = kSlots * x + r /\ b = kSlots * y + u
  BY SMTT(60), DivMod, SlotsAssumption DEF Slots
<1>0. x < y
  OBVIOUS
<1> HIDE DEF x, y, r, u
<1>2. kSlots \in Nat /\ kSlots * x \in Nat /\ kSlots * y \in Nat
  BY SMTT(60), <1>1, SlotsAssumption
<1>3. kSlots * x + kSlots <= kSlots * y
  BY <1>0, <1>1, OneLap
<1> QED
  BY SMTT(60), <1>1, <1>2, <1>3

\* What is placed on L1 is due in a later lap, at most as many laps ahead as there
\* are slots.
LEMMA FarLap ==
  ASSUME NEW a \in Nat, NEW d \in Nat, kSlots <= d, d < kSlots * kSlots
  PROVE  /\ a \div kSlots < (a + d) \div kSlots
         /\ (a + d) \div kSlots <= a \div kSlots + kSlots
<1> DEFINE x == a \div kSlots
           y == (a + d) \div kSlots
           r == a % kSlots
           u == (a + d) % kSlots
<1>1. /\ x \in Nat /\ y \in Nat /\ r \in Nat /\ u \in Nat /\ r < kSlots /\ u < kSlots
      /\ a = kSlots * x + r /\ a + d = kSlots * y + u
  BY SMTT(60), DivMod, SlotsAssumption DEF Slots
<1> HIDE DEF x, y, r, u
<1>2. kSlots \in Nat /\ kSlots * x \in Nat /\ kSlots * y \in Nat /\ kSlots * kSlots \in Nat
  BY SMTT(60), <1>1, SlotsAssumption
<1>3. x < y
  <2> SUFFICES ASSUME y <= x PROVE FALSE
    BY SMTT(60), <1>1
  <2>1. kSlots * y <= kSlots * x
    BY SMTT(60), <1>1, <1>2, OneLap
  <2> QED
    BY SMTT(60), <1>1, <1>2, <2>1
<1>4. y <= x + kSlots
  <2> SUFFICES ASSUME x + kSlots < y PROVE FALSE
    BY SMTT(60), <1>1, <1>2
  <2>1. x + kSlots \in Nat /\ kSlots * (x + kSlots) = kSlots * x + kSlots * kSlots
    BY SMTT(60), <1>1, SlotsAssumption
  <2>2. kSlots * (x + kSlots) + kSlots <= kSlots * y
    BY SMTT(60), <1>1, <2>1, OneLap
  <2> QED
    BY SMTT(60), <1>1, <1>2, <2>1, <2>2
<1> QED
  BY <1>3, <1>4 DEF x, y

\* A delay in ticks is positive and stays so within the range of L1; on which level
\* a timer begins is a matter of the delay.
LEMMA TicksFacts ==
  ASSUME NEW ms \in Nat
  PROVE  /\ Ticks(ms) \in Nat \ {0} /\ Reach(Ticks(ms)) \in Nat \ {0}
         /\ Reach(Ticks(ms)) < kSlots * kSlots
         /\ Ticks(ms) < kSlots => Reach(Ticks(ms)) = Ticks(ms)
         /\ Ticks(ms) >= kSlots => Reach(Ticks(ms)) >= kSlots
<1>1. Ticks(ms) \in Nat \ {0}
  BY SMTT(60), TickAssumption DEF Ticks
<1>2. kSlots * kSlots \in Nat /\ kSlots < kSlots * kSlots
  <2>1. kSlots * 1 + kSlots <= kSlots * kSlots
    BY SMTT(60), OneLap, SlotsAssumption
  <2> QED
    BY SMTT(60), <2>1, SlotsAssumption
<1> QED
  BY SMTT(60), <1>1, <1>2, SlotsAssumption DEF Reach

-----------------------------------------------------------------------------
(* Slots as sequences.                                                     *)

\* What a slot holds is of its kind.
LEMMA SeqFacts ==
  ASSUME NEW S, NEW q \in Seq(S)
  PROVE  /\ \A i \in DOMAIN q : q[i] \in S
         /\ \A x : Occurs(q, x) => x \in S
         /\ \A T : S \subseteq T => q \in Seq(T)
         /\ \A x : ~Occurs(q, x) => q \in Seq(S \ {x})
<1>1. \A i \in DOMAIN q : q[i] \in S
  BY SMTT(60)
<1>2. ASSUME NEW T, \A i \in DOMAIN q : q[i] \in T
      PROVE  q \in Seq(T)
  <2>1. Len(q) \in Nat /\ q \in [1..Len(q) -> S] /\ DOMAIN q = 1..Len(q)
    BY SMTT(60)
  <2>2. q \in [1..Len(q) -> T]
    BY ZenonT(60), <1>2, <2>1
  <2> QED
    BY SMTT(60), <2>1, <2>2
<1>3. ASSUME NEW x, ~Occurs(q, x)
      PROVE  q \in Seq(S \ {x})
  <2>1. \A i \in DOMAIN q : q[i] \in S \ {x}
    BY ZenonT(60), <1>1, <1>3 DEF Occurs
  <2> QED
    BY ZenonT(60), <1>2, <2>1
<1> QED
  BY ZenonT(60), <1>1, <1>2, <1>3 DEF Occurs

\* The empty slot is of every kind and in order.
LEMMA EmptySlot ==
  ASSUME NEW d, NEW t
  PROVE  /\ \A S : <<>> \in Seq(S)
         /\ \A x : ~Occurs(<<>>, x)
         /\ Sorted(<<>>, d, t)
         /\ \A q : Across(q, <<>>, d, t) /\ Across(<<>>, q, d, t)
<1>1. \A S : <<>> \in Seq(S)
  BY SMTT(60)
<1>2. DOMAIN <<>> = {}
  BY SMTT(60)
<1> QED
  BY ZenonT(60), <1>1, <1>2 DEF Occurs, Sorted, Across

\* The order depends on the delays and times of what lies there.
LEMMA SortedSame ==
  ASSUME NEW S, NEW q \in Seq(S), NEW d, NEW t, NEW e, NEW u,
         \A m \in S : d[m] = e[m] /\ t[m] = u[m],
         Sorted(q, d, t)
  PROVE  Sorted(q, e, u)
<1>1. \A i \in DOMAIN q : d[q[i]] = e[q[i]] /\ t[q[i]] = u[q[i]]
  BY ZenonT(60), SeqFacts
<1> QED
  BY ZenonT(60), <1>1 DEF Sorted, Twins

\* A timer may be put at the end that was added after its twins.
LEMMA SortedAppend ==
  ASSUME NEW S, NEW q \in Seq(S), NEW n \in S, NEW d, NEW t, Sorted(q, d, t),
         \A i \in DOMAIN q : Twins(q[i], n, d, t) => q[i] < n
  PROVE  Sorted(Append(q, n), d, t)
<1> DEFINE a == Append(q, n)
           k == Len(q) + 1
<1>1. /\ a[k] = n
      /\ \A i \in DOMAIN q : a[i] = q[i] /\ ~(k < i)
      /\ \A i \in DOMAIN a : i \in DOMAIN q \/ i = k
      /\ ~(k < k)
  <2>1. ~(k < k)
    BY SMTT(60)
  <2> QED
    BY ZenonT(60), <2>1, AppendAt
<1> HIDE DEF a, k
<1>2. Sorted(a, d, t)
  BY ZenonT(60), <1>1 DEF Sorted
<1> QED
  BY ZenonT(60), <1>2 DEF a

\* The rest of a slot is in order, and its twins of the first were added later.
LEMMA SortedTail ==
  ASSUME NEW S, NEW q \in Seq(S), q # <<>>, NEW d, NEW t, Sorted(q, d, t)
  PROVE  /\ Sorted(Tail(q), d, t)
         /\ \A i \in DOMAIN Tail(q) : Twins(Head(q), Tail(q)[i], d, t) => Head(q) < Tail(q)[i]
<1> DEFINE a == Tail(q)
<1>1. /\ 1 \in DOMAIN q /\ q[1] = Head(q)
      /\ \A i \in DOMAIN a : i + 1 \in DOMAIN q /\ a[i] = q[i + 1] /\ 1 < i + 1
      /\ \A i, k \in DOMAIN a : i < k <=> i + 1 < k + 1
  BY ZenonT(60), TailAt
<1> HIDE DEF a
<1>2. Sorted(a, d, t)
  BY ZenonT(60), <1>1 DEF Sorted
<1>3. ASSUME NEW i \in DOMAIN a, Twins(Head(q), a[i], d, t)
      PROVE  Head(q) < a[i]
  <2>1. 1 \in DOMAIN q /\ i + 1 \in DOMAIN q /\ 1 < i + 1 /\ Twins(q[1], q[i + 1], d, t)
    BY ZenonT(60), <1>1, <1>3
  <2>2. q[1] < q[i + 1]
    BY ZenonT(60), <2>1 DEF Sorted
  <2> QED
    BY ZenonT(60), <1>1, <2>2
<1> QED
  BY ZenonT(60), <1>2, <1>3 DEF a

\* Moving the first of q to the end of p keeps them in order.
LEMMA AcrossMoves ==
  ASSUME NEW S, NEW p \in Seq(S), NEW q \in Seq(S), q # <<>>, NEW d, NEW t,
         Sorted(q, d, t), Across(p, q, d, t)
  PROVE  /\ Across(p, Tail(q), d, t) /\ Across(Append(p, Head(q)), Tail(q), d, t)
         /\ \A i \in DOMAIN p : Twins(p[i], Head(q), d, t) => p[i] < Head(q)
<1>0. PICK h \in S : h = Head(q)
  BY ZenonT(60), TailAt
<1> DEFINE a == Tail(q)
           b == Append(p, h)
           k == Len(p) + 1
<1>1. /\ 1 \in DOMAIN q /\ q[1] = h
      /\ \A i \in DOMAIN a : i + 1 \in DOMAIN q /\ a[i] = q[i + 1]
  BY ZenonT(60), <1>0, TailAt
<1>2. /\ b[k] = h
      /\ \A i \in DOMAIN p : b[i] = p[i]
      /\ \A i \in DOMAIN b : i \in DOMAIN p \/ i = k
  BY ZenonT(60), AppendAt
<1>3. \A i \in DOMAIN a : Twins(h, a[i], d, t) => h < a[i]
  BY ZenonT(60), <1>0, SortedTail
<1> HIDE DEF a, b, k
<1>4. Across(p, a, d, t)
  BY ZenonT(60), <1>1 DEF Across
<1>5. Across(b, a, d, t)
  BY ZenonT(60), <1>2, <1>3, <1>4 DEF Across
<1>6. \A i \in DOMAIN p : Twins(p[i], h, d, t) => p[i] < h
  BY ZenonT(60), <1>1 DEF Across
<1> QED
  BY ZenonT(60), <1>0, <1>4, <1>5, <1>6 DEF a, b

-----------------------------------------------------------------------------
(* The invariant holds initially and every step keeps it.                  *)

LEMMA WheelInvInit == WheelInit => WheelInv
<1> SUFFICES ASSUME WheelInit PROVE WheelInv
  OBVIOUS
<1>0. /\ nowTick = 0 /\ mode = "idle" /\ cascade = <<>> /\ toFire = <<>> /\ nextId = 1
      /\ l0 = [s \in Slots |-> <<>>] /\ l1 = [s \in Slots |-> <<>>]
      /\ expiry = [n \in Ids |-> 0] /\ delay = [n \in Ids |-> 0]
      /\ alive = {} /\ canceled = {} /\ fired = {}
  BY ZenonT(60) DEF WheelInit
<1>1. Given = {}
  BY SMTT(60), <1>0, BoundsAssumption DEF Given, Ids
<1>2. \A s \in Slots : l0[s] = <<>> /\ l1[s] = <<>>
  BY ZenonT(60), <1>0
<1>3. /\ \A S : <<>> \in Seq(S)
      /\ Sorted(<<>>, delay, expiry) /\ Across(<<>>, <<>>, delay, expiry)
  BY ZenonT(60), EmptySlot
<1>4. WheelType
  BY SMTT(60), <1>0, <1>3 DEF WheelType
<1>5. AliveOK /\ DueOK
  BY ZenonT(60), <1>0, <1>1 DEF AliveOK, DueOK
<1>6. AllHome
  BY ZenonT(60), <1>0, <1>2, <1>3 DEF AllHome
<1>7. AllSomewhere /\ EqualDelaysInOrder
  BY ZenonT(60), <1>0 DEF AllSomewhere, EqualDelaysInOrder
<1>8. AllSorted
  BY ZenonT(60), <1>0, <1>2, <1>3 DEF AllSorted
<1> QED
  BY ZenonT(60), <1>4, <1>5, <1>6, <1>7, <1>8 DEF WheelInv

\* While the clock stands still and none fires, timers stay at home.
LEMMA HomesGrow ==
  ASSUME nowTick' = nowTick, First' = First, fired' = fired, Given \subseteq Given',
         \A m \in Given : expiry'[m] = expiry[m] /\ delay'[m] = delay[m]
  PROVE  /\ \A s \in Slots : Home0(s) \subseteq Home0(s)' /\ Home1(s) \subseteq Home1(s)'
         /\ Falling \subseteq Falling' /\ DueNow \subseteq DueNow'
<1>1. ASSUME NEW s \in Slots PROVE Home0(s) \subseteq Home0(s)'
  BY ZenonT(60) DEF Home0
<1>2. ASSUME NEW s \in Slots PROVE Home1(s) \subseteq Home1(s)'
  BY ZenonT(60) DEF Home1
<1>3. Falling \subseteq Falling' /\ DueNow \subseteq DueNow'
  BY ZenonT(60) DEF Falling, DueNow
<1> QED
  BY ZenonT(60), <1>1, <1>2, <1>3

\* A step that moves no timer: cancel(), the beginning of advance(), the end of a
\* tick.
LEMMA QuietStep ==
  ASSUME WheelInv,
         UNCHANGED <<nowTick, l0, l1, cascade, toFire, expiry, nextId, delay, fired>>,
         mode' \in {"idle", "step", "callback"}, mode # "cascade",
         mode' # "callback" => toFire = <<>>,
         alive' = Given \ (fired \cup canceled'), canceled \subseteq canceled',
         canceled' \subseteq Given
  PROVE  WheelInv'
<1>0. /\ nowTick' = nowTick /\ l0' = l0 /\ l1' = l1 /\ cascade' = cascade /\ toFire' = toFire
      /\ expiry' = expiry /\ nextId' = nextId /\ delay' = delay
      /\ fired' = fired
  BY ZenonT(60)
<1>1. Given' = Given /\ First' = First /\ mode' # "cascade"
  BY ZenonT(60), <1>0 DEF Given, First
<1>2. WheelType'
  BY ZenonT(60), <1>0 DEF WheelInv, WheelType
<1>3. AliveOK'
  BY ZenonT(60), <1>0, <1>1 DEF WheelInv, AliveOK
<1>4. DueOK'
  BY ZenonT(60), <1>0, <1>1 DEF WheelInv, DueOK
<1>5. AllHome'
  <2>1. /\ \A s \in Slots : Home0(s)' = Home0(s) /\ Home1(s)' = Home1(s)
        /\ Falling' = Falling /\ DueNow' = DueNow
    BY ZenonT(60), <1>0, <1>1 DEF Home0, Home1, Falling, DueNow
  <2>2. AllHome
    BY DEF WheelInv
  <2>3. \A s \in Slots : l0'[s] \in Seq(Home0(s)') /\ l1'[s] \in Seq(Home1(s)')
    BY ZenonT(60), <1>0, <2>1, <2>2 DEF AllHome
  <2>4. cascade' \in Seq(Falling') /\ toFire' \in Seq(DueNow')
    BY ZenonT(60), <1>0, <2>1, <2>2 DEF AllHome
  <2>5. cascade' = <<>> /\ (mode' \notin {"firing", "callback"} => toFire' = <<>>)
    BY ZenonT(60), <1>0, <2>2 DEF AllHome
  <2> QED
    BY ZenonT(60), <2>3, <2>4, <2>5 DEF AllHome
<1>6. AllSomewhere'
  <2>1. alive' \subseteq alive
    BY ZenonT(60) DEF WheelInv, AliveOK
  <2> QED
    BY ZenonT(60), <1>0, <2>1 DEF WheelInv, AllSomewhere, Somewhere
<1>7. AllSorted'
  BY ZenonT(60), <1>0 DEF WheelInv, AllSorted
<1>8. EqualDelaysInOrder'
  BY ZenonT(60), <1>0 DEF WheelInv, EqualDelaysInOrder
<1> QED
  BY ZenonT(60), <1>2, <1>3, <1>4, <1>5, <1>6, <1>7, <1>8 DEF WheelInv

LEMMA CancelStep ==
  ASSUME WheelInv, NEW n \in Ids, Cancel(n)
  PROVE  WheelInv'
<1>1. /\ UNCHANGED <<nowTick, l0, l1, cascade, toFire, expiry, nextId, delay, fired>>
      /\ mode' = mode /\ mode \in {"idle", "callback"}
      /\ n \in alive /\ canceled' = canceled \cup {n} /\ alive' = alive \ {n}
  BY ZenonT(60) DEF Cancel, InCaller
<1>2. mode # "cascade" /\ mode' \in {"idle", "step", "callback"}
  BY ZenonT(60), <1>1
<1>3. mode' # "callback" => toFire = <<>>
  BY ZenonT(60), <1>1 DEF WheelInv, AllHome
<1>4. /\ alive' = Given \ (fired \cup canceled') /\ canceled \subseteq canceled'
      /\ canceled' \subseteq Given
  BY ZenonT(60), <1>1 DEF WheelInv, AliveOK
<1> QED
  BY ZenonT(60), <1>1, <1>2, <1>3, <1>4, QuietStep

LEMMA AdvanceBeginStep ==
  ASSUME WheelInv, NEW ms \in Elapsed, AdvanceBegin(ms)
  PROVE  WheelInv'
<1>1. /\ UNCHANGED <<nowTick, l0, l1, cascade, toFire, expiry, nextId, delay, fired>>
      /\ mode' \in {"idle", "step", "callback"} /\ mode = "idle"
      /\ canceled' = canceled /\ alive' = alive
  BY ZenonT(60) DEF AdvanceBegin
<1>2. mode # "cascade" /\ toFire = <<>>
  BY ZenonT(60), <1>1 DEF WheelInv, AllHome
<1>4. /\ alive' = Given \ (fired \cup canceled') /\ canceled \subseteq canceled'
      /\ canceled' \subseteq Given
  BY ZenonT(60), <1>1 DEF WheelInv, AliveOK
<1> QED
  BY ZenonT(60), <1>1, <1>2, <1>4, QuietStep

LEMMA TickEndStep ==
  ASSUME WheelInv, TickEnd
  PROVE  WheelInv'
<1>1. /\ UNCHANGED <<nowTick, l0, l1, cascade, toFire, expiry, nextId, delay, fired>>
      /\ mode' \in {"idle", "step", "callback"} /\ mode \in {"firing", "callback"}
      /\ canceled' = canceled /\ alive' = alive /\ toFire = <<>>
  BY ZenonT(60) DEF TickEnd
<1>2. mode # "cascade"
  BY ZenonT(60), <1>1
<1>4. /\ alive' = Given \ (fired \cup canceled') /\ canceled \subseteq canceled'
      /\ canceled' \subseteq Given
  BY ZenonT(60), <1>1 DEF WheelInv, AliveOK
<1> QED
  BY ZenonT(60), <1>1, <1>2, <1>4, QuietStep

\* The clock moves: timers stay at home, but for those of the L1 slot whose lap
\* begins.
LEMMA TickHomes ==
  ASSUME WheelInv, mode = "step", mode' = "cascade", nowTick' = nowTick + 1,
         UNCHANGED <<nextId, expiry, delay, fired>>
  PROVE  /\ \A s \in Slots : Home0(s) \subseteq Home0(s)'
         /\ \A s \in Slots :
              IF nowTick' % kSlots = 0 /\ s = (nowTick' \div kSlots) % kSlots
                THEN Home1(s) \subseteq Falling' ELSE Home1(s) \subseteq Home1(s)'
<1> DEFINE t == nowTick + 1
           a == nowTick \div kSlots
           b == t \div kSlots
<1>0. /\ Given' = Given /\ expiry' = expiry /\ delay' = delay /\ fired' = fired
      /\ First = t /\ First' = t /\ nowTick' = t
  BY ZenonT(60) DEF Given, First
<1>1. nowTick \in Nat /\ t \in Nat /\ kSlots \in Nat /\ a \in Nat /\ b \in Nat
  <2>1. nowTick \in Nat /\ kSlots \in Nat
    BY SlotsAssumption DEF WheelInv, WheelType
  <2>2. t \in Nat
    BY SMTT(60), <2>1
  <2> QED
    BY ZenonT(60), <2>1, <2>2, DivMod
<1>2. b = IF t % kSlots = 0 THEN a + 1 ELSE a
  BY ZenonT(60), <1>1, NextLap
<1>3. \A n \in Given : expiry[n] \in Nat /\ expiry[n] \div kSlots \in Nat
  BY ZenonT(60), DivMod DEF WheelInv, WheelType, Given
<1>4. nowTick' \div kSlots = b /\ nowTick' % kSlots = t % kSlots
  BY ZenonT(60), <1>0
<1>5. nowTick < t
  BY SMTT(60), <1>1
<1> HIDE DEF t, b
<1>6. ASSUME NEW s \in Slots, NEW n \in Home0(s)
      PROVE  n \in Home0(s)'
  <2>1. /\ n \in Given /\ n \notin fired /\ t <= expiry[n] /\ expiry[n] < nowTick + kSlots
        /\ L0Slot(expiry[n]) = s /\ (Far(delay[n]) => expiry[n] \div kSlots <= a)
    BY ZenonT(60), <1>0, <1>6 DEF Home0
  <2>2. expiry[n] \in Nat /\ expiry[n] \div kSlots \in Nat
    BY ZenonT(60), <1>3, <2>1
  <2>3. expiry[n] < t + kSlots
    BY SMTT(60), <1>1, <1>5, <2>1, <2>2
  <2> HIDE DEF a
  <2>4. expiry[n] \div kSlots <= a => expiry[n] \div kSlots <= b
    BY SMTT(60), <1>1, <1>2, <2>2
  <2> QED
    BY ZenonT(60), <1>0, <1>4, <2>1, <2>3, <2>4 DEF Home0
<1>7. ASSUME NEW s \in Slots, NEW n \in Home1(s)
      PROVE  IF t % kSlots = 0 /\ s = b % kSlots THEN n \in Falling' ELSE n \in Home1(s)'
  <2> DEFINE e == expiry[n]
             q == e \div kSlots
  <2>1. /\ n \in Given /\ n \notin fired /\ a < q /\ q <= a + kSlots
        /\ L1Slot(e) = s /\ Far(delay[n])
    BY ZenonT(60), <1>7 DEF Home1
  <2>2. e \in Nat /\ q \in Nat
    BY ZenonT(60), <1>3, <2>1
  <2>3. q % kSlots = s
    BY <2>1 DEF L1Slot
  <2>4. CASE t % kSlots = 0 /\ s = b % kSlots
    <3>1. b = a + 1
      BY ZenonT(60), <1>2, <2>4
    <3>2. q = b
      <4> HIDE DEF a, q
      <4>1. b <= q /\ q < b + kSlots
        BY SMTT(60), <1>1, <2>1, <2>2, <3>1
      <4> QED
        BY ZenonT(60), <1>1, <2>2, <2>3, <2>4, <4>1, SameSlot
    <3>3. t <= e /\ e < t + kSlots
      <4>1. e \div kSlots = t \div kSlots
        BY ZenonT(60), <3>2 DEF b
      <4> HIDE DEF e
      <4> QED
        BY ZenonT(60), <1>1, <2>2, <2>4, <4>1, FirstOfLap
    <3> QED
      BY ZenonT(60), <1>0, <1>4, <2>1, <2>4, <3>2, <3>3 DEF Falling
  <2>5. CASE ~(t % kSlots = 0 /\ s = b % kSlots)
    <3>1. b < q /\ q <= b + kSlots
      <4> HIDE DEF a, q
      <4>1. CASE t % kSlots = 0
        <5>1. q # b
          BY ZenonT(60), <2>3, <2>5, <4>1
        <5>2. b = a + 1
          BY ZenonT(60), <1>2, <4>1
        <5> QED
          BY SMTT(60), <1>1, <2>1, <2>2, <5>1, <5>2
      <4>2. CASE t % kSlots # 0
        <5>1. b = a
          BY ZenonT(60), <1>2, <4>2
        <5> QED
          BY ZenonT(60), <2>1, <5>1
      <4> QED
        BY ZenonT(60), <4>1, <4>2
    <3>2. n \in Home1(s)'
      BY ZenonT(60), <1>0, <1>4, <2>1, <3>1 DEF Home1
    <3> QED
      BY ZenonT(60), <2>5, <3>2
  <2> QED
    BY ZenonT(60), <2>4, <2>5
<1>8. ASSUME NEW s \in Slots
      PROVE  IF t % kSlots = 0 /\ s = b % kSlots
               THEN Home1(s) \subseteq Falling' ELSE Home1(s) \subseteq Home1(s)'
  BY ZenonT(60), <1>7
<1> QED
  BY ZenonT(60), <1>4, <1>6, <1>8

LEMMA TickBeginStep ==
  ASSUME WheelInv, TickBegin
  PROVE  WheelInv'
<1> DEFINE t == nowTick + 1
           z == (t \div kSlots) % kSlots
           full == t % kSlots = 0
<1>0. /\ mode = "step" /\ mode' = "cascade" /\ nowTick' = t
      /\ cascade' = (IF full THEN l1[z] ELSE <<>>)
      /\ l1' = IF full THEN [l1 EXCEPT ![z] = <<>>] ELSE l1
      /\ l0' = l0 /\ toFire' = toFire /\ expiry' = expiry /\ alive' = alive
      /\ canceled' = canceled /\ nextId' = nextId /\ delay' = delay
      /\ fired' = fired
  BY ZenonT(60) DEF TickBegin, TakenDown
<1>1. nowTick \in Nat /\ t \in Nat /\ nowTick < t /\ kSlots \in Nat
  BY SMTT(60), SlotsAssumption DEF WheelInv, WheelType
<1>2. z \in Slots
  BY ZenonT(60), <1>1, DivMod
<1>3. /\ \A s \in Slots : Home0(s) \subseteq Home0(s)'
      /\ \A s \in Slots : IF full /\ s = z THEN Home1(s) \subseteq Falling'
                                           ELSE Home1(s) \subseteq Home1(s)'
  BY ZenonT(60), <1>0, TickHomes
<1> HIDE DEF t, z, full
<1>4. cascade = <<>> /\ toFire = <<>>
  BY ZenonT(60), <1>0 DEF WheelInv, AllHome
<1>5. /\ l1 \in [Slots -> Seq(Ids)]
      /\ \A s \in Slots : l1'[s] = IF full /\ s = z THEN <<>> ELSE l1[s]
  BY ZenonT(60), <1>0, <1>2 DEF WheelInv, WheelType
<1>6. Given' = Given
  BY ZenonT(60), <1>0 DEF Given
<1>7. /\ \A S : <<>> \in Seq(S)
      /\ \A x : ~Occurs(<<>>, x)
      /\ Sorted(<<>>, delay, expiry)
      /\ \A q : Across(q, <<>>, delay, expiry)
  BY ZenonT(60), EmptySlot
<1>8. WheelType'
  <2>1. l1' \in [Slots -> Seq(Ids)]
    BY ZenonT(60), <1>0, <1>2, <1>5, <1>7
  <2>2. cascade' \in Seq(Ids)
    BY ZenonT(60), <1>0, <1>2, <1>5, <1>7
  <2> QED
    BY ZenonT(60), <1>0, <1>1, <2>1, <2>2 DEF WheelInv, WheelType
<1>9. AliveOK'
  BY ZenonT(60), <1>0, <1>6 DEF WheelInv, AliveOK
<1>10. DueOK'
  <2>1. ASSUME NEW n \in Given
        PROVE  expiry[n] <= t + Reach(Ticks(delay[n]))
    <3>1. /\ expiry[n] \in Nat /\ delay[n] \in Nat
          /\ expiry[n] <= nowTick + Reach(Ticks(delay[n]))
      BY ZenonT(60) DEF WheelInv, WheelType, DueOK, Given
    <3>2. Reach(Ticks(delay[n])) \in Nat
      BY ZenonT(60), <3>1, TicksFacts
    <3> QED
      BY SMTT(60), <1>1, <3>1, <3>2
  <2> QED
    BY ZenonT(60), <1>0, <1>6, <2>1 DEF WheelInv, DueOK
<1>11. AllHome'
  <2>1. ASSUME NEW s \in Slots PROVE l0'[s] \in Seq(Home0(s)')
    BY ZenonT(60), <1>0, <1>3, SeqFacts DEF WheelInv, AllHome
  <2>2. ASSUME NEW s \in Slots PROVE l1'[s] \in Seq(Home1(s)')
    <3>1. CASE full /\ s = z
      BY ZenonT(60), <1>5, <1>7, <3>1
    <3>2. CASE ~(full /\ s = z)
      <4>1. l1[s] \in Seq(Home1(s)) /\ Home1(s) \subseteq Home1(s)' /\ l1'[s] = l1[s]
        BY ZenonT(60), <1>3, <1>5, <3>2 DEF WheelInv, AllHome
      <4> QED
        BY ZenonT(60), <4>1, SeqFacts
    <3> QED
      BY ZenonT(60), <3>1, <3>2
  <2>3. cascade' \in Seq(Falling')
    <3>1. CASE full
      <4>1. l1[z] \in Seq(Home1(z)) /\ Home1(z) \subseteq Falling' /\ cascade' = l1[z]
        BY ZenonT(60), <1>0, <1>2, <1>3, <3>1 DEF WheelInv, AllHome
      <4> QED
        BY ZenonT(60), <4>1, SeqFacts
    <3>2. CASE ~full
      BY ZenonT(60), <1>0, <1>7, <3>2
    <3> QED
      BY ZenonT(60), <3>1, <3>2
  <2> QED
    BY ZenonT(60), <1>0, <1>4, <1>7, <2>1, <2>2, <2>3 DEF AllHome
<1>12. AllSomewhere'
  <2> SUFFICES ASSUME NEW n \in alive PROVE Somewhere(n)'
    BY ZenonT(60), <1>0 DEF AllSomewhere
  <2>1. PICK s \in Slots : Occurs(l0[s], n) \/ Occurs(l1[s], n)
    BY ZenonT(60), <1>4, <1>7 DEF WheelInv, AllSomewhere, Somewhere
  <2>2. CASE Occurs(l0[s], n)
    BY ZenonT(60), <1>0, <2>2 DEF Somewhere
  <2>3. CASE Occurs(l1[s], n) /\ full /\ s = z
    BY ZenonT(60), <1>0, <2>3 DEF Somewhere
  <2>4. CASE Occurs(l1[s], n) /\ ~(full /\ s = z)
    BY ZenonT(60), <1>5, <2>4 DEF Somewhere
  <2> QED
    BY ZenonT(60), <2>1, <2>2, <2>3, <2>4
<1>13. AllSorted'
  <2>1. /\ \A s \in Slots : Sorted(l0'[s], delay', expiry') /\ Sorted(l1'[s], delay', expiry')
        /\ Sorted(cascade', delay', expiry') /\ Sorted(toFire', delay', expiry')
    BY ZenonT(60), <1>0, <1>2, <1>5, <1>7 DEF WheelInv, AllSorted
  <2>2. ASSUME NEW s \in Slots PROVE Across(l0[s], cascade', delay, expiry)
    <3>1. CASE ~full
      BY ZenonT(60), <1>0, <1>7, <3>1
    <3>2. CASE full
      <4> SUFFICES ASSUME NEW i \in DOMAIN l0[s], NEW j \in DOMAIN l1[z],
                          Twins(l0[s][i], l1[z][j], delay, expiry)
                   PROVE  FALSE
        BY ZenonT(60), <1>0, <3>2 DEF Across
      <4>1. l0[s][i] \in Home0(s) /\ l1[z][j] \in Home1(z)
        BY ZenonT(60), <1>2, SeqFacts DEF WheelInv, AllHome
      <4>2. PICK m \in Given : m = l0[s][i] /\ m \in Home0(s)
        BY ZenonT(60), <4>1 DEF Home0
      <4>3. PICK n \in Given : n = l1[z][j] /\ n \in Home1(z)
        BY ZenonT(60), <4>1 DEF Home1
      <4>4. delay[m] = delay[n] /\ expiry[m] = expiry[n]
        BY ZenonT(60), <4>2, <4>3 DEF Twins
      <4>5. /\ Far(delay[n]) /\ nowTick \div kSlots < expiry[n] \div kSlots
            /\ (Far(delay[m]) => expiry[m] \div kSlots <= nowTick \div kSlots)
        BY ZenonT(60), <4>2, <4>3 DEF Home0, Home1
      <4>6. expiry[n] \div kSlots \in Nat /\ nowTick \div kSlots \in Nat
        BY ZenonT(60), <1>1, <4>3, DivMod DEF WheelInv, WheelType, Given
      <4>7. expiry[n] \div kSlots <= nowTick \div kSlots
        BY ZenonT(60), <4>4, <4>5
      <4> QED
        BY SMTT(60), <4>5, <4>6, <4>7
    <3> QED
      BY ZenonT(60), <3>1, <3>2
  <2> QED
    BY ZenonT(60), <1>0, <2>1, <2>2 DEF AllSorted
<1>14. EqualDelaysInOrder'
  BY ZenonT(60), <1>0 DEF WheelInv, EqualDelaysInOrder
<1> QED
  BY ZenonT(60), <1>8, <1>9, <1>10, <1>11, <1>12, <1>13, <1>14 DEF WheelInv

\* The cascade leaves the expiry of a timer alone: what it brings down is due
\* within a lap, and is not cut.
LEMMA CascadeKeeps ==
  ASSUME WheelInv, CascadeNext
  PROVE  expiry' = expiry
<1>n. PICK n \in Ids : n = Head(cascade)
  BY ZenonT(60), TailAt DEF CascadeNext, WheelInv, WheelType
<1>0. /\ cascade # <<>>
      /\ IF n \in canceled THEN UNCHANGED <<l0, l1, expiry>> ELSE Place(n, expiry[n])
  BY ZenonT(60), <1>n DEF CascadeNext
<1>1. n \in Falling
  BY ZenonT(60), <1>n, <1>0, TailAt DEF WheelInv, AllHome
<1>2. nowTick \in Nat /\ kSlots \in Nat /\ expiry \in [Ids -> Nat]
  BY ZenonT(60), SlotsAssumption DEF WheelInv, WheelType
<1>3. PICK e \in Nat : e = expiry[n]
  BY ZenonT(60), <1>2
<1>4. nowTick <= e /\ e < nowTick + kSlots
  BY ZenonT(60), <1>1, <1>3 DEF Falling
<1>5. OnL0(e, nowTick)
  BY SMTT(60), <1>2, <1>4 DEF OnL0
<1>6. [expiry EXCEPT ![n] = e] = expiry
  BY SMTT(60), <1>2, <1>3
<1> QED
  BY ZenonT(60), <1>0, <1>3, <1>5, <1>6 DEF Place

LEMMA CascadeNextStep ==
  ASSUME WheelInv, CascadeNext
  PROVE  WheelInv'
<1>n. PICK n \in Ids : n = Head(cascade)
  BY ZenonT(60), TailAt DEF CascadeNext, WheelInv, WheelType
<1>0. /\ mode = "cascade" /\ mode' = mode /\ nowTick' = nowTick
      /\ cascade # <<>> /\ cascade' = Tail(cascade)
      /\ toFire' = toFire /\ alive' = alive
      /\ canceled' = canceled /\ nextId' = nextId /\ expiry' = expiry /\ delay' = delay
      /\ fired' = fired
      /\ IF n \in canceled THEN UNCHANGED <<l0, l1, expiry>> ELSE Place(n, expiry[n])
  BY ZenonT(60), <1>n, CascadeKeeps DEF CascadeNext
<1>1. Given' = Given /\ First' = First /\ First = nowTick
  BY ZenonT(60), <1>0 DEF Given, First
<1>2. /\ \A s \in Slots : Home0(s)' = Home0(s) /\ Home1(s)' = Home1(s)
      /\ Falling' = Falling /\ DueNow' = DueNow
  BY ZenonT(60), <1>0, <1>1 DEF Home0, Home1, Falling, DueNow
<1>3. n \in Falling /\ cascade' \in Seq(Falling)
  BY ZenonT(60), <1>n, <1>0, TailAt DEF WheelInv, AllHome
<1>4. PICK e \in Nat : e = expiry[n]
  BY ZenonT(60) DEF WheelInv, WheelType
<1>5. /\ n \in Given /\ n \notin fired /\ expiry[n] = e
      /\ nowTick <= e /\ e < nowTick + kSlots /\ e \div kSlots = nowTick \div kSlots
  BY ZenonT(60), <1>3, <1>4 DEF Falling, WheelInv, DueOK
<1>6. nowTick \in Nat /\ kSlots \in Nat /\ nowTick \div kSlots \in Nat
  BY ZenonT(60), SlotsAssumption, DivMod DEF WheelInv, WheelType
<1>7. PICK h \in Slots : h = L0Slot(e)
  BY ZenonT(60), DivMod DEF L0Slot
<1>8. /\ l0 \in [Slots -> Seq(Ids)] /\ l1' = l1 /\ expiry' = expiry
      /\ l0' = IF n \in canceled THEN l0 ELSE [l0 EXCEPT ![h] = Append(@, n)]
  <2>1. OnL0(e, nowTick)
    BY SMTT(60), <1>5, <1>6 DEF OnL0
  <2>2. expiry \in [Ids -> Nat] /\ l0 \in [Slots -> Seq(Ids)]
    BY DEF WheelInv, WheelType
  <2>3. [expiry EXCEPT ![n] = e] = expiry
    BY SMTT(60), <1>5, <2>2
  <2>4. n \notin canceled => /\ l0' = [l0 EXCEPT ![h] = Append(@, n)] /\ l1' = l1
                             /\ expiry' = expiry
    BY ZenonT(60), <1>0, <1>5, <1>7, <2>1, <2>3 DEF Place
  <2>5. n \in canceled => l0' = l0 /\ l1' = l1 /\ expiry' = expiry
    BY ZenonT(60), <1>0
  <2> QED
    BY ZenonT(60), <2>2, <2>4, <2>5
<1>9. \A s \in Slots : l0'[s] = IF n \notin canceled /\ s = h THEN Append(l0[s], n) ELSE l0[s]
  BY ZenonT(60), <1>8
<1>10. n \in Home0(h)
  <2>1. e \div kSlots <= nowTick \div kSlots
    BY SMTT(60), <1>5, <1>6
  <2> QED
    BY ZenonT(60), <1>1, <1>4, <1>5, <1>7, <2>1 DEF Home0
<1>11. WheelType'
  <2>1. cascade' \in Seq(Ids)
    BY ZenonT(60), <1>0, TailAt DEF WheelInv, WheelType
  <2>2. \A s \in Slots : l0'[s] \in Seq(Ids)
    BY ZenonT(60), <1>8, <1>9, AppendAt
  <2>3. l0' \in [Slots -> Seq(Ids)]
    BY ZenonT(60), <1>8, <2>2
  <2> QED
    BY ZenonT(60), <1>0, <1>8, <2>1, <2>3 DEF WheelInv, WheelType
<1>12. AliveOK' /\ DueOK'
  BY ZenonT(60), <1>0, <1>1, <1>8 DEF WheelInv, AliveOK, DueOK
<1>13. AllHome'
  <2>0. AllHome
    BY DEF WheelInv
  <2>1. ASSUME NEW s \in Slots PROVE l0'[s] \in Seq(Home0(s)')
    <3>1. l0[s] \in Seq(Home0(s)) /\ Home0(s)' = Home0(s)
      BY ZenonT(60), <1>2, <2>0 DEF AllHome
    <3>2. s = h => Append(l0[s], n) \in Seq(Home0(s))
      BY ZenonT(60), <1>10, <3>1, AppendAt
    <3> QED
      BY ZenonT(60), <1>9, <3>1, <3>2
  <2>2. ASSUME NEW s \in Slots PROVE l1'[s] \in Seq(Home1(s)')
    BY ZenonT(60), <1>2, <1>8, <2>0 DEF AllHome
  <2>3. cascade' \in Seq(Falling') /\ toFire' \in Seq(DueNow') /\ toFire' = <<>>
    BY ZenonT(60), <1>0, <1>2, <1>3, <2>0 DEF AllHome
  <2> QED
    BY ZenonT(60), <1>0, <2>1, <2>2, <2>3 DEF AllHome
<1>14. AllSomewhere'
  <2> SUFFICES ASSUME NEW m \in alive PROVE Somewhere(m)'
    BY ZenonT(60), <1>0 DEF AllSomewhere
  <2>1. \A s \in Slots : Occurs(l0[s], m) => Occurs(l0'[s], m)
    BY ZenonT(60), <1>8, <1>9, OccursAppend
  <2>2. Somewhere(m)
    BY DEF WheelInv, AllSomewhere
  <2>3. CASE Occurs(cascade, m)
    <3>1. Occurs(cascade', m) \/ m = n
      BY ZenonT(60), <1>n, <1>0, <2>3, OccursTail DEF WheelInv, WheelType
    <3>2. ASSUME m = n PROVE Occurs(l0'[h], m)
      <4>1. n \notin canceled
        BY ZenonT(60), <3>2 DEF WheelInv, AliveOK
      <4>2. l0[h] \in Seq(Ids) /\ l0'[h] = Append(l0[h], n)
        BY ZenonT(60), <1>8, <1>9, <4>1
      <4>3. Occurs(Append(l0[h], n), n)
        BY ZenonT(60), <4>2, OccursAppend
      <4> QED
        BY ZenonT(60), <3>2, <4>2, <4>3
    <3> QED
      BY ZenonT(60), <3>1, <3>2 DEF Somewhere
  <2>4. CASE ~Occurs(cascade, m)
    BY ZenonT(60), <1>0, <1>8, <2>1, <2>2, <2>4 DEF Somewhere
  <2> QED
    BY ZenonT(60), <2>3, <2>4
<1>15. AllSorted'
  <2>0. AllSorted /\ cascade \in Seq(Ids)
    BY DEF WheelInv, WheelType
  <2>1. Sorted(cascade', delay', expiry') /\ Sorted(toFire', delay', expiry')
    BY ZenonT(60), <1>0, <2>0, SortedTail DEF AllSorted
  <2>2. ASSUME NEW s \in Slots
        PROVE  /\ Sorted(l0'[s], delay, expiry) /\ Across(l0'[s], cascade', delay, expiry)
    <3>1. /\ l0[s] \in Seq(Ids) /\ Sorted(l0[s], delay, expiry)
          /\ Sorted(cascade, delay, expiry) /\ Across(l0[s], cascade, delay, expiry)
      BY ZenonT(60), <1>8, <2>0 DEF AllSorted
    <3>2. /\ Across(l0[s], cascade', delay, expiry)
          /\ Across(Append(l0[s], n), cascade', delay, expiry)
          /\ \A i \in DOMAIN l0[s] : Twins(l0[s][i], n, delay, expiry) => l0[s][i] < n
      BY ZenonT(60), <1>n, <1>0, <2>0, <3>1, AcrossMoves
    <3>3. Sorted(Append(l0[s], n), delay, expiry)
      BY ZenonT(60), <3>1, <3>2, SortedAppend
    <3> QED
      BY ZenonT(60), <1>9, <3>1, <3>2, <3>3
  <2> QED
    BY ZenonT(60), <1>0, <1>8, <2>0, <2>1, <2>2 DEF AllSorted
<1>16. EqualDelaysInOrder'
  BY ZenonT(60), <1>0 DEF WheelInv, EqualDelaysInOrder
<1> QED
  BY ZenonT(60), <1>11, <1>12, <1>13, <1>14, <1>15, <1>16 DEF WheelInv

LEMMA FireSlotStep ==
  ASSUME WheelInv, FireSlot
  PROVE  WheelInv'
<1>h. PICK h \in Slots : h = L0Slot(nowTick)
  BY ZenonT(60), DivMod DEF L0Slot, WheelInv, WheelType
<1>0. /\ mode = "cascade" /\ mode' = "firing" /\ nowTick' = nowTick
      /\ cascade = <<>> /\ cascade' = cascade /\ l1' = l1 /\ expiry' = expiry
      /\ toFire' = l0[h] /\ l0' = [l0 EXCEPT ![h] = <<>>] /\ alive' = alive
      /\ canceled' = canceled /\ nextId' = nextId /\ expiry' = expiry /\ delay' = delay
      /\ fired' = fired
  BY ZenonT(60), <1>h DEF FireSlot
<1>1. Given' = Given /\ First' = nowTick + 1 /\ First = nowTick
  BY ZenonT(60), <1>0 DEF Given, First
<1>2. nowTick \in Nat /\ kSlots \in Nat /\ \A n \in Given : expiry[n] \in Nat
  BY ZenonT(60), SlotsAssumption DEF WheelInv, WheelType, Given
<1>3. /\ \A s \in Slots : Home1(s)' = Home1(s)
      /\ Falling' = Falling /\ DueNow' = DueNow
  BY ZenonT(60), <1>0, <1>1 DEF Home1, Falling, DueNow
<1>4. ASSUME NEW s \in Slots, NEW n \in Home0(s)
      PROVE  IF s = h THEN n \in DueNow ELSE n \in Home0(s)'
  <2>1. /\ n \in Given /\ n \notin fired /\ nowTick <= expiry[n] /\ expiry[n] < nowTick + kSlots
        /\ L0Slot(expiry[n]) = s
        /\ (Far(delay[n]) => expiry[n] \div kSlots <= nowTick \div kSlots)
    BY ZenonT(60), <1>1, <1>4 DEF Home0
  <2>2. expiry[n] \in Nat
    BY ZenonT(60), <1>2, <2>1
  <2>3. CASE s = h
    <3>1. expiry[n] % kSlots = nowTick % kSlots
      BY ZenonT(60), <1>h, <2>1, <2>3 DEF L0Slot
    <3>2. expiry[n] = nowTick
      BY ZenonT(60), <1>2, <2>1, <2>2, <3>1, SameSlot
    <3> QED
      BY ZenonT(60), <2>1, <2>3, <3>2 DEF DueNow
  <2>4. CASE s # h
    <3>1. expiry[n] # nowTick
      BY ZenonT(60), <1>h, <2>1, <2>4
    <3>2. nowTick + 1 <= expiry[n]
      BY SMTT(60), <1>2, <2>1, <2>2, <3>1
    <3> QED
      BY ZenonT(60), <1>0, <1>1, <2>1, <2>4, <3>2 DEF Home0
  <2> QED
    BY ZenonT(60), <2>3, <2>4
<1>5. /\ l0 \in [Slots -> Seq(Ids)]
      /\ \A s \in Slots : l0'[s] = IF s = h THEN <<>> ELSE l0[s]
  BY ZenonT(60), <1>0 DEF WheelInv, WheelType
<1>6. /\ \A S : <<>> \in Seq(S)
      /\ \A x : ~Occurs(<<>>, x)
      /\ Sorted(<<>>, delay, expiry)
      /\ \A q : Across(q, <<>>, delay, expiry)
  BY ZenonT(60), EmptySlot
<1>7. WheelType'
  <2>1. l0' \in [Slots -> Seq(Ids)] /\ toFire' \in Seq(Ids)
    BY ZenonT(60), <1>0, <1>5, <1>6
  <2> QED
    BY ZenonT(60), <1>0, <2>1 DEF WheelInv, WheelType
<1>8. AliveOK' /\ DueOK'
  BY ZenonT(60), <1>0, <1>1 DEF WheelInv, AliveOK, DueOK
<1>9. AllHome'
  <2>0. AllHome
    BY DEF WheelInv
  <2>1. ASSUME NEW s \in Slots PROVE l0'[s] \in Seq(Home0(s)')
    <3>1. CASE s = h
      BY ZenonT(60), <1>5, <1>6, <3>1
    <3>2. CASE s # h
      <4>1. l0[s] \in Seq(Home0(s)) /\ Home0(s) \subseteq Home0(s)' /\ l0'[s] = l0[s]
        BY ZenonT(60), <1>4, <1>5, <2>0, <3>2 DEF AllHome
      <4> QED
        BY ZenonT(60), <4>1, SeqFacts
    <3> QED
      BY ZenonT(60), <3>1, <3>2
  <2>2. ASSUME NEW s \in Slots PROVE l1'[s] \in Seq(Home1(s)')
    BY ZenonT(60), <1>0, <1>3, <2>0 DEF AllHome
  <2>3. toFire' \in Seq(DueNow')
    <3>1. l0[h] \in Seq(Home0(h)) /\ Home0(h) \subseteq DueNow
      BY ZenonT(60), <1>4, <2>0 DEF AllHome
    <3> QED
      BY ZenonT(60), <1>0, <1>3, <3>1, SeqFacts
  <2> QED
    BY ZenonT(60), <1>0, <1>6, <2>1, <2>2, <2>3 DEF AllHome
<1>10. AllSomewhere'
  <2> SUFFICES ASSUME NEW n \in alive PROVE Somewhere(n)'
    BY ZenonT(60), <1>0 DEF AllSomewhere
  <2>0. toFire = <<>>
    BY ZenonT(60), <1>0 DEF WheelInv, AllHome
  <2>1. PICK s \in Slots : Occurs(l0[s], n) \/ Occurs(l1[s], n)
    BY ZenonT(60), <1>0, <1>6, <2>0 DEF WheelInv, AllSomewhere, Somewhere
  <2>2. CASE Occurs(l1[s], n)
    BY ZenonT(60), <1>0, <2>2 DEF Somewhere
  <2>3. CASE Occurs(l0[s], n) /\ s = h
    BY ZenonT(60), <1>0, <2>3 DEF Somewhere
  <2>4. CASE Occurs(l0[s], n) /\ s # h
    BY ZenonT(60), <1>5, <2>4 DEF Somewhere
  <2> QED
    BY ZenonT(60), <2>1, <2>2, <2>3, <2>4
<1>11. AllSorted'
  <2>1. Sorted(toFire', delay', expiry')
    BY ZenonT(60), <1>0 DEF WheelInv, AllSorted
  <2> QED
    BY ZenonT(60), <1>0, <1>5, <1>6, <2>1 DEF WheelInv, AllSorted
<1>12. EqualDelaysInOrder'
  BY ZenonT(60), <1>0 DEF WheelInv, EqualDelaysInOrder
<1> QED
  BY ZenonT(60), <1>7, <1>8, <1>9, <1>10, <1>11, <1>12 DEF WheelInv

LEMMA FireNextStep ==
  ASSUME WheelInv, FireNext
  PROVE  WheelInv'
<1>n. PICK n \in Ids : n = Head(toFire)
  BY ZenonT(60), TailAt DEF FireNext, WheelInv, WheelType
<1>0. /\ mode \in {"firing", "callback"} /\ nowTick' = nowTick
      /\ toFire # <<>> /\ toFire' = Tail(toFire)
      /\ l0' = l0 /\ l1' = l1 /\ cascade' = cascade /\ expiry' = expiry
      /\ canceled' = canceled /\ nextId' = nextId /\ delay' = delay
      /\ IF n \in canceled
           THEN alive' = alive /\ fired' = fired /\ mode' = mode
           ELSE alive' = alive \ {n} /\ fired' = fired \cup {n} /\ mode' = "callback"
  BY ZenonT(60), <1>n DEF FireNext, Skipped
<1>m. mode' \in {"firing", "callback"} /\ mode # "cascade" /\ mode' # "cascade"
  BY ZenonT(60), <1>0
<1>1. Given' = Given /\ First' = nowTick + 1 /\ First = nowTick + 1
  BY ZenonT(60), <1>0, <1>m DEF Given, First
<1>2. nowTick \in Nat /\ \A m \in Given : expiry[m] \in Nat
  BY ZenonT(60) DEF WheelInv, WheelType, Given
<1>3. n \in DueNow /\ toFire' \in Seq(DueNow)
  BY ZenonT(60), <1>n, <1>0, TailAt DEF WheelInv, AllHome
<1>4. n \in Given /\ n \notin fired /\ expiry[n] = nowTick
  BY ZenonT(60), <1>3 DEF DueNow
<1>5. cascade = <<>> /\ cascade' = <<>>
  BY ZenonT(60), <1>0, <1>m DEF WheelInv, AllHome
\* The timer that fires lies nowhere else.
<1>6. ~Occurs(toFire', n)
  <2>1. \A i \in DOMAIN toFire' : Twins(n, toFire'[i], delay, expiry) => n < toFire'[i]
    BY ZenonT(60), <1>n, <1>0, SortedTail DEF WheelInv, WheelType, AllSorted
  <2>2. ~(n < n)
    BY SMTT(60), BoundsAssumption DEF Ids
  <2> QED
    BY ZenonT(60), <2>1, <2>2 DEF Occurs, Twins
<1>7. ASSUME NEW s \in Slots PROVE n \notin Home0(s) /\ n \notin Home1(s)
  <2>1. n \notin Home0(s)
    <3>1. ~(nowTick + 1 <= expiry[n])
      BY SMTT(60), <1>2, <1>4
    <3> QED
      BY ZenonT(60), <1>1, <3>1 DEF Home0
  <2>2. n \notin Home1(s)
    <3>1. nowTick \div kSlots \in Nat
      BY ZenonT(60), <1>2, DivMod
    <3>2. ~(nowTick \div kSlots < expiry[n] \div kSlots)
      BY SMTT(60), <1>4, <3>1
    <3> QED
      BY ZenonT(60), <3>2 DEF Home1
  <2> QED
    BY ZenonT(60), <2>1, <2>2
<1>8. \A m : m # n => (m \in fired' <=> m \in fired)
  BY ZenonT(60), <1>0
<1>9. ASSUME NEW s \in Slots PROVE Home0(s) \subseteq Home0(s)' /\ Home1(s) \subseteq Home1(s)'
  <2>1. Home0(s) \subseteq Home0(s)'
    BY ZenonT(60), <1>0, <1>1, <1>7, <1>8 DEF Home0
  <2>2. Home1(s) \subseteq Home1(s)'
    BY ZenonT(60), <1>0, <1>1, <1>7, <1>8 DEF Home1
  <2> QED
    BY ZenonT(60), <2>1, <2>2
<1>10. DueNow \ {n} \subseteq DueNow'
  BY ZenonT(60), <1>0, <1>1, <1>8 DEF DueNow
<1>11. WheelType'
  <2>1. toFire' \in Seq(Ids)
    BY ZenonT(60), <1>0, TailAt DEF WheelInv, WheelType
  <2> QED
    BY ZenonT(60), <1>0, <1>m, <2>1 DEF WheelInv, WheelType
<1>12. AliveOK' /\ DueOK'
  <2>1. AliveOK'
    BY ZenonT(60), <1>0, <1>1, <1>4 DEF WheelInv, AliveOK
  <2>2. DueOK'
    BY ZenonT(60), <1>0, <1>1 DEF WheelInv, DueOK
  <2> QED
    BY <2>1, <2>2
<1>13. AllHome'
  <2>0. AllHome
    BY DEF WheelInv
  <2>1. ASSUME NEW s \in Slots
        PROVE  l0'[s] \in Seq(Home0(s)') /\ l1'[s] \in Seq(Home1(s)')
    <3>1. l0[s] \in Seq(Home0(s)) /\ l1[s] \in Seq(Home1(s))
      BY ZenonT(60), <2>0 DEF AllHome
    <3>2. l0[s] \in Seq(Home0(s)')
      BY ZenonT(60), <1>9, <3>1, SeqFacts
    <3>3. l1[s] \in Seq(Home1(s)')
      BY ZenonT(60), <1>9, <3>1, SeqFacts
    <3> QED
      BY ZenonT(60), <1>0, <3>2, <3>3
  <2>2. toFire' \in Seq(DueNow')
    <3>1. toFire' \in Seq(DueNow \ {n})
      BY ZenonT(60), <1>3, <1>6, SeqFacts
    <3> QED
      BY ZenonT(60), <1>10, <3>1, SeqFacts
  <2>3. cascade' \in Seq(Falling')
    BY ZenonT(60), <1>5, EmptySlot
  <2> QED
    BY ZenonT(60), <1>5, <1>m, <2>1, <2>2, <2>3 DEF AllHome
<1>14. AllSomewhere'
  <2> SUFFICES ASSUME NEW m \in alive' PROVE Somewhere(m)'
    BY ZenonT(60) DEF AllSomewhere
  <2>1. m \in alive /\ m # n
    BY ZenonT(60), <1>0 DEF WheelInv, AliveOK
  <2>2. Occurs(toFire, m) => Occurs(toFire', m)
    BY ZenonT(60), <1>n, <1>0, <2>1, OccursTail DEF WheelInv, WheelType
  <2> QED
    BY ZenonT(60), <1>0, <2>1, <2>2 DEF WheelInv, AllSomewhere, Somewhere
<1>15. AllSorted'
  <2>1. Sorted(toFire', delay', expiry')
    BY ZenonT(60), <1>0, SortedTail DEF WheelInv, WheelType, AllSorted
  <2> QED
    BY ZenonT(60), <1>0, <2>1 DEF WheelInv, AllSorted
\* No twin that was added earlier is left, here or in a slot.
<1>16. EqualDelaysInOrder'
  <2> SUFFICES ASSUME NEW m \in Ids, NEW k \in Ids, m < k, delay[m] = delay[k], k \in fired'
               PROVE  m \in fired' \cup canceled
    BY ZenonT(60), <1>0 DEF EqualDelaysInOrder
  <2>1. CASE k \in fired
    BY ZenonT(60), <1>0, <2>1 DEF WheelInv, EqualDelaysInOrder
  <2>2. CASE k \notin fired
    <3>1. k = n
      BY ZenonT(60), <1>8, <2>2
    <3> SUFFICES ASSUME m \notin fired, m \notin canceled PROVE FALSE
      BY ZenonT(60), <1>0
    <3>2. m \in Given
      <4>1. nextId \in Nat /\ n < nextId
        BY ZenonT(60), <1>4 DEF WheelInv, WheelType, Given
      <4>2. m < nextId
        BY SMTT(60), <3>1, <4>1, BoundsAssumption DEF Ids
      <4> QED
        BY ZenonT(60), <4>2 DEF Given
    <3>3. m \in alive /\ Somewhere(m)
      BY ZenonT(60), <3>2 DEF WheelInv, AliveOK, AllSomewhere
    <3>4. expiry[m] <= nowTick /\ expiry[m] \in Nat
      BY ZenonT(60), <1>2, <1>4, <3>1, <3>2 DEF WheelInv, DueOK
    <3>5. ASSUME NEW s \in Slots PROVE ~Occurs(l0[s], m) /\ ~Occurs(l1[s], m)
      <4>1. l0[s] \in Seq(Home0(s)) /\ l1[s] \in Seq(Home1(s))
        BY ZenonT(60) DEF WheelInv, AllHome
      <4>2. m \notin Home0(s)
        <5>1. ~(nowTick + 1 <= expiry[m])
          BY SMTT(60), <1>2, <3>4
        <5> QED
          BY ZenonT(60), <1>1, <5>1 DEF Home0
      <4>3. m \notin Home1(s)
        <5>1. ~(nowTick < expiry[m])
          BY SMTT(60), <1>2, <3>4
        <5>2. ~(nowTick \div kSlots < expiry[m] \div kSlots)
          BY ZenonT(60), <1>2, <3>4, <5>1, LaterLap
        <5> QED
          BY ZenonT(60), <5>2 DEF Home1
      <4> QED
        BY ZenonT(60), <4>1, <4>2, <4>3, SeqFacts
    <3>6. Occurs(toFire, m)
      BY ZenonT(60), <1>5, <3>3, <3>5, EmptySlot DEF Somewhere
    <3>7. m # n /\ ~(n < m)
      BY SMTT(60), <3>1, BoundsAssumption DEF Ids
    <3>8. PICK i \in DOMAIN toFire' : toFire'[i] = m
      <4>1. Occurs(toFire', m)
        BY ZenonT(60), <1>n, <1>0, <3>6, <3>7, OccursTail DEF WheelInv, WheelType
      <4> QED
        BY ZenonT(60), <4>1 DEF Occurs
    <3>9. expiry[m] = nowTick
      <4>1. m \in DueNow
        BY ZenonT(60), <1>3, <3>8, SeqFacts
      <4> QED
        BY ZenonT(60), <4>1 DEF DueNow
    <3>10. Twins(n, toFire'[i], delay, expiry)
      BY ZenonT(60), <1>4, <3>1, <3>8, <3>9 DEF Twins
    <3>11. n < toFire'[i]
      BY ZenonT(60), <1>n, <1>0, <3>10, SortedTail DEF WheelInv, WheelType, AllSorted
    <3> QED
      BY ZenonT(60), <3>7, <3>8, <3>11
  <2> QED
    BY ZenonT(60), <2>1, <2>2
<1> QED
  BY ZenonT(60), <1>11, <1>12, <1>13, <1>14, <1>15, <1>16 DEF WheelInv

\* Where add() places a timer, and when it is due.
Places(n, ms) ==
  /\ expiry' = [expiry EXCEPT ![n] = nowTick + Reach(Ticks(ms))]
  /\ IF Far(ms)
       THEN l0' = l0 /\ l1' = [l1 EXCEPT ![L1Slot(nowTick + Reach(Ticks(ms)))] = Append(@, n)]
       ELSE l1' = l1 /\ l0' = [l0 EXCEPT ![L0Slot(nowTick + Reach(Ticks(ms)))] = Append(@, n)]

\* A delay beyond the range of L1 is cut to what is promised.
LEMMA AddPlaces ==
  ASSUME NEW ms \in Nat, nowTick \in Nat, Add(ms)
  PROVE  Places(nextId, ms)
<1>k. PICK k \in Nat : k = Ticks(ms)
  BY ZenonT(60), TicksFacts
<1>1. k < kSlots => Reach(k) = k /\ ~(Reach(k) >= kSlots)
  BY SMTT(60), <1>k, TicksFacts, SlotsAssumption
<1>2. ~(k < kSlots) => Reach(k) >= kSlots
  <2>1. ~(k < kSlots) => k >= kSlots
    BY SMTT(60), SlotsAssumption
  <2> QED
    BY ZenonT(60), <1>k, <2>1, TicksFacts
<1>3. OnL0(nowTick + k, nowTick) <=> k < kSlots
  BY SMTT(60), SlotsAssumption DEF OnL0
<1>4. Cut(nowTick + k, nowTick) = nowTick + Reach(k)
  <2>1. kSlots * kSlots \in Nat
    BY SMTT(60), SlotsAssumption
  <2> QED
    BY SMTT(60), <2>1 DEF Cut, Reach
<1>5. Place(nextId, nowTick + k)
  BY ZenonT(60), <1>k DEF Add
<1>6. CASE k < kSlots
  BY ZenonT(60), <1>k, <1>1, <1>3, <1>5, <1>6 DEF Place, Places, Far
<1>7. CASE ~(k < kSlots)
  BY ZenonT(60), <1>k, <1>2, <1>3, <1>4, <1>5, <1>7 DEF Place, Places, Far
<1> QED
  BY ZenonT(60), <1>6, <1>7

LEMMA AddStep ==
  ASSUME WheelInv, NEW ms \in Delays, Add(ms)
  PROVE  WheelInv'
<1>n. PICK n \in Ids : n = nextId
  BY SMTT(60), BoundsAssumption DEF Add, Ids, WheelInv, WheelType
<1>k. PICK k \in Nat \ {0} : k = Reach(Ticks(ms))
  BY ZenonT(60), TicksFacts, DelaysAssumption
<1>0. /\ mode \in {"idle", "callback"} /\ mode' = mode /\ nowTick' = nowTick
      /\ nextId' = n + 1 /\ alive' = alive \cup {n} /\ delay' = [delay EXCEPT ![n] = ms]
      /\ cascade' = cascade /\ toFire' = toFire /\ canceled' = canceled /\ fired' = fired
  BY ZenonT(60), <1>n DEF Add, InCaller
<1>m. mode # "cascade" /\ cascade = <<>>
  BY ZenonT(60), <1>0 DEF WheelInv, AllHome
<1>1. nowTick \in Nat /\ kSlots \in Nat /\ ms \in Nat
  BY ZenonT(60), SlotsAssumption, DelaysAssumption DEF WheelInv, WheelType
<1>e. PICK e \in Nat : e = nowTick + k
  BY SMTT(60), <1>1
<1>2. /\ expiry' = [expiry EXCEPT ![n] = e]
      /\ IF Far(ms) THEN l0' = l0 /\ l1' = [l1 EXCEPT ![L1Slot(e)] = Append(@, n)]
                    ELSE l1' = l1 /\ l0' = [l0 EXCEPT ![L0Slot(e)] = Append(@, n)]
  BY ZenonT(60), <1>n, <1>k, <1>e, <1>1, AddPlaces DEF Places
<1>3. Given' = Given \cup {n} /\ n \notin Given /\ \A m \in Given : m < n
  BY SMTT(60), <1>n, <1>0, BoundsAssumption DEF Given, Ids, WheelInv, WheelType
<1>4. /\ expiry \in [Ids -> Nat] /\ delay \in [Ids -> Nat]
      /\ l0 \in [Slots -> Seq(Ids)] /\ l1 \in [Slots -> Seq(Ids)] /\ Given \subseteq Ids
  BY ZenonT(60) DEF WheelInv, WheelType, Given
<1>5. /\ expiry'[n] = e /\ delay'[n] = ms
      /\ \A m \in Ids : m # n => expiry'[m] = expiry[m] /\ delay'[m] = delay[m]
      /\ expiry' \in [Ids -> Nat] /\ delay' \in [Ids -> Nat]
  BY ZenonT(60), <1>0, <1>1, <1>2, <1>4
<1>6. \A m \in Given : expiry'[m] = expiry[m] /\ delay'[m] = delay[m]
  BY ZenonT(60), <1>3, <1>4, <1>5
<1>7. First' = First /\ First = nowTick + 1 /\ First' = nowTick + 1
  BY ZenonT(60), <1>0, <1>m DEF First
<1>8. /\ \A s \in Slots : Home0(s) \subseteq Home0(s)' /\ Home1(s) \subseteq Home1(s)'
      /\ Falling \subseteq Falling' /\ DueNow \subseteq DueNow'
  BY ZenonT(60), <1>0, <1>3, <1>6, <1>7, HomesGrow
<1>9. L0Slot(e) \in Slots /\ L1Slot(e) \in Slots
  BY ZenonT(60), DivMod DEF L0Slot, L1Slot
<1>10. n \in Given' /\ n \notin fired'
  BY ZenonT(60), <1>0, <1>3 DEF WheelInv, AliveOK
\* Its slot is its home.
<1>11. ~Far(ms) => n \in Home0(L0Slot(e))'
  <2>1. ~Far(ms) => nowTick + 1 <= e /\ e < nowTick + kSlots
    BY SMTT(60), <1>k, <1>e, <1>1 DEF Far
  <2> QED
    BY ZenonT(60), <1>0, <1>5, <1>7, <1>10, <2>1 DEF Home0
<1>12. Far(ms) => n \in Home1(L1Slot(e))'
  <2>1. Far(ms) => /\ nowTick \div kSlots < e \div kSlots
                   /\ e \div kSlots <= nowTick \div kSlots + kSlots
    <3>1. Far(ms) => kSlots <= k
      BY SMTT(60), <1>k, <1>1 DEF Far
    <3>2. k \in Nat /\ k < kSlots * kSlots
      BY ZenonT(60), <1>k, <1>1, TicksFacts
    <3> QED
      BY ZenonT(60), <1>e, <1>1, <3>1, <3>2, FarLap
  <2> QED
    BY ZenonT(60), <1>0, <1>5, <1>10, <2>1 DEF Home1
<1>13. /\ \A s \in Slots : l0'[s] = IF ~Far(ms) /\ s = L0Slot(e) THEN Append(l0[s], n) ELSE l0[s]
       /\ \A s \in Slots : l1'[s] = IF Far(ms) /\ s = L1Slot(e) THEN Append(l1[s], n) ELSE l1[s]
       /\ l0' \in [Slots -> Seq(Ids)] /\ l1' \in [Slots -> Seq(Ids)]
  <2>1. \A s \in Slots : Append(l0[s], n) \in Seq(Ids) /\ Append(l1[s], n) \in Seq(Ids)
    BY ZenonT(60), <1>4, AppendAt
  <2>2. CASE Far(ms)
    BY ZenonT(60), <1>2, <1>4, <1>9, <2>1, <2>2
  <2>3. CASE ~Far(ms)
    BY ZenonT(60), <1>2, <1>4, <1>9, <2>1, <2>3
  <2> QED
    BY ZenonT(60), <2>2, <2>3
<1>14. WheelType'
  <2>1. nextId' \in Nat \ {0}
    BY SMTT(60), <1>0, BoundsAssumption DEF Ids
  <2> QED
    BY ZenonT(60), <1>0, <1>5, <1>13, <2>1 DEF WheelInv, WheelType
<1>15. AliveOK'
  <2>1. n \notin fired /\ n \notin canceled
    BY ZenonT(60), <1>3 DEF WheelInv, AliveOK
  <2> QED
    BY ZenonT(60), <1>0, <1>3, <2>1 DEF WheelInv, AliveOK
<1>16. DueOK'
  <2>0. DueOK
    BY DEF WheelInv
  <2>1. e <= nowTick + Reach(Ticks(ms))
    BY SMTT(60), <1>k, <1>e, <1>1
  <2>2. ASSUME NEW m \in Given'
        PROVE  /\ delay'[m] \in Delays
               /\ expiry'[m] <= nowTick + Reach(Ticks(delay'[m]))
    <3>1. CASE m = n
      BY ZenonT(60), <1>5, <2>1, <3>1
    <3>2. CASE m \in Given
      BY ZenonT(60), <1>6, <2>0, <3>2 DEF DueOK
    <3> QED
      BY ZenonT(60), <1>3, <3>1, <3>2
  <2>3. ASSUME NEW m \in Given', NEW j \in Given', m < j, delay'[m] = delay'[j]
        PROVE  expiry'[m] <= expiry'[j]
    <3>1. CASE m \in Given /\ j \in Given
      BY ZenonT(60), <1>6, <2>0, <2>3, <3>1 DEF DueOK
    <3>2. CASE m \in Given /\ j = n
      <4>1. delay[m] = ms /\ expiry[m] <= nowTick + Reach(Ticks(delay[m]))
        BY ZenonT(60), <1>5, <1>6, <2>0, <2>3, <3>2 DEF DueOK
      <4> QED
        BY ZenonT(60), <1>k, <1>e, <1>5, <1>6, <3>2, <4>1
    <3>3. CASE m = n
      <4>1. m \in Nat /\ \A i \in Given : i \in Nat
        BY SMTT(60), BoundsAssumption, <3>3 DEF Given, Ids
      <4>2. j \notin Given /\ j # n
        BY SMTT(60), <1>3, <2>3, <3>3, <4>1
      <4> QED
        BY ZenonT(60), <1>3, <4>2
    <3> QED
      BY ZenonT(60), <1>3, <3>1, <3>2, <3>3
  <2> QED
    BY ZenonT(60), <1>0, <2>2, <2>3 DEF DueOK
<1>17. AllHome'
  <2>0. AllHome
    BY DEF WheelInv
  <2>1. ASSUME NEW s \in Slots PROVE l0'[s] \in Seq(Home0(s)')
    <3>1. l0[s] \in Seq(Home0(s)')
      BY ZenonT(60), <1>8, <2>0, SeqFacts DEF AllHome
    <3>2. ~Far(ms) /\ s = L0Slot(e) => n \in Home0(s)'
      BY ZenonT(60), <1>11
    <3>3. ~Far(ms) /\ s = L0Slot(e) => Append(l0[s], n) \in Seq(Home0(s)')
      BY ZenonT(60), <3>1, <3>2, AppendAt
    <3> QED
      BY ZenonT(60), <1>13, <3>1, <3>3
  <2>2. ASSUME NEW s \in Slots PROVE l1'[s] \in Seq(Home1(s)')
    <3>1. l1[s] \in Seq(Home1(s)')
      BY ZenonT(60), <1>8, <2>0, SeqFacts DEF AllHome
    <3>2. Far(ms) /\ s = L1Slot(e) => n \in Home1(s)'
      BY ZenonT(60), <1>12
    <3>3. Far(ms) /\ s = L1Slot(e) => Append(l1[s], n) \in Seq(Home1(s)')
      BY ZenonT(60), <3>1, <3>2, AppendAt
    <3> QED
      BY ZenonT(60), <1>13, <3>1, <3>3
  <2>3. cascade \in Seq(Falling') /\ toFire \in Seq(DueNow')
    <3>1. cascade \in Seq(Falling')
      BY ZenonT(60), <1>8, <2>0, SeqFacts DEF AllHome
    <3>2. toFire \in Seq(DueNow')
      BY ZenonT(60), <1>8, <2>0, SeqFacts DEF AllHome
    <3> QED
      BY <3>1, <3>2
  <2> QED
    BY ZenonT(60), <1>0, <1>m, <2>0, <2>1, <2>2, <2>3 DEF AllHome
<1>18. AllSomewhere'
  <2>1. ASSUME NEW s \in Slots, NEW m
        PROVE  /\ Occurs(l0[s], m) => Occurs(l0'[s], m)
               /\ Occurs(l1[s], m) => Occurs(l1'[s], m)
    <3>1. l0[s] \in Seq(Ids) /\ l1[s] \in Seq(Ids)
      BY ZenonT(60), <1>4
    <3>2. Occurs(l0[s], m) => Occurs(Append(l0[s], n), m)
      BY ZenonT(60), <3>1, OccursAppend
    <3>3. Occurs(l1[s], m) => Occurs(Append(l1[s], n), m)
      BY ZenonT(60), <3>1, OccursAppend
    <3> QED
      BY ZenonT(60), <1>13, <3>2, <3>3
  <2>2. ASSUME NEW m \in alive PROVE Somewhere(m)'
    BY ZenonT(60), <1>0, <2>1 DEF WheelInv, AllSomewhere, Somewhere
  <2>3. Somewhere(n)'
    <3>1. \A s \in Slots : Occurs(Append(l0[s], n), n) /\ Occurs(Append(l1[s], n), n)
      BY ZenonT(60), <1>4, OccursAppend
    <3>2. \E s \in Slots : Occurs(l0'[s], n) \/ Occurs(l1'[s], n)
      BY ZenonT(60), <1>9, <1>13, <3>1
    <3> QED
      BY ZenonT(60), <3>2 DEF Somewhere
  <2> QED
    BY ZenonT(60), <1>0, <2>2, <2>3 DEF AllSomewhere
<1>19. AllSorted'
  <2>0. AllSorted /\ AllHome
    BY DEF WheelInv
  <2>1. ASSUME NEW q \in Seq(Given), Sorted(q, delay, expiry)
        PROVE  Sorted(q, delay', expiry') /\ Sorted(Append(q, n), delay', expiry')
    <3>1. Sorted(q, delay', expiry')
      <4>1. \A m \in Given : delay[m] = delay'[m] /\ expiry[m] = expiry'[m]
        BY ZenonT(60), <1>6
      <4>2. PICK d : d = delay'
        OBVIOUS
      <4>3. PICK t : t = expiry'
        OBVIOUS
      <4>4. \A m \in Given : delay[m] = d[m] /\ expiry[m] = t[m]
        BY ZenonT(60), <4>1, <4>2, <4>3
      <4>5. Sorted(q, d, t)
        BY SMTT(60), <2>1, <4>4, SortedSame
      <4> QED
        BY ZenonT(60), <4>2, <4>3, <4>5
    <3>2. q \in Seq(Ids)
      BY ZenonT(60), <1>4, SeqFacts
    <3>3. \A i \in DOMAIN q : q[i] < n
      BY ZenonT(60), <1>3, SeqFacts
    <3> QED
      BY ZenonT(60), <3>1, <3>2, <3>3, SortedAppend
  <2>2. ASSUME NEW s \in Slots
        PROVE  Sorted(l0'[s], delay', expiry') /\ Sorted(l1'[s], delay', expiry')
    <3>1. l0[s] \in Seq(Given) /\ l1[s] \in Seq(Given)
      <4>1. Home0(s) \subseteq Given /\ Home1(s) \subseteq Given
        BY ZenonT(60) DEF Home0, Home1
      <4>2. l0[s] \in Seq(Home0(s)) /\ l1[s] \in Seq(Home1(s))
        BY ZenonT(60), <2>0 DEF AllHome
      <4>3. l0[s] \in Seq(Given)
        BY ZenonT(60), <4>1, <4>2, SeqFacts
      <4>4. l1[s] \in Seq(Given)
        BY ZenonT(60), <4>1, <4>2, SeqFacts
      <4> QED
        BY <4>3, <4>4
    <3> QED
      BY ZenonT(60), <1>13, <2>0, <2>1, <3>1 DEF AllSorted
  <2>3. Sorted(toFire, delay', expiry')
    <3>1. toFire \in Seq(Given)
      <4>1. DueNow \subseteq Given /\ toFire \in Seq(DueNow)
        BY ZenonT(60), <2>0 DEF DueNow, AllHome
      <4> QED
        BY ZenonT(60), <4>1, SeqFacts
    <3> QED
      BY ZenonT(60), <2>0, <2>1, <3>1 DEF AllSorted
  <2>4. /\ Sorted(<<>>, delay', expiry')
        /\ \A q : Across(q, <<>>, delay', expiry')
    BY ZenonT(60), EmptySlot
  <2> QED
    BY ZenonT(60), <1>0, <1>m, <2>2, <2>3, <2>4 DEF AllSorted
<1>20. EqualDelaysInOrder'
  <2> SUFFICES ASSUME NEW m \in Ids, NEW j \in Ids, m < j, delay'[m] = delay'[j], j \in fired
               PROVE  m \in fired \cup canceled
    BY ZenonT(60), <1>0 DEF EqualDelaysInOrder
  <2>1. j \in Given
    BY ZenonT(60) DEF WheelInv, AliveOK
  <2>2. m \in Given
    <3>1. nextId \in Nat /\ j < nextId
      BY ZenonT(60), <2>1 DEF WheelInv, WheelType, Given
    <3>2. m < nextId
      BY SMTT(60), <3>1, BoundsAssumption DEF Ids
    <3> QED
      BY ZenonT(60), <3>2 DEF Given
  <2>3. delay[m] = delay[j]
    BY ZenonT(60), <1>6, <2>1, <2>2
  <2> QED
    BY ZenonT(60), <2>3 DEF WheelInv, EqualDelaysInOrder
<1> QED
  BY ZenonT(60), <1>14, <1>15, <1>16, <1>17, <1>18, <1>19, <1>20 DEF WheelInv

\* Every step keeps the invariant.
LEMMA WheelInvStep ==
  ASSUME WheelInv, [WheelNext]_wheelVars
  PROVE  WheelInv'
<1>1. ASSUME NEW ms \in Delays, Add(ms) PROVE WheelInv'
  BY ZenonT(60), <1>1, AddStep
<1>2. ASSUME NEW n \in Ids, Cancel(n) PROVE WheelInv'
  BY ZenonT(60), <1>2, CancelStep
<1>3. ASSUME NEW ms \in Elapsed, AdvanceBegin(ms) PROVE WheelInv'
  BY ZenonT(60), <1>3, AdvanceBeginStep
<1>4. CASE TickBegin
  BY ZenonT(60), <1>4, TickBeginStep
<1>5. CASE CascadeNext
  BY ZenonT(60), <1>5, CascadeNextStep
<1>6. CASE FireSlot
  BY ZenonT(60), <1>6, FireSlotStep
<1>7. CASE FireNext
  BY ZenonT(60), <1>7, FireNextStep
<1>8. CASE TickEnd
  BY ZenonT(60), <1>8, TickEndStep
<1>9. CASE UNCHANGED wheelVars
  <2>1. /\ nowTick' = nowTick /\ mode' = mode /\ l0' = l0 /\ l1' = l1 /\ cascade' = cascade
        /\ toFire' = toFire /\ expiry' = expiry /\ alive' = alive /\ canceled' = canceled
        /\ nextId' = nextId /\ delay' = delay /\ fired' = fired
    BY ZenonT(60), <1>9 DEF wheelVars
  <2>2. Given' = Given /\ First' = First
    BY ZenonT(60), <2>1 DEF Given, First
  <2>3. /\ \A s \in Slots : Home0(s)' = Home0(s) /\ Home1(s)' = Home1(s)
        /\ Falling' = Falling /\ DueNow' = DueNow
    BY ZenonT(60), <2>1, <2>2 DEF Home0, Home1, Falling, DueNow
  <2>4. WheelType' /\ AliveOK' /\ DueOK'
    BY ZenonT(60), <2>1, <2>2 DEF WheelInv, WheelType, AliveOK, DueOK
  <2>5. AllHome'
    BY ZenonT(60), <2>1, <2>3 DEF WheelInv, AllHome
  <2>6. AllSomewhere' /\ AllSorted' /\ EqualDelaysInOrder'
    BY ZenonT(60), <2>1 DEF WheelInv, AllSomewhere, Somewhere, AllSorted, EqualDelaysInOrder
  <2> QED
    BY ZenonT(60), <2>4, <2>5, <2>6 DEF WheelInv
<1> QED
  BY ZenonT(60), <1>1, <1>2, <1>3, <1>4, <1>5, <1>6, <1>7, <1>8, <1>9 DEF WheelNext

\* The inductive invariant holds: the clock, the slots of both levels and the two
\* slots in work stay consistent through every tick, cascade and callback.
THEOREM WheelInvHolds == WheelSpec => []WheelInv
  BY WheelInvInit, WheelInvStep, PTL DEF WheelSpec

\* Timers with equal delays fire in the order they were added, for any number of
\* slots and timers and any delays.
THEOREM EqualDelaysInOrderHolds == WheelSpec => []EqualDelaysInOrder
<1>1. WheelInv => EqualDelaysInOrder
  BY DEF WheelInv
<1> QED
  BY <1>1, WheelInvHolds, PTL

-----------------------------------------------------------------------------
(* The wheel implements exact timers.                                      *)

\* What the abstract specification sees of a timer that is alive, and of all.
Entry(n, t) == [id |-> n, due |-> t]
Entries(A, f) == {Entry(n, f[n]) : n \in A}
Armed == Entries(alive, expiry)

\* Entries are told apart by their ids.
LEMMA EntryFacts ==
  ASSUME NEW n, NEW t
  PROVE  Entry(n, t).id = n /\ Entry(n, t).due = t
  BY ZenonT(60) DEF Entry

\* One timer less is one entry less.
LEMMA OneLess ==
  ASSUME NEW A, NEW f, NEW n \in A
  PROVE  /\ Entry(n, f[n]) \in Entries(A, f)
         /\ Entries(A \ {n}, f) = Entries(A, f) \ {Entry(n, f[n])}
<1>1. \A m \in A : Entry(m, f[m]) = Entry(n, f[n]) => m = n
  <2> SUFFICES ASSUME NEW m \in A, Entry(m, f[m]) = Entry(n, f[n]) PROVE m = n
    OBVIOUS
  <2>1. Entry(m, f[m]).id = m
    BY ZenonT(60), EntryFacts
  <2>2. Entry(n, f[n]).id = n
    BY ZenonT(60), EntryFacts
  <2> QED
    BY ZenonT(60), <2>1, <2>2
<1>2. ASSUME NEW x
      PROVE  x \in Entries(A \ {n}, f) <=> x \in Entries(A, f) \ {Entry(n, f[n])}
  <2>1. CASE x \in Entries(A \ {n}, f)
    BY ZenonT(60), <1>1, <2>1 DEF Entries
  <2>2. CASE x \in Entries(A, f) \ {Entry(n, f[n])}
    BY ZenonT(60), <2>2 DEF Entries
  <2> QED
    BY ZenonT(60), <2>1, <2>2
<1>3. Entry(n, f[n]) \in Entries(A, f)
  BY ZenonT(60) DEF Entries
<1> QED
  BY ZenonT(60), <1>2, <1>3

\* Seen with the expiry that place() gave them, all timers are exact.
LEMMA AbstractStep ==
  ASSUME WheelInv, [WheelNext]_wheelVars
  PROVE  \/ /\ \E a \in Armed' \ Armed :
                 /\ Armed' = Armed \cup {a} /\ a.due > nowTick
                 /\ a.id \notin fired /\ \A b \in Armed : b.id # a.id
            /\ nowTick' = nowTick /\ fired' = fired
         \/ /\ \E a \in Armed : Armed' = Armed \ {a}
            /\ nowTick' = nowTick /\ fired' = fired
         \/ /\ \A a \in Armed : a.due > nowTick
            /\ nowTick' = nowTick + 1 /\ Armed' = Armed /\ fired' = fired
         \/ /\ \E a \in Armed : /\ a.due = nowTick /\ Armed' = Armed \ {a}
                                /\ fired' = fired \cup {a.id}
            /\ nowTick' = nowTick
         \/ nowTick' = nowTick /\ Armed' = Armed /\ fired' = fired
<1>0. /\ \A n, t : Entry(n, t).id = n /\ Entry(n, t).due = t
      /\ alive \subseteq Ids /\ alive \subseteq Given
  BY ZenonT(60), EntryFacts DEF WheelInv, AliveOK, Given
<1>1. ASSUME NEW ms \in Delays, Add(ms)
      PROVE  /\ \E a \in Armed' \ Armed :
                  /\ Armed' = Armed \cup {a} /\ a.due > nowTick
                  /\ a.id \notin fired /\ \A b \in Armed : b.id # a.id
             /\ nowTick' = nowTick /\ fired' = fired
  <2>n. PICK n \in Ids : n = nextId
    BY SMTT(60), <1>1, BoundsAssumption DEF Add, Ids, WheelInv, WheelType
  <2>k. PICK k \in Nat \ {0} : k = Reach(Ticks(ms))
    BY ZenonT(60), TicksFacts, DelaysAssumption
  <2>1. /\ nowTick' = nowTick /\ fired' = fired /\ alive' = alive \cup {n}
        /\ expiry' = [expiry EXCEPT ![n] = nowTick + k]
    <3>1. ms \in Nat /\ nowTick \in Nat
      BY ZenonT(60), DelaysAssumption DEF WheelInv, WheelType
    <3>2. Places(nextId, ms)
      BY ZenonT(60), <1>1, <3>1, AddPlaces
    <3> QED
      BY ZenonT(60), <1>1, <2>n, <2>k, <3>2 DEF Add, Places
  <2>2. n \notin Given
    BY SMTT(60), <2>n, BoundsAssumption DEF Given, Ids, WheelInv, WheelType
  <2>3. n \notin alive /\ n \notin fired
    BY ZenonT(60), <2>2 DEF WheelInv, AliveOK
  <2>4. expiry'[n] = nowTick + k /\ \A m \in alive : expiry'[m] = expiry[m]
    BY ZenonT(60), <1>0, <2>1, <2>3 DEF WheelInv, WheelType
  <2>5. expiry'[n] > nowTick
    BY SMTT(60), <2>4 DEF WheelInv, WheelType
  <2>6. PICK a : a = Entry(n, expiry'[n])
    OBVIOUS
  <2>7. Armed' = Armed \cup {a}
    BY ZenonT(60), <2>1, <2>3, <2>4, <2>6 DEF Armed, Entries
  <2>8. a.id = n /\ a.due = expiry'[n] /\ \A b \in Armed : b.id # n
    BY ZenonT(60), <1>0, <2>3, <2>6 DEF Armed, Entries
  <2>9. a \in Armed' \ Armed
    BY ZenonT(60), <2>7, <2>8
  <2> QED
    BY ZenonT(60), <2>1, <2>3, <2>5, <2>7, <2>8, <2>9
<1>2. ASSUME NEW n \in Ids, Cancel(n)
      PROVE  /\ \E a \in Armed : Armed' = Armed \ {a}
             /\ nowTick' = nowTick /\ fired' = fired
  <2>1. /\ n \in alive /\ alive' = alive \ {n} /\ expiry' = expiry /\ nowTick' = nowTick
        /\ fired' = fired
    BY ZenonT(60), <1>2 DEF Cancel
  <2>2. PICK a : a = Entry(n, expiry[n])
    OBVIOUS
  <2>3. a \in Armed /\ Armed' = Armed \ {a}
    BY ZenonT(60), <2>1, <2>2, OneLess DEF Armed
  <2> QED
    BY ZenonT(60), <2>1, <2>3
<1>3. ASSUME NEW ms \in Elapsed, AdvanceBegin(ms)
      PROVE  nowTick' = nowTick /\ Armed' = Armed /\ fired' = fired
  BY ZenonT(60), <1>3 DEF AdvanceBegin, Armed
\* Before a tick all that is alive lies in the slots, due later.
<1>4. ASSUME TickBegin
      PROVE  /\ \A a \in Armed : a.due > nowTick
             /\ nowTick' = nowTick + 1 /\ Armed' = Armed /\ fired' = fired
  <2>1. /\ mode = "step" /\ nowTick' = nowTick + 1 /\ alive' = alive /\ expiry' = expiry
        /\ fired' = fired
    BY ZenonT(60), <1>4 DEF TickBegin
  <2>2. ASSUME NEW n \in alive PROVE expiry[n] > nowTick
    <3>0. cascade = <<>> /\ toFire = <<>> /\ \A x : ~Occurs(<<>>, x)
      BY ZenonT(60), <2>1, EmptySlot DEF WheelInv, AllHome
    <3>1. PICK s \in Slots : Occurs(l0[s], n) \/ Occurs(l1[s], n)
      BY ZenonT(60), <3>0 DEF WheelInv, AllSomewhere, Somewhere
    <3>2. l0[s] \in Seq(Home0(s)) /\ l1[s] \in Seq(Home1(s))
      BY ZenonT(60) DEF WheelInv, AllHome
    <3>3. n \in Home0(s) \/ n \in Home1(s)
      BY ZenonT(60), <3>1, <3>2, SeqFacts
    <3>4. expiry[n] \in Nat /\ nowTick \in Nat
      BY ZenonT(60), <1>0 DEF WheelInv, WheelType
    <3>5. CASE n \in Home0(s)
      <4>1. nowTick + 1 <= expiry[n]
        BY ZenonT(60), <2>1, <3>5 DEF Home0, First
      <4> QED
        BY SMTT(60), <3>4, <4>1
    <3>6. CASE n \in Home1(s)
      <4>1. nowTick < expiry[n]
        BY ZenonT(60), <3>4, <3>6, LaterLap DEF Home1
      <4> QED
        BY SMTT(60), <3>4, <4>1
    <3> QED
      BY ZenonT(60), <3>3, <3>5, <3>6
  <2>3. ASSUME NEW a \in Armed PROVE a.due > nowTick
    <3>1. PICK n \in alive : a = Entry(n, expiry[n])
      BY ZenonT(60) DEF Armed, Entries
    <3>2. a.due = expiry[n]
      BY ZenonT(60), <1>0, <3>1
    <3> QED
      BY ZenonT(60), <2>2, <3>2
  <2>4. Armed' = Armed
    BY ZenonT(60), <2>1 DEF Armed
  <2> QED
    BY ZenonT(60), <2>1, <2>3, <2>4
<1>5. ASSUME CascadeNext
      PROVE  nowTick' = nowTick /\ Armed' = Armed /\ fired' = fired
  BY ZenonT(60), <1>5, CascadeKeeps DEF CascadeNext, Armed
<1>6. ASSUME FireSlot
      PROVE  nowTick' = nowTick /\ Armed' = Armed /\ fired' = fired
  BY ZenonT(60), <1>6 DEF FireSlot, Armed
\* What is taken from the slot and was not cancelled is alive and due.
<1>7. ASSUME FireNext
      PROVE  \/ /\ \E a \in Armed : /\ a.due = nowTick /\ Armed' = Armed \ {a}
                                    /\ fired' = fired \cup {a.id}
                /\ nowTick' = nowTick
             \/ nowTick' = nowTick /\ Armed' = Armed /\ fired' = fired
  <2>n. PICK n \in Ids : n = Head(toFire)
    BY ZenonT(60), <1>7, TailAt DEF FireNext, WheelInv, WheelType
  <2>1. /\ nowTick' = nowTick /\ expiry' = expiry /\ toFire # <<>>
        /\ IF n \in canceled THEN alive' = alive /\ fired' = fired
                             ELSE alive' = alive \ {n} /\ fired' = fired \cup {n}
    BY ZenonT(60), <1>7, <2>n DEF FireNext, Skipped
  <2>2. CASE n \in canceled
    BY ZenonT(60), <2>1, <2>2 DEF Armed
  <2>3. CASE n \notin canceled
    <3>1. n \in DueNow
      BY ZenonT(60), <2>n, <2>1, TailAt DEF WheelInv, AllHome
    <3>2. n \in alive /\ expiry[n] = nowTick
      BY ZenonT(60), <2>3, <3>1 DEF DueNow, WheelInv, AliveOK
    <3>3. PICK a : a = Entry(n, expiry[n])
      OBVIOUS
    <3>4. a \in Armed /\ Armed' = Armed \ {a}
      <4>1. alive' = alive \ {n} /\ expiry' = expiry /\ n \in alive
        BY ZenonT(60), <2>1, <2>3, <3>2
      <4> QED
        BY ZenonT(60), <3>3, <4>1, OneLess DEF Armed
    <3>5. a.id = n /\ a.due = nowTick
      BY ZenonT(60), <1>0, <3>2, <3>3
    <3> QED
      BY ZenonT(60), <2>1, <2>3, <3>4, <3>5
  <2> QED
    BY ZenonT(60), <2>2, <2>3
<1>8. ASSUME TickEnd
      PROVE  nowTick' = nowTick /\ Armed' = Armed /\ fired' = fired
  BY ZenonT(60), <1>8 DEF TickEnd, Armed
<1>9. ASSUME UNCHANGED wheelVars
      PROVE  nowTick' = nowTick /\ Armed' = Armed /\ fired' = fired
  BY ZenonT(60), <1>9 DEF wheelVars, Armed
<1> QED
  BY ZenonT(60), <1>1, <1>2, <1>3, <1>4, <1>5, <1>6, <1>7, <1>8, <1>9 DEF WheelNext

\* The expiry of a timer within the range of L1 is the tick it was asked for.
AskedOK ==
  /\ due \in [Ids -> Nat]
  /\ \A n \in Given \cap InRange : due[n] = expiry[n]

\* The delay of a timer that was added stays, and so does its being in range.
LEMMA RangeStays ==
  ASSUME WheelInv, [WheelNext]_wheelVars
  PROVE  /\ \A n \in Given : n \in InRange' <=> n \in InRange
         /\ alive \subseteq Given /\ fired \subseteq Given /\ Given \subseteq Ids
<1>0. alive \subseteq Given /\ fired \subseteq Given /\ Given \subseteq Ids
  BY ZenonT(60) DEF WheelInv, AliveOK, Given
<1>1. ASSUME NEW ms \in Delays, Add(ms), NEW n \in Given PROVE delay'[n] = delay[n]
  <2>1. n # nextId /\ n \in Ids
    BY SMTT(60), BoundsAssumption DEF Given, Ids, WheelInv, WheelType
  <2>2. delay' = [delay EXCEPT ![nextId] = ms]
    BY ZenonT(60), <1>1 DEF Add
  <2> QED
    BY ZenonT(60), <2>1, <2>2 DEF WheelInv, WheelType
<1>2. (~ \E ms \in Delays : Add(ms)) => delay' = delay
  BY ZenonT(60) DEF WheelNext, Cancel, AdvanceBegin, TickBegin, CascadeNext, FireSlot, FireNext,
     TickEnd, wheelVars
<1>3. \A n \in Given : delay'[n] = delay[n]
  BY ZenonT(60), <1>1, <1>2
<1>4. \A n \in Given : n \in InRange' <=> n \in InRange
  BY ZenonT(60), <1>0, <1>3 DEF InRange
<1> QED
  BY ZenonT(60), <1>0, <1>4

\* Every step keeps the expiry of a timer in range at the tick it was asked for.
LEMMA AskedStep ==
  ASSUME WheelInv, AskedOK, [WheelNext]_wheelVars
  PROVE  AskedOK'
<1>1. ASSUME NEW ms \in Delays, Add(ms) PROVE AskedOK'
  <2>n. PICK n \in Ids : n = nextId
    BY SMTT(60), <1>1, BoundsAssumption DEF Add, Ids, WheelInv, WheelType
  <2>1. ms \in Nat /\ nowTick \in Nat
    BY ZenonT(60), DelaysAssumption DEF WheelInv, WheelType
  <2>2. Places(n, ms)
    BY ZenonT(60), <1>1, <2>n, <2>1, AddPlaces
  <2>3. /\ expiry' = [expiry EXCEPT ![n] = nowTick + Reach(Ticks(ms))]
        /\ due' = [due EXCEPT ![n] = nowTick + Ticks(ms)]
        /\ delay' = [delay EXCEPT ![n] = ms]
        /\ nextId' = nextId + 1
    BY ZenonT(60), <1>1, <2>n, <2>2 DEF Add, Places
  <2>4. \A m \in Given' : m \in Given \/ m = n
    BY SMTT(60), <2>n, <2>3, BoundsAssumption DEF Given, Ids, WheelInv, WheelType
  <2>5. n \notin Given
    BY SMTT(60), <2>n, BoundsAssumption DEF Given, Ids, WheelInv, WheelType
  <2>6. \A m \in Given : m \in InRange' <=> m \in InRange
    BY ZenonT(60), RangeStays
  <2>7. ASSUME NEW m \in Given' \cap InRange' PROVE due'[m] = expiry'[m]
    <3>1. CASE m = n
      <4>1. Ticks(ms) < kSlots * kSlots
        <5>1. delay'[m] = ms
          BY ZenonT(60), <2>3, <3>1 DEF WheelInv, WheelType
        <5> QED
          BY ZenonT(60), <2>7, <5>1 DEF InRange
      <4>2. Reach(Ticks(ms)) = Ticks(ms)
        BY ZenonT(60), <4>1 DEF Reach
      <4> QED
        BY ZenonT(60), <2>3, <3>1, <4>2 DEF WheelInv, WheelType, AskedOK
    <3>2. CASE m # n
      <4>1. m \in Given \cap InRange
        BY ZenonT(60), <2>4, <2>6, <2>7, <3>2
      <4>2. due[m] = expiry[m] /\ m \in Ids
        BY ZenonT(60), <4>1 DEF AskedOK, Given
      <4> QED
        BY ZenonT(60), <2>3, <3>2, <4>2 DEF WheelInv, WheelType, AskedOK
    <3> QED
      BY ZenonT(60), <3>1, <3>2
  <2>8. due' \in [Ids -> Nat]
    <3>1. PICK k \in Nat : k = nowTick + Ticks(ms)
      BY SMTT(60), <2>1, TicksFacts
    <3> QED
      BY ZenonT(60), <2>3, <3>1 DEF AskedOK
  <2> QED
    BY ZenonT(60), <2>7, <2>8 DEF AskedOK
<1>2. ASSUME ~ \E ms \in Delays : Add(ms) PROVE AskedOK'
  <2>1. due' = due /\ delay' = delay /\ nextId' = nextId
    BY ZenonT(60), <1>2 DEF WheelNext, Cancel, AdvanceBegin, TickBegin, CascadeNext, FireSlot,
       FireNext, TickEnd, wheelVars
  <2>2. expiry' = expiry
    BY ZenonT(60), <1>2, CascadeKeeps DEF WheelNext, Cancel, AdvanceBegin, TickBegin, FireSlot,
       FireNext, TickEnd, wheelVars
  <2> QED
    BY ZenonT(60), <2>1, <2>2 DEF AskedOK, Given, InRange
<1> QED
  BY ZenonT(60), <1>1, <1>2

\* The abstract timers are the entries of the timers in range.
Part(S) == {a \in S : a.id \in InRange}

LEMMA SeenIsPart ==
  WheelInv /\ AskedOK
    => {[id |-> n, due |-> due[n]] : n \in alive \cap InRange} = Part(Armed)
<1> SUFFICES ASSUME WheelInv, AskedOK
             PROVE  {[id |-> n, due |-> due[n]] : n \in alive \cap InRange} = Part(Armed)
  OBVIOUS
<1>0. alive \subseteq Given
  BY ZenonT(60) DEF WheelInv, AliveOK
<1>1. \A n \in alive \cap InRange : due[n] = expiry[n]
  BY ZenonT(60), <1>0 DEF AskedOK
<1>2. \A n, t : Entry(n, t).id = n
  BY ZenonT(60), EntryFacts
<1>3. \A a : a \in {[id |-> n, due |-> due[n]] : n \in alive \cap InRange}
             <=> \E n \in alive \cap InRange : a = Entry(n, expiry[n])
  BY ZenonT(60), <1>1 DEF Entry
<1>4. \A a : a \in Part(Armed) <=> \E n \in alive \cap InRange : a = Entry(n, expiry[n])
  <2>1. \A a : a \in Armed <=> \E n \in alive : a = Entry(n, expiry[n])
    BY ZenonT(60) DEF Armed, Entries
  <2>2. \A a : a \in Part(Armed) <=> a \in Armed /\ a.id \in InRange
    BY ZenonT(60) DEF Part
  <2>3. ASSUME NEW a, NEW n \in alive, a = Entry(n, expiry[n]) PROVE a.id = n
    <3>1. Entry(n, expiry[n]).id = n
      BY ZenonT(60), <1>2
    <3> QED
      BY ZenonT(60), <2>3, <3>1
  <2>4. ASSUME NEW a, a \in Part(Armed)
        PROVE  \E n \in alive \cap InRange : a = Entry(n, expiry[n])
    <3>1. PICK n \in alive : a = Entry(n, expiry[n])
      BY ZenonT(60), <2>1, <2>2, <2>4
    <3>2. a.id = n
      BY ZenonT(60), <2>3, <3>1
    <3>3. n \in InRange
      BY ZenonT(60), <2>2, <2>4, <3>2
    <3> QED
      BY ZenonT(60), <3>1, <3>3
  <2>5. ASSUME NEW a, NEW n \in alive \cap InRange, a = Entry(n, expiry[n])
        PROVE  a \in Part(Armed)
    <3>1. a.id = n
      BY ZenonT(60), <2>3, <2>5
    <3>2. a.id \in InRange
      BY ZenonT(60), <3>1
    <3> QED
      BY ZenonT(60), <2>1, <2>2, <2>5, <3>2
  <2> QED
    BY ZenonT(60), <2>4, <2>5
<1> QED
  BY ZenonT(60), <1>3, <1>4

\* The same after a step.
LEMMA SeenIsPartNext ==
  (WheelInv /\ AskedOK
    => {[id |-> n, due |-> due[n]] : n \in alive \cap InRange} = Part(Armed))'
  BY SeenIsPart, PTL

\* A step on a timer in range is a step of the abstract specification; one on a
\* timer beyond it leaves the abstract specification as it is.
LEMMA PartStep ==
  ASSUME WheelInv, [WheelNext]_wheelVars
  PROVE  \/ /\ \E a \in Part(Armed)' \ Part(Armed) :
                 /\ Part(Armed)' = Part(Armed) \cup {a} /\ a.due > nowTick
                 /\ a.id \notin fired \cap InRange /\ \A b \in Part(Armed) : b.id # a.id
            /\ nowTick' = nowTick /\ (fired \cap InRange)' = fired \cap InRange
         \/ /\ \E a \in Part(Armed) : Part(Armed)' = Part(Armed) \ {a}
            /\ nowTick' = nowTick /\ (fired \cap InRange)' = fired \cap InRange
         \/ /\ \A a \in Part(Armed) : a.due > nowTick
            /\ nowTick' = nowTick + 1 /\ Part(Armed)' = Part(Armed)
            /\ (fired \cap InRange)' = fired \cap InRange
         \/ /\ \E a \in Part(Armed) :
                 /\ a.due = nowTick /\ Part(Armed)' = Part(Armed) \ {a}
                 /\ (fired \cap InRange)' = (fired \cap InRange) \cup {a.id}
            /\ nowTick' = nowTick
         \/ /\ nowTick' = nowTick /\ Part(Armed)' = Part(Armed)
            /\ (fired \cap InRange)' = fired \cap InRange
<1>1. /\ \A n \in Given : n \in InRange' <=> n \in InRange
      /\ fired \subseteq Given
  BY ZenonT(60), RangeStays
<1>2. \A a \in Armed : a.id \in Given
  <2> SUFFICES ASSUME NEW a \in Armed PROVE a.id \in Given
    OBVIOUS
  <2>1. PICK n \in alive : a = Entry(n, expiry[n])
    BY ZenonT(60) DEF Armed, Entries
  <2>2. Entry(n, expiry[n]).id = n /\ n \in Given
    BY ZenonT(60), RangeStays, EntryFacts
  <2>3. a.id = n
    BY ZenonT(60), <2>1, <2>2
  <2> QED
    BY ZenonT(60), <2>2, <2>3
<1>3. \A a \in Armed : a.id \in InRange' <=> a.id \in InRange
  BY ZenonT(60), <1>1, <1>2
<1>4. fired' = fired => (fired \cap InRange)' = fired \cap InRange
  BY ZenonT(60), <1>1
<1>5. Armed' = Armed => Part(Armed)' = Part(Armed)
  BY ZenonT(60), <1>3 DEF Part
<1>6. ASSUME NEW a \in Armed' \ Armed, Armed' = Armed \cup {a}
      PROVE  IF a.id \in InRange'
               THEN Part(Armed)' = Part(Armed) \cup {a} /\ a \in Part(Armed)' \ Part(Armed)
               ELSE Part(Armed)' = Part(Armed)
  BY ZenonT(60), <1>3, <1>6 DEF Part
<1>7. ASSUME NEW a \in Armed, Armed' = Armed \ {a}
      PROVE  IF a.id \in InRange
               THEN Part(Armed)' = Part(Armed) \ {a} /\ a \in Part(Armed)
               ELSE Part(Armed)' = Part(Armed)
  BY ZenonT(60), <1>3, <1>7 DEF Part
<1>8. ASSUME NEW a \in Armed, fired' = fired \cup {a.id}
      PROVE  IF a.id \in InRange
               THEN (fired \cap InRange)' = (fired \cap InRange) \cup {a.id}
               ELSE (fired \cap InRange)' = fired \cap InRange
  BY ZenonT(60), <1>1, <1>3, <1>8
<1>9. \A b \in Part(Armed) : b \in Armed
  BY ZenonT(60) DEF Part
<1>10. CASE /\ \E a \in Armed' \ Armed :
                 /\ Armed' = Armed \cup {a} /\ a.due > nowTick
                 /\ a.id \notin fired /\ \A b \in Armed : b.id # a.id
            /\ nowTick' = nowTick /\ fired' = fired
  BY ZenonT(60), <1>4, <1>6, <1>9, <1>10
<1>11. CASE /\ \E a \in Armed : Armed' = Armed \ {a}
            /\ nowTick' = nowTick /\ fired' = fired
  BY ZenonT(60), <1>4, <1>7, <1>11
<1>12. CASE /\ \A a \in Armed : a.due > nowTick
            /\ nowTick' = nowTick + 1 /\ Armed' = Armed /\ fired' = fired
  BY ZenonT(60), <1>4, <1>5, <1>9, <1>12
<1>13. CASE /\ \E a \in Armed : /\ a.due = nowTick /\ Armed' = Armed \ {a}
                                /\ fired' = fired \cup {a.id}
            /\ nowTick' = nowTick
  BY ZenonT(60), <1>7, <1>8, <1>13
<1>14. CASE nowTick' = nowTick /\ Armed' = Armed /\ fired' = fired
  BY ZenonT(60), <1>4, <1>5, <1>14
<1> QED
  BY ZenonT(60), <1>10, <1>11, <1>12, <1>13, <1>14, AbstractStep

\* For any number of slots per level, any length of a tick and any delays, the wheel
\* implements Timers for the timers within the range of L1: advance() fires them at
\* the tick they were asked for and at no other, once, unless cancel() comes first,
\* whatever timers beyond the range lie in the same slots.
THEOREM ImplementsTimersHolds == WheelSpec => ImplementsTimers
<1>1. WheelInit => Abstract!Init
  BY ZenonT(60) DEF WheelInit, Abstract!Init
<1>2. WheelInit => AskedOK
  BY SMTT(60), BoundsAssumption DEF WheelInit, AskedOK, Given, Ids
<1>3. WheelInv /\ WheelInv' /\ AskedOK /\ AskedOK' /\ [WheelNext]_wheelVars
      => [Abstract!Next]_(Abstract!vars)
  <2> SUFFICES ASSUME WheelInv, WheelInv', AskedOK, AskedOK', [WheelNext]_wheelVars
               PROVE  [Abstract!Next]_(Abstract!vars)
    OBVIOUS
  <2>1. {[id |-> n, due |-> due[n]] : n \in alive \cap InRange} = Part(Armed)
    BY ZenonT(60), SeenIsPart
  <2>2. ({[id |-> n, due |-> due[n]] : n \in alive \cap InRange} = Part(Armed))'
    BY ZenonT(60), SeenIsPartNext
  <2> QED
    BY ZenonT(60), <2>1, <2>2, PartStep DEF Abstract!Next, Abstract!vars, Abstract!Add,
       Abstract!Cancel, Abstract!Tick, Abstract!Fire
<1>4. WheelInv /\ AskedOK /\ [WheelNext]_wheelVars => AskedOK'
  BY AskedStep
<1> QED
  BY <1>1, <1>2, <1>3, <1>4, WheelInvHolds, PTL DEF WheelSpec, ImplementsTimers, Abstract!Spec
=============================================================================
