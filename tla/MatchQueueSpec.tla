--------------------------- MODULE MatchQueueSpec ---------------------------
(***************************************************************************)
(* The methods of MatchQueue called in any order.  ahead is the queue as   *)
(* the header describes it: who of the waiting players was pushed before   *)
(* whom.  left holds the players that were ever removed, and got the last  *)
(* pair popPair returned.                                                  *)
(***************************************************************************)
EXTENDS MatchQueue

CONSTANTS
  Players,   \* player ids
  MaxOrder   \* bound: no push when order_ is this long

ASSUME PlayersAssumption == IsFiniteSet(Players)
ASSUME MaxOrderAssumption == MaxOrder \in Nat

VARIABLES queue, ahead, left, got
queueVars == <<queue, ahead, left, got>>

\* order_ is a sequence of players and waiting_ a set of players; the other
\* variables have the types that follow from that.
QueueTypeOK ==
  /\ queue \in [order : Seq(Players), waiting : SUBSET Players]
  /\ ahead \subseteq Players \X Players
  /\ left \subseteq Players
  /\ got \in Seq(Players)

QueueInit ==
  /\ queue = EmptyQueue
  /\ ahead = {}
  /\ left = {}
  /\ got = <<>>

\* The places of those who still wait.
Places(waiting) == ahead \cap (waiting \X waiting)

\* push(p) that is not refused: behind everybody who waits.
DoPush(p) ==
  /\ ~Contains(queue, p)
  /\ Len(queue.order) < MaxOrder
  /\ queue' = Push(queue, p)
  /\ ahead' = ahead \cup (queue.waiting \X {p})
  /\ UNCHANGED <<left, got>>

\* remove(p) of a waiting player.
DoRemove(p) ==
  /\ Contains(queue, p)
  /\ queue' = Remove(queue, p)
  /\ ahead' = Places(Remove(queue, p).waiting)
  /\ left' = left \cup {p}
  /\ UNCHANGED got

\* popPair(), which compacts even when it returns nothing.
DoPopPair ==
  /\ queue' = PopPair(queue)
  /\ ahead' = Places(PopPair(queue).waiting)
  /\ got' = IF PairReady(Compact(queue)) THEN Pair(queue) ELSE got
  /\ UNCHANGED left

QueueNext ==
  \/ \E p \in Players : DoPush(p) \/ DoRemove(p)
  \/ DoPopPair

QueueSpec == QueueInit /\ [][QueueNext]_queueVars

-----------------------------------------------------------------------------

\* Every waiting player has an entry in order_, however many leftovers of
\* earlier waits lie around it: takeFront never runs off the deque and nobody
\* who waits is forgotten.
WaitingIsQueued ==
  \A p \in queue.waiting : \E i \in DOMAIN queue.order : queue.order[i] = p

\* popPair returns two different players, both waiting until then and neither
\* afterwards, although order_ may hold the same player twice.
PopTakesTwoWaiting ==
  [][DoPopPair /\ Cardinality(queue.waiting) >= 2
       => /\ {got'[1], got'[2]} \subseteq queue.waiting
          /\ got'[1] # got'[2]
          /\ queue'.waiting = queue.waiting \ {got'[1], got'[2]}]_queueVars

\* A waiting player is overtaken only by one who left the queue and came back:
\* among players who stay, popPair pairs in order of arrival.  (One who comes
\* back may: a leftover of the earlier wait gives back the old place.)
OvertakenOnlyByRejoiners ==
  [][\A x \in queue.waiting \ queue'.waiting, y \in queue.waiting \cap queue'.waiting :
       <<y, x>> \in ahead => x \in left']_queueVars
=============================================================================
