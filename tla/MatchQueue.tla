----------------------------- MODULE MatchQueue -----------------------------
(***************************************************************************)
(* The matchmaking queue of src/src/game/MatchQueue.h.  The class holds a  *)
(* deque order_ (who came first) and a set waiting_ (who is queued).       *)
(* remove() only takes the player out of waiting_; what it leaves behind   *)
(* in order_ is dropped from the front by compact().                       *)
(*                                                                         *)
(* The class is pure data used by one thread, so the module has no         *)
(* variables: a queue is a record [order, waiting], and each method is an  *)
(* operator from queues to queues.  GameServer keeps one queue in its      *)
(* state; MatchQueueSpec drives the methods on their own.                  *)
(***************************************************************************)
EXTENDS Naturals, Sequences, FiniteSets

\* An empty queue: no order_ entry, nobody waiting_.
EmptyQueue == [order |-> <<>>, waiting |-> {}]

\* contains(): only the set decides.
Contains(q, p) == p \in q.waiting

\* Mutant: a player who joins goes to the front.
PushFront(q, p) ==
  [order |-> IF Contains(q, p) THEN q.order ELSE <<p>> \o q.order,
   waiting |-> q.waiting \cup {p}]

\* push(): refused (the queue is unchanged) if the player already waits.
Push(q, p) ==
  IF Contains(q, p)
    THEN q
    ELSE [order |-> Append(q.order, p), waiting |-> q.waiting \cup {p}]

\* Mutant: the player is left waiting.
RemoveNot(q, p) == q

\* remove(): lazy, the entry in order_ stays.
Remove(q, p) == [q EXCEPT !.waiting = @ \ {p}]

\* The positions of order_ whose player still waits.
LivePositions(q) == {i \in DOMAIN q.order : q.order[i] \in q.waiting}

\* Mutants: leftovers stay; the front goes even if it waits.
CompactNot(q) == q
CompactFront(q) == IF q.order = <<>> THEN q ELSE [q EXCEPT !.order = Tail(@)]

\* compact(): pop the front while it is a leftover.
Compact(q) ==
  [q EXCEPT !.order =
     IF LivePositions(q) = {}
       THEN <<>>
       ELSE LET first == CHOOSE i \in LivePositions(q) :
                           \A j \in LivePositions(q) : i <= j
            IN  SubSeq(q.order, first, Len(q.order))]

\* takeFront(): compact, then pop the front and stop its waiting.  Front is the
\* player it returns, TakeFront the queue it leaves.
Front(q) == Head(Compact(q).order)

TakeFront(q) ==
  LET c == Compact(q)
  IN  [order |-> Tail(c.order), waiting |-> c.waiting \ {Head(c.order)}]

\* popPair() returns a pair exactly when two players wait: PairReady is its test,
\* Pair the pair it returns and PopPair the queue it leaves.  The first compact()
\* has happened in every case.
PairReady(q) == Cardinality(q.waiting) >= 2

Pair(q) ==
  LET c == Compact(q)
  IN  <<Front(c), Front(TakeFront(c))>>

PopPair(q) ==
  LET c == Compact(q)
  IN  IF PairReady(c) THEN TakeFront(TakeFront(c)) ELSE c
=============================================================================
