---------------------------- MODULE QueueLemmas -----------------------------
(***************************************************************************)
(* Facts about sequences that the proofs share.  Of the FIFOs of the       *)
(* project: where the elements are after a push or a pop, what occurs,     *)
(* what occurs once, what comes first; what replaces induction over the    *)
(* naturals, a least counterexample; and what the operators of MatchQueue  *)
(* do.                                                                     *)
(*                                                                         *)
(* EventLoop and AsyncWriter keep three sequences: a, what has run; b, the *)
(* rest of the batch that is being run; c, what waits for the next swap.   *)
(* Their concatenation is the history.                                     *)
(***************************************************************************)
EXTENDS MatchQueue, Integers, SequenceTheorems, FiniteSetTheorems, WellFoundedInduction, TLAPS

\* Pushing a task at the end of c appends it to the history.
LEMMA PushAppends ==
  ASSUME NEW S, NEW a \in Seq(S), NEW b \in Seq(S), NEW c \in Seq(S), NEW t \in S
  PROVE  a \o b \o Append(c, t) = Append(a \o b \o c, t)
<1>1. a \o b \in Seq(S) /\ a \o b \o c \in Seq(S) /\ <<t>> \in Seq(S)
  BY ConcatProperties
<1>2. Append(c, t) = c \o <<t>> /\ Append(a \o b \o c, t) = a \o b \o c \o <<t>>
  BY SMTT(60), <1>1, AppendIsConcat
<1>3. (a \o b) \o (c \o <<t>>) = ((a \o b) \o c) \o <<t>>
  BY SMTT(60), <1>1, ConcatAssociative
<1> QED
  BY SMTT(60), <1>2, <1>3

\* Running the head of the batch b moves it to the end of a.
LEMMA HeadMoves ==
  ASSUME NEW S, NEW a \in Seq(S), NEW b \in Seq(S), b # <<>>
  PROVE  Append(a, Head(b)) \o Tail(b) = a \o b
<1>1. Head(b) \in S /\ Tail(b) \in Seq(S) /\ <<Head(b)>> \in Seq(S)
  BY HeadTailProperties
<1>2. Append(a, Head(b)) = a \o <<Head(b)>>
  BY <1>1, AppendIsConcat
<1>3. (a \o <<Head(b)>>) \o Tail(b) = a \o (<<Head(b)>> \o Tail(b))
  BY SMTT(60), <1>1, ConcatAssociative
<1>4. <<Head(b)>> \o Tail(b) = b
  OBVIOUS
<1> QED
  BY <1>2, <1>3, <1>4

\* The history of k pushes, extended by push k + 1.
LEMMA HistoryGrows ==
  ASSUME NEW k \in Nat
  PROVE  Append([n \in 1..k |-> n], k + 1) = [n \in 1..(k + 1) |-> n]
<1> DEFINE h(j) == [n \in 1..j |-> n]
<1>1. \A j \in Nat : h(j) \in Seq(Nat) /\ Len(h(j)) = j /\ \A n \in 1..j : h(j)[n] = n
  OBVIOUS
<1> HIDE DEF h
<1>2. ASSUME NEW s \in Seq(Nat), Len(s) = k, \A n \in 1..k : s[n] = n
      PROVE  /\ Append(s, k + 1) \in Seq(Nat) /\ Len(Append(s, k + 1)) = k + 1
             /\ \A n \in 1..(k + 1) : Append(s, k + 1)[n] = n
  BY <1>2
<1>3. \A n \in 1..(k + 1) : Append(h(k), k + 1)[n] = h(k + 1)[n]
  BY SMTT(60), <1>1, <1>2
<1>4. Append(h(k), k + 1) = h(k + 1)
  BY SMTT(60), <1>1, <1>2, <1>3, SeqEqual
<1> QED
  BY <1>4 DEF h

-----------------------------------------------------------------------------
\* Where the elements are after one more was pushed.
LEMMA AppendAt ==
  ASSUME NEW S, NEW q \in Seq(S), NEW t \in S
  PROVE  /\ Append(q, t) \in Seq(S) /\ Append(q, t) # <<>>
         /\ Len(q) + 1 \in DOMAIN Append(q, t)
         /\ Append(q, t)[Len(q) + 1] = t
         /\ \A i \in DOMAIN q : /\ i \in DOMAIN Append(q, t)
                                /\ Append(q, t)[i] = q[i]
                                /\ i < Len(q) + 1 /\ ~(Len(q) + 1 < i)
         /\ \A i \in DOMAIN Append(q, t) : i \in DOMAIN q \/ i = Len(q) + 1
  BY SMTT(60)

\* Where they are after the first one was taken.
LEMMA TailAt ==
  ASSUME NEW S, NEW q \in Seq(S), q # <<>>
  PROVE  /\ Head(q) \in S /\ Tail(q) \in Seq(S)
         /\ 1 \in DOMAIN q /\ q[1] = Head(q)
         /\ \A i \in DOMAIN q : ~(i < 1)
         /\ \A i \in DOMAIN Tail(q) : i + 1 \in DOMAIN q /\ Tail(q)[i] = q[i + 1]
         /\ \A i \in DOMAIN q : i = 1 \/ \E k \in DOMAIN Tail(q) : i = k + 1
         /\ \A i \in DOMAIN Tail(q) : 1 < i + 1
         /\ \A i, k \in DOMAIN Tail(q) : i < k <=> i + 1 < k + 1
<1>1. /\ Head(q) \in S /\ Tail(q) \in Seq(S)
      /\ 1 \in DOMAIN q /\ q[1] = Head(q)
      /\ \A i \in DOMAIN q : ~(i < 1)
      /\ \A i \in DOMAIN Tail(q) : i + 1 \in DOMAIN q /\ Tail(q)[i] = q[i + 1]
      /\ \A i \in DOMAIN Tail(q) : 1 < i + 1
      /\ \A i, k \in DOMAIN Tail(q) : i < k <=> i + 1 < k + 1
  BY SMTT(60)
<1>2. ASSUME NEW i \in DOMAIN q, i # 1
      PROVE  \E k \in DOMAIN Tail(q) : i = k + 1
  <2>1. /\ DOMAIN q = 1..Len(q) /\ Len(q) \in Nat
        /\ DOMAIN Tail(q) = 1..(Len(q) - 1)
    BY SMTT(60)
  <2>2. i - 1 \in DOMAIN Tail(q) /\ i = (i - 1) + 1
    BY SMTT(60), <1>2, <2>1
  <2> QED
    BY ZenonT(60), <2>2
<1> QED
  BY ZenonT(60), <1>1, <1>2

-----------------------------------------------------------------------------
(* Occurrences.                                                            *)

\* x is on q; at most once; every x is ahead of every y.
Occurs(q, x) == \E i \in DOMAIN q : q[i] = x
Once(q, x) == \A i, j \in DOMAIN q : q[i] = x /\ q[j] = x => i = j
Ahead(q, x, y) == \A i, j \in DOMAIN q : q[i] = x /\ q[j] = y => i < j

\* A push adds its element.
LEMMA OccursAppend ==
  ASSUME NEW S, NEW q \in Seq(S), NEW t \in S, NEW x
  PROVE  Occurs(Append(q, t), x) <=> Occurs(q, x) \/ t = x
<1> DEFINE a == Append(q, t)
           n == Len(q) + 1
<1>1. /\ n \in DOMAIN a /\ a[n] = t
      /\ \A i \in DOMAIN q : i \in DOMAIN a /\ a[i] = q[i]
      /\ \A i \in DOMAIN a : i \in DOMAIN q \/ i = n
  BY ZenonT(60), AppendAt
<1> HIDE DEF a, n
<1>2. Occurs(a, x) => Occurs(q, x) \/ t = x
  BY ZenonT(60), <1>1 DEF Occurs
<1>3. Occurs(q, x) \/ t = x => Occurs(a, x)
  BY ZenonT(60), <1>1 DEF Occurs
<1> QED
  BY ZenonT(60), <1>2, <1>3 DEF a

\* A pop removes the head only.
LEMMA OccursTail ==
  ASSUME NEW S, NEW q \in Seq(S), q # <<>>, NEW x
  PROVE  Occurs(q, x) <=> Occurs(Tail(q), x) \/ Head(q) = x
<1> DEFINE a == Tail(q)
<1>1. /\ 1 \in DOMAIN q /\ q[1] = Head(q)
      /\ \A i \in DOMAIN a : i + 1 \in DOMAIN q /\ a[i] = q[i + 1]
      /\ \A i \in DOMAIN q : i = 1 \/ \E k \in DOMAIN a : i = k + 1
  BY ZenonT(60), TailAt
<1> HIDE DEF a
<1>2. Occurs(q, x) => Occurs(a, x) \/ Head(q) = x
  BY ZenonT(60), <1>1 DEF Occurs
<1>3. Occurs(a, x) \/ Head(q) = x => Occurs(q, x)
  BY ZenonT(60), <1>1 DEF Occurs
<1> QED
  BY ZenonT(60), <1>2, <1>3 DEF a

\* What does not occur may be pushed and then occurs once.
LEMMA OnceAppend ==
  ASSUME NEW S, NEW q \in Seq(S), NEW t \in S, NEW x, Once(q, x), t = x => ~Occurs(q, x)
  PROVE  Once(Append(q, t), x)
<1> DEFINE a == Append(q, t)
           n == Len(q) + 1
<1>1. /\ n \in DOMAIN a /\ a[n] = t
      /\ \A i \in DOMAIN q : i \in DOMAIN a /\ a[i] = q[i]
      /\ \A i \in DOMAIN a : i \in DOMAIN q \/ i = n
  BY ZenonT(60), AppendAt
<1> HIDE DEF a, n
<1>2. ASSUME NEW i \in DOMAIN a, NEW j \in DOMAIN a, a[i] = x, a[j] = x
      PROVE  i = j
  BY ZenonT(60), <1>1, <1>2 DEF Once, Occurs
<1> QED
  BY ZenonT(60), <1>2 DEF Once, a

\* Two ways to push safely: what is not there yet ...
LEMMA OnceFresh ==
  ASSUME NEW S, NEW q \in Seq(S), NEW t \in S, ~Occurs(q, t)
  PROVE  \A x : Once(q, x) => Once(Append(q, t), x)
<1> SUFFICES ASSUME NEW x, Once(q, x) PROVE Once(Append(q, t), x)
  OBVIOUS
<1>1. t = x => ~Occurs(q, x)
  BY ZenonT(60)
<1> QED
  BY ZenonT(60), <1>1, OnceAppend

\* ... or something else.
LEMMA OnceOther ==
  ASSUME NEW S, NEW q \in Seq(S), NEW t \in S, NEW x, t # x, Once(q, x)
  PROVE  Once(Append(q, t), x)
  BY ZenonT(60), OnceAppend

\* After the head is taken, what occurred once occurs once, and the head no more.
LEMMA OnceTail ==
  ASSUME NEW S, NEW q \in Seq(S), q # <<>>, NEW x, Once(q, x)
  PROVE  Once(Tail(q), x) /\ (Head(q) = x => ~Occurs(Tail(q), x))
<1> DEFINE a == Tail(q)
<1>1. /\ 1 \in DOMAIN q /\ q[1] = Head(q)
      /\ \A i \in DOMAIN a : i + 1 \in DOMAIN q /\ a[i] = q[i + 1]
      /\ \A i \in DOMAIN a : i + 1 # 1
      /\ \A i, j \in DOMAIN a : i + 1 = j + 1 => i = j
  <2>1. DOMAIN a \subseteq Nat \ {0}
    BY SMTT(60)
  <2>2. \A i \in DOMAIN a : i + 1 # 1
    BY SMTT(60), <2>1
  <2>3. \A i, j \in DOMAIN a : i + 1 = j + 1 => i = j
    BY SMTT(60), <2>1
  <2> QED
    BY ZenonT(60), <2>2, <2>3, TailAt
<1> HIDE DEF a
<1>2. Once(a, x)
  BY ZenonT(60), <1>1 DEF Once
<1>3. Head(q) = x => ~Occurs(a, x)
  BY ZenonT(60), <1>1 DEF Once, Occurs
<1> QED
  BY ZenonT(60), <1>2, <1>3 DEF a

\* A push keeps every x ahead of every y, unless it is an x behind a y.
LEMMA AheadAppend ==
  ASSUME NEW S, NEW q \in Seq(S), NEW t \in S, NEW x, NEW y,
         Ahead(q, x, y), x # y, t = x => ~Occurs(q, y)
  PROVE  Ahead(Append(q, t), x, y)
<1> DEFINE a == Append(q, t)
           n == Len(q) + 1
<1>1. /\ a[n] = t
      /\ \A i \in DOMAIN q : a[i] = q[i] /\ i < n
      /\ \A i \in DOMAIN a : i \in DOMAIN q \/ i = n
  BY ZenonT(60), AppendAt
<1> HIDE DEF a, n
<1>2. Ahead(a, x, y)
  BY ZenonT(60), <1>1 DEF Ahead, Occurs
<1> QED
  BY ZenonT(60), <1>2 DEF a

\* So does a pop; and when a y is popped there was no x.
LEMMA AheadTail ==
  ASSUME NEW S, NEW q \in Seq(S), q # <<>>, NEW x, NEW y, Ahead(q, x, y)
  PROVE  /\ Ahead(Tail(q), x, y)
         /\ Head(q) = y => ~Occurs(q, x)
<1> DEFINE a == Tail(q)
<1>1. /\ 1 \in DOMAIN q /\ q[1] = Head(q)
      /\ \A i \in DOMAIN q : ~(i < 1)
      /\ \A i \in DOMAIN a : i + 1 \in DOMAIN q /\ a[i] = q[i + 1]
      /\ \A i, k \in DOMAIN a : i < k <=> i + 1 < k + 1
  BY ZenonT(60), TailAt
<1> HIDE DEF a
<1>2. Ahead(a, x, y)
  BY ZenonT(60), <1>1 DEF Ahead
<1>3. Head(q) = y => ~Occurs(q, x)
  BY ZenonT(60), <1>1 DEF Ahead, Occurs
<1> QED
  BY ZenonT(60), <1>2, <1>3 DEF a

-----------------------------------------------------------------------------
(* What replaces induction over the naturals.                              *)

\* A nonempty set of naturals has a least element.
LEMMA LeastNat ==
  ASSUME NEW S \in SUBSET Nat, S # {}
  PROVE  \E i \in S : \A j \in S : i <= j
<1>1. PICK i \in S : \A j \in S : ~(<<j, i>> \in OpToRel(<, Nat))
  BY WFMin, NatLessThanWellFounded, Zenon
<1>2. \A j \in S : ~(j < i)
  BY <1>1, Zenon DEF OpToRel
<1> QED
  BY <1>2

-----------------------------------------------------------------------------
(* The operators of MatchQueue.                                            *)

\* A queue of the players P.
QueueOf(P) == [order : Seq(P), waiting : SUBSET P]

\* Every waiting player of q has an entry in its order.
Queued(q) == \A p \in q.waiting : \E i \in DOMAIN q.order : q.order[i] = p

\* compact() keeps the waiting players, and puts one of them at the front.
LEMMA CompactFacts ==
  ASSUME NEW P, NEW q \in QueueOf(P), Queued(q)
  PROVE  /\ Compact(q) \in QueueOf(P)
         /\ Compact(q).waiting = q.waiting
         /\ Queued(Compact(q))
         /\ q.waiting # {} => /\ Compact(q).order # <<>>
                              /\ Head(Compact(q).order) \in q.waiting
<1> DEFINE live == LivePositions(q)
<1>1. /\ q.order \in Seq(P) /\ q.waiting \subseteq P
      /\ Len(q.order) \in Nat /\ DOMAIN q.order = 1..Len(q.order)
  BY DEF QueueOf
<1>2. live \subseteq 1..Len(q.order)
  BY <1>1 DEF LivePositions
<1>3. CASE live = {}
  <2>1. Compact(q) = [q EXCEPT !.order = <<>>]
    BY <1>3 DEF Compact
  <2>2. q.waiting = {}
    BY <1>3 DEF LivePositions, Queued
  <2>3. <<>> \in Seq(P)
    OBVIOUS
  <2>4. Compact(q).order = <<>> /\ Compact(q).waiting = q.waiting
        /\ Compact(q) \in QueueOf(P)
    BY Zenon, <1>1, <2>1, <2>3 DEF QueueOf
  <2> QED
    BY <2>2, <2>4 DEF Queued
<1>4. CASE live # {}
  <2> DEFINE first == CHOOSE i \in live : \A j \in live : i <= j
  <2>1. first \in live /\ \A j \in live : first <= j
    <3>1. \E i \in live : \A j \in live : i <= j
      BY <1>2, <1>4, LeastNat
    <3> QED
      BY <3>1
  <2> DEFINE o == SubSeq(q.order, first, Len(q.order))
  <2>2. Compact(q) = [q EXCEPT !.order = o]
    BY Zenon, <1>4 DEF Compact
  <2>3. first \in 1..Len(q.order) /\ q.order[first] \in q.waiting
    BY Zenon, <1>2, <2>1 DEF LivePositions
  <2> HIDE DEF first
  <2>4. /\ o \in Seq(P) /\ Len(o) = Len(q.order) - first + 1
        /\ \A i \in 1..(Len(q.order) - first + 1) : o[i] = q.order[first + i - 1]
    BY <1>1, <2>3
  <2> HIDE DEF o
  <2>5. o # <<>> /\ Head(o) = q.order[first]
    <3>1. Len(o) >= 1
      BY <1>1, <2>3, <2>4
    <3>2. o # <<>>
      BY <2>4, <3>1, EmptySeq
    <3>3. Head(o) = o[1]
      BY <2>4, <3>2
    <3> QED
      BY SMTT(60), <1>1, <2>3, <2>4, <3>2, <3>3
  <2>6. ASSUME NEW p \in q.waiting
        PROVE  \E i \in DOMAIN o : o[i] = p
    <3>1. PICK i \in live : q.order[i] = p
      BY <1>1 DEF Queued, LivePositions
    <3>2. i \in first..Len(q.order)
      BY SMTT(60), <1>1, <1>2, <2>1, <2>3, <3>1
    <3>3. i - first + 1 \in 1..Len(o) /\ o[i - first + 1] = p
      BY SMTT(60), <1>1, <2>3, <2>4, <3>1, <3>2
    <3> QED
      BY <3>3, <2>4
  <2>7. Compact(q).order = o /\ Compact(q).waiting = q.waiting /\ Compact(q) \in QueueOf(P)
    BY <1>1, <2>2, <2>4 DEF QueueOf
  <2> QED
    BY <2>3, <2>5, <2>6, <2>7 DEF Queued
<1> QED
  BY <1>3, <1>4

\* takeFront() returns a waiting player, who stops waiting, and keeps the rest.
LEMMA TakeFrontFacts ==
  ASSUME NEW P, NEW q \in QueueOf(P), Queued(q), q.waiting # {}
  PROVE  /\ Front(q) \in q.waiting
         /\ TakeFront(q) \in QueueOf(P)
         /\ TakeFront(q).waiting = q.waiting \ {Front(q)}
         /\ Queued(TakeFront(q))
<1> DEFINE c == Compact(q)
<1>1. /\ c \in QueueOf(P) /\ c.waiting = q.waiting /\ Queued(c)
      /\ c.order # <<>> /\ Head(c.order) \in q.waiting
  BY CompactFacts
<1>2. Front(q) = Head(c.order)
  BY DEF Front
<1>3. /\ TakeFront(q).order = Tail(c.order)
      /\ TakeFront(q).waiting = c.waiting \ {Head(c.order)}
      /\ TakeFront(q) = [order |-> Tail(c.order), waiting |-> c.waiting \ {Head(c.order)}]
  BY DEF TakeFront
<1> HIDE DEF c
<1>4. /\ c.order \in Seq(P) /\ c.waiting \subseteq P
      /\ Len(c.order) \in Nat /\ DOMAIN c.order = 1..Len(c.order)
      /\ Head(c.order) = c.order[1]
      /\ Tail(c.order) \in Seq(P) /\ Len(Tail(c.order)) = Len(c.order) - 1
      /\ DOMAIN Tail(c.order) = 1..(Len(c.order) - 1)
      /\ \A i \in 1..(Len(c.order) - 1) : Tail(c.order)[i] = c.order[i + 1]
  BY <1>1 DEF QueueOf
<1>5. ASSUME NEW p \in c.waiting, p # Head(c.order)
      PROVE  \E i \in DOMAIN Tail(c.order) : Tail(c.order)[i] = p
  <2>1. PICK i \in 1..Len(c.order) : c.order[i] = p
    BY SMTT(60), <1>1, <1>4 DEF Queued
  <2>2. i # 1
    BY <1>4, <1>5, <2>1
  <2>3. i - 1 \in 1..(Len(c.order) - 1) /\ Tail(c.order)[i - 1] = p
    BY SMTT(60), <1>4, <2>1, <2>2
  <2> QED
    BY Zenon, <1>4, <2>3
<1>6. Queued(TakeFront(q))
  BY SMTT(60), <1>3, <1>5 DEF Queued
<1>7. TakeFront(q) \in QueueOf(P)
  BY SMTT(60), <1>3, <1>4 DEF QueueOf
<1> QED
  BY SMTT(60), <1>1, <1>2, <1>3, <1>6, <1>7

\* popPair() on two or more waiting players returns two of them, different from
\* each other, and exactly these stop waiting.
LEMMA PopPairFacts ==
  ASSUME NEW P, NEW q \in QueueOf(P), Queued(q), IsFiniteSet(q.waiting), PairReady(q)
  PROVE  /\ Pair(q)[1] \in q.waiting /\ Pair(q)[2] \in q.waiting
         /\ Pair(q)[1] # Pair(q)[2]
         /\ PopPair(q) \in QueueOf(P)
         /\ PopPair(q).waiting = q.waiting \ {Pair(q)[1], Pair(q)[2]}
         /\ Queued(PopPair(q))
<1> DEFINE c == Compact(q)
           a == Front(c)
           d == TakeFront(c)
           b == Front(d)
<1>1. c \in QueueOf(P) /\ c.waiting = q.waiting /\ Queued(c)
  BY CompactFacts
<1>2. Cardinality(q.waiting) \in Nat /\ Cardinality(q.waiting) >= 2
  BY FS_CardinalityType DEF PairReady
<1>3. c.waiting # {}
  BY SMTT(60), <1>1, <1>2, FS_EmptySet
<1>4. a \in c.waiting /\ d \in QueueOf(P) /\ d.waiting = c.waiting \ {a} /\ Queued(d)
  BY <1>1, <1>3, TakeFrontFacts
<1>5. d.waiting # {}
  <2>1. Cardinality(q.waiting \ {a}) = Cardinality(q.waiting) - 1
    BY Zenon, <1>1, <1>4, FS_RemoveElement
  <2> QED
    BY SMTT(60), <1>1, <1>2, <1>4, <2>1, FS_EmptySet
<1>6. /\ b \in d.waiting /\ TakeFront(d) \in QueueOf(P)
      /\ TakeFront(d).waiting = d.waiting \ {b} /\ Queued(TakeFront(d))
  BY SMTT(60), <1>4, <1>5, TakeFrontFacts
<1>7. Pair(q)[1] = a /\ Pair(q)[2] = b
  BY DEF Pair
<1>8. PopPair(q) = TakeFront(d)
  BY <1>1 DEF PopPair, PairReady
<1> HIDE DEF a, b, c, d
<1> QED
  BY SMTT(60), <1>1, <1>4, <1>6, <1>7, <1>8

\* popPair() on fewer only compacts.
LEMMA PopNoPairFacts ==
  ASSUME NEW P, NEW q \in QueueOf(P), Queued(q), ~PairReady(q)
  PROVE  /\ PopPair(q) \in QueueOf(P)
         /\ PopPair(q).waiting = q.waiting
         /\ Queued(PopPair(q))
<1>1. Compact(q) \in QueueOf(P) /\ Compact(q).waiting = q.waiting /\ Queued(Compact(q))
  BY CompactFacts
<1>2. PopPair(q) = Compact(q)
  BY <1>1 DEF PopPair, PairReady
<1> QED
  BY SMTT(60), <1>1, <1>2

\* push() of a new player and remove() keep every waiting player in order_.
LEMMA PushFacts ==
  ASSUME NEW P, NEW q \in QueueOf(P), Queued(q), NEW p \in P, ~Contains(q, p)
  PROVE  /\ Push(q, p) \in QueueOf(P)
         /\ Push(q, p).waiting = q.waiting \cup {p}
         /\ Queued(Push(q, p))
<1>1. /\ q.order \in Seq(P) /\ q.waiting \subseteq P
      /\ Len(q.order) \in Nat /\ DOMAIN q.order = 1..Len(q.order)
  BY DEF QueueOf
<1>2. Push(q, p) = [order |-> Append(q.order, p), waiting |-> q.waiting \cup {p}]
  BY DEF Push
<1>3. /\ Append(q.order, p) \in Seq(P)
      /\ DOMAIN Append(q.order, p) = 1..(Len(q.order) + 1)
      /\ Append(q.order, p)[Len(q.order) + 1] = p
      /\ \A i \in 1..Len(q.order) : Append(q.order, p)[i] = q.order[i]
  BY SMTT(60), <1>1
<1>4. ASSUME NEW x \in q.waiting \cup {p}
      PROVE  \E i \in DOMAIN Append(q.order, p) : Append(q.order, p)[i] = x
  <2>1. CASE x = p
    BY SMTT(60), <1>1, <1>3, <2>1
  <2>2. CASE x \in q.waiting
    <3>1. PICK i \in 1..Len(q.order) : q.order[i] = x
      BY <1>1, <2>2 DEF Queued
    <3> QED
      BY <1>1, <1>3, <3>1
  <2> QED
    BY <2>1, <2>2
<1>5. Queued(Push(q, p))
  BY <1>2, <1>4 DEF Queued
<1> QED
  BY SMTT(60), <1>1, <1>2, <1>3, <1>5 DEF QueueOf

\* remove() leaves the entry of the player alone.
LEMMA RemoveFacts ==
  ASSUME NEW P, NEW q \in QueueOf(P), Queued(q), NEW p
  PROVE  /\ Remove(q, p) \in QueueOf(P)
         /\ Remove(q, p).waiting = q.waiting \ {p}
         /\ Queued(Remove(q, p))
  BY DEF QueueOf, Queued, Remove
=============================================================================
