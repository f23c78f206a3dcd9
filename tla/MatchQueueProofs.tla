-------------------------- MODULE MatchQueueProofs --------------------------
(***************************************************************************)
(* The theorems about MatchQueueSpec: any finite set of players, calls in  *)
(* any order, any number of leftovers in order_.                           *)
(***************************************************************************)
EXTENDS MatchQueueSpec, QueueLemmas

-----------------------------------------------------------------------------
(* The order of arrival: A holds who of the players was pushed before whom *)
(* and L the players that were ever removed.                               *)
\* An entry of y lies before one of x.
InFront(s, y, x) == \E i, j \in DOMAIN s : i < j /\ s[i] = y /\ s[j] = x

\* Players that were never removed have one entry, while they wait, and it is
\* behind an entry of everybody who waits since before.
OrderOK(q, A, L) ==
  /\ \A i, j \in DOMAIN q.order : q.order[i] = q.order[j] /\ q.order[i] \notin L => i = j
  /\ \A i \in DOMAIN q.order : q.order[i] \in q.waiting \cup L
  /\ \A y, x \in q.waiting : <<y, x>> \in A /\ x \notin L => InFront(q.order, y, x)

\* Sequence o is s without its first k elements.
Suffix(s, o, k) ==
  /\ k \in Nat
  /\ \A i \in DOMAIN o : i + k \in DOMAIN s /\ o[i] = s[i + k]
  /\ \A j \in DOMAIN s : j <= k \/ (j - k \in DOMAIN o /\ o[j - k] = s[j])

\* Dropping entries of players who do not wait keeps the order.
LEMMA SuffixOrder ==
  ASSUME NEW P, NEW q \in QueueOf(P), NEW r \in QueueOf(P), NEW k, NEW A, NEW L,
         Suffix(q.order, r.order, k), OrderOK(q, A, L), r.waiting \subseteq q.waiting,
         \A j \in DOMAIN q.order : j <= k => q.order[j] \notin r.waiting,
         \A i \in DOMAIN r.order : r.order[i] \in r.waiting \cup L
  PROVE  OrderOK(r, A, L)
<1>1. PICK s : s = q.order
  BY Zenon
<1>2. PICK o : o = r.order
  BY Zenon
<1>3. /\ k \in Nat
      /\ \A i \in DOMAIN o : i + k \in DOMAIN s /\ o[i] = s[i + k]
      /\ \A j \in DOMAIN s : j <= k \/ (j - k \in DOMAIN o /\ o[j - k] = s[j])
  BY Zenon, <1>1, <1>2 DEF Suffix
<1>4. DOMAIN s \subseteq Nat /\ DOMAIN o \subseteq Nat
  <2>1. s \in Seq(P) /\ o \in Seq(P)
    BY Zenon, <1>1, <1>2 DEF QueueOf
  <2> QED
    BY SMTT(60), <2>1
<1>5. ASSUME NEW i \in DOMAIN o, NEW j \in DOMAIN o, o[i] = o[j], o[i] \notin L
      PROVE  i = j
  <2>1. /\ i + k \in DOMAIN s /\ j + k \in DOMAIN s
        /\ s[i + k] = s[j + k] /\ s[i + k] \notin L
    BY Zenon, <1>3, <1>5
  <2>2. i + k = j + k
    BY Zenon, <1>1, <2>1 DEF OrderOK
  <2> QED
    BY SMTT(60), <1>3, <1>4, <2>2
<1>6. ASSUME NEW y \in r.waiting, NEW x \in r.waiting, <<y, x>> \in A, x \notin L
      PROVE  InFront(o, y, x)
  <2>1. PICK i \in DOMAIN s, j \in DOMAIN s : i < j /\ s[i] = y /\ s[j] = x
    <3>1. y \in q.waiting /\ x \in q.waiting
      BY Zenon
    <3>2. InFront(s, y, x)
      BY Zenon, <1>1, <1>6, <3>1 DEF OrderOK
    <3> QED
      BY Zenon, <3>2 DEF InFront
  <2>2. ~(i <= k) /\ ~(j <= k)
    BY Zenon, <1>1, <2>1
  <2>3. i - k \in DOMAIN o /\ o[i - k] = y /\ j - k \in DOMAIN o /\ o[j - k] = x
    BY Zenon, <1>3, <2>1, <2>2
  <2>4. i - k < j - k
    BY SMTT(60), <1>3, <1>4, <2>1
  <2> QED
    BY Zenon, <2>3, <2>4 DEF InFront
<1>7. \A i, j \in DOMAIN r.order : r.order[i] = r.order[j] /\ r.order[i] \notin L => i = j
  BY Zenon, <1>2, <1>5
<1>8. \A y, x \in r.waiting : <<y, x>> \in A /\ x \notin L => InFront(r.order, y, x)
  BY Zenon, <1>2, <1>6
<1> QED
  BY Zenon, <1>7, <1>8 DEF OrderOK

\* compact() drops leftovers only.
LEMMA CompactDrops ==
  ASSUME NEW P, NEW q \in QueueOf(P)
  PROVE  \E k : /\ Suffix(q.order, Compact(q).order, k)
                /\ \A j \in DOMAIN q.order : j <= k => q.order[j] \notin q.waiting
<1>1. PICK s : s = q.order
  BY Zenon
<1>2. PICK n : n = Len(s)
  BY Zenon
<1>3. s \in Seq(P) /\ n \in Nat /\ DOMAIN s = 1..n
  <2>1. s \in Seq(P)
    BY Zenon, <1>1 DEF QueueOf
  <2> QED
    BY Zenon, <1>2, <2>1, LenProperties
<1>4. PICK live : live = LivePositions(q)
  BY Zenon
<1>5. live = {i \in DOMAIN s : s[i] \in q.waiting}
  BY Zenon, <1>1, <1>4 DEF LivePositions
<1>6. CASE live = {}
  <2>1. Compact(q).order = <<>>
    BY <1>4, <1>6 DEF Compact, QueueOf
  <2>2. Suffix(s, <<>>, n)
    <3>1. DOMAIN <<>> = {} /\ \A j \in DOMAIN s : j <= n
      BY SMTT(60), <1>3
    <3> QED
      BY Zenon, <1>3, <3>1 DEF Suffix
  <2>3. \A j \in DOMAIN s : s[j] \notin q.waiting
    BY Zenon, <1>5, <1>6
  <2> QED
    BY Zenon, <1>1, <2>1, <2>2, <2>3
<1>7. CASE live # {}
  <2>1. PICK first : first = CHOOSE i \in live : \A j \in live : i <= j
    BY Zenon
  <2>2. first \in live /\ \A j \in live : first <= j
    <3>1. live \in SUBSET Nat
      BY SMTT(60), <1>3, <1>5
    <3>2. \E i \in live : \A j \in live : i <= j
      BY Zenon, <1>7, <3>1, LeastNat
    <3> QED
      BY Zenon, <2>1, <3>2
  <2>3. PICK o : o = SubSeq(s, first, n)
    BY Zenon
  <2>4. Compact(q).order = o
    <3>1. Compact(q) = [q EXCEPT !.order = o]
      BY Zenon, <1>1, <1>2, <1>4, <1>7, <2>1, <2>3 DEF Compact
    <3> QED
      BY SMTT(60), <3>1 DEF QueueOf
  <2>5. first \in 1..n
    BY Zenon, <1>3, <1>5, <2>2
  <2>6. DOMAIN o = 1..(n - first + 1) /\ \A i \in 1..(n - first + 1) : o[i] = s[first + i - 1]
    <3>1. Len(o) = n - first + 1 /\ o \in Seq(P)
      BY SMTT(60), <1>3, <2>3, <2>5
    <3> QED
      BY SMTT(60), <1>3, <2>3, <2>5, <3>1
  <2>7. PICK k : k = first - 1
    BY Zenon
  <2>8. Suffix(s, o, k)
    BY SMTT(60), <1>3, <2>5, <2>6, <2>7 DEF Suffix
  <2>9. ASSUME NEW j \in DOMAIN s, j <= k PROVE s[j] \notin q.waiting
    <3>1. ~(first <= j)
      BY SMTT(60), <1>3, <2>5, <2>7, <2>9
    <3> QED
      BY Zenon, <1>5, <2>2, <3>1
  <2> QED
    BY Zenon, <1>1, <2>4, <2>8, <2>9
<1> QED
  BY Zenon, <1>6, <1>7

\* So it keeps the order.
LEMMA CompactOrder ==
  ASSUME NEW P, NEW q \in QueueOf(P), Queued(q), NEW A, NEW L, OrderOK(q, A, L)
  PROVE  OrderOK(Compact(q), A, L)
<1>1. PICK r : r = Compact(q)
  BY Zenon
<1>2. r \in QueueOf(P) /\ r.waiting = q.waiting
  BY Zenon, <1>1, CompactFacts
<1>3. PICK k : /\ Suffix(q.order, r.order, k)
               /\ \A j \in DOMAIN q.order : j <= k => q.order[j] \notin q.waiting
  BY Zenon, <1>1, CompactDrops
<1>4. \A i \in DOMAIN r.order : r.order[i] \in r.waiting \cup L
  BY Zenon, <1>2, <1>3 DEF Suffix, OrderOK
<1>5. OrderOK(r, A, L)
  BY Zenon, <1>2, <1>3, <1>4, SuffixOrder
<1> QED
  BY Zenon, <1>1, <1>5

\* takeFront() keeps the order too, and the player it takes was not pushed after
\* anybody who waits, unless it was removed in between.
LEMMA TakeFrontOrder ==
  ASSUME NEW P, NEW q \in QueueOf(P), Queued(q), q.waiting # {}, NEW A, NEW L, OrderOK(q, A, L)
  PROVE  /\ OrderOK(TakeFront(q), A, L)
         /\ \A y \in q.waiting : <<y, Front(q)>> \in A => Front(q) \in L
<1>1. PICK c : c = Compact(q)
  BY Zenon
<1>2. PICK r : r = TakeFront(q)
  BY Zenon
<1>3. PICK x : x = Front(q)
  BY Zenon
<1>4. /\ c \in QueueOf(P) /\ c.waiting = q.waiting /\ c.order # <<>>
  BY Zenon, <1>1, CompactFacts
<1>5. OrderOK(c, A, L)
  BY Zenon, <1>1, CompactOrder
<1>6. r \in QueueOf(P) /\ r.waiting = c.waiting \ {x} /\ x \in c.waiting
  BY Zenon, <1>2, <1>3, <1>4, TakeFrontFacts
<1>7. r.order = Tail(c.order) /\ x = Head(c.order)
  BY Zenon, <1>1, <1>2, <1>3 DEF TakeFront, Front
<1>8. PICK s : s = c.order
  BY Zenon
<1>9. PICK o : o = r.order
  BY Zenon
<1>10. /\ s \in Seq(P) /\ s # <<>> /\ o = Tail(s) /\ x = Head(s)
  BY Zenon, <1>4, <1>7, <1>8, <1>9 DEF QueueOf
<1>11. PICK n : n = Len(s)
  BY Zenon
<1>12. /\ n \in Nat \ {0} /\ DOMAIN s = 1..n /\ DOMAIN o = 1..(n - 1) /\ s[1] = x
       /\ \A i \in 1..(n - 1) : o[i] = s[i + 1]
  BY SMTT(60), <1>10, <1>11
<1>13. Suffix(s, o, 1)
  BY SMTT(60), <1>12 DEF Suffix
<1>14. /\ \A i, j \in DOMAIN s : s[i] = s[j] /\ s[i] \notin L => i = j
       /\ \A i \in DOMAIN s : s[i] \in c.waiting \cup L
  BY Zenon, <1>5, <1>8 DEF OrderOK
<1>15. \A i \in DOMAIN o : o[i] \in (c.waiting \ {x}) \cup L
  <2>1. ASSUME NEW i \in DOMAIN o, o[i] \notin L PROVE o[i] \in c.waiting \ {x}
    <3>1. i + 1 \in DOMAIN s /\ 1 \in DOMAIN s /\ i + 1 # 1 /\ o[i] = s[i + 1]
      BY SMTT(60), <1>12, <2>1
    <3> QED
      BY Zenon, <1>12, <1>14, <2>1, <3>1
  <2> QED
    BY Zenon, <2>1
<1>16. \A j \in DOMAIN s : j <= 1 => s[j] \notin c.waiting \ {x}
  <2>1. \A j \in DOMAIN s : j <= 1 => j = 1
    BY SMTT(60), <1>12
  <2> QED
    BY Zenon, <1>12, <2>1
<1>17. OrderOK(r, A, L)
  <2>1. /\ Suffix(c.order, r.order, 1) /\ r.waiting \subseteq c.waiting
        /\ \A j \in DOMAIN c.order : j <= 1 => c.order[j] \notin r.waiting
        /\ \A i \in DOMAIN r.order : r.order[i] \in r.waiting \cup L
    BY Zenon, <1>6, <1>8, <1>9, <1>13, <1>15, <1>16
  <2> QED
    BY Zenon, <1>4, <1>5, <1>6, <2>1, SuffixOrder
<1>18. ASSUME NEW y \in q.waiting, <<y, x>> \in A PROVE x \in L
  <2> SUFFICES ASSUME x \notin L PROVE FALSE
    BY Zenon
  <2>1. InFront(s, y, x)
    BY Zenon, <1>4, <1>5, <1>6, <1>8, <1>18 DEF OrderOK
  <2>2. PICK i \in DOMAIN s, j \in DOMAIN s : i < j /\ s[i] = y /\ s[j] = x
    BY Zenon, <2>1 DEF InFront
  <2>3. 1 \in DOMAIN s
    BY SMTT(60), <1>12
  <2>4. j = 1
    BY Zenon, <1>12, <1>14, <2>2, <2>3
  <2> QED
    BY SMTT(60), <1>12, <2>2, <2>4
<1> QED
  BY Zenon, <1>2, <1>3, <1>17, <1>18

\* popPair() pairs in order of arrival, among players that were never removed.
LEMMA PopPairOrder ==
  ASSUME NEW P, NEW q \in QueueOf(P), Queued(q), IsFiniteSet(q.waiting), NEW A, NEW L,
         OrderOK(q, A, L)
  PROVE  /\ OrderOK(PopPair(q), A, L)
         /\ \A x \in q.waiting \ PopPair(q).waiting, y \in PopPair(q).waiting :
              <<y, x>> \in A => x \in L
<1>1. PICK c : c = Compact(q)
  BY Zenon
<1>2. c \in QueueOf(P) /\ c.waiting = q.waiting /\ Queued(c)
  BY Zenon, <1>1, CompactFacts
<1>3. OrderOK(c, A, L)
  BY Zenon, <1>1, CompactOrder
<1>4. CASE ~PairReady(c)
  <2>1. PopPair(q) = c
    BY Zenon, <1>1, <1>4 DEF PopPair
  <2> QED
    BY Zenon, <1>2, <1>3, <2>1
<1>5. CASE PairReady(c)
  <2>1. PICK d : d = TakeFront(c)
    BY Zenon
  <2>2. PICK e : e = TakeFront(d)
    BY Zenon
  <2>3. PICK a : a = Front(c)
    BY Zenon
  <2>4. PICK b : b = Front(d)
    BY Zenon
  <2>5. PopPair(q) = e
    BY Zenon, <1>1, <1>5, <2>1, <2>2 DEF PopPair
  <2>6. Cardinality(c.waiting) \in Nat /\ Cardinality(c.waiting) >= 2 /\ IsFiniteSet(c.waiting)
    BY Zenon, <1>2, <1>5, FS_CardinalityType DEF PairReady
  <2>7. c.waiting # {}
    BY SMTT(60), <2>6, FS_EmptySet
  <2>8. a \in c.waiting /\ d \in QueueOf(P) /\ d.waiting = c.waiting \ {a} /\ Queued(d)
    BY Zenon, <1>2, <2>1, <2>3, <2>7, TakeFrontFacts
  <2>9. d.waiting # {}
    <3>1. Cardinality(c.waiting \ {a}) = Cardinality(c.waiting) - 1
      BY Zenon, <2>6, <2>8, FS_RemoveElement
    <3>2. Cardinality({}) = 0
      BY Zenon, FS_EmptySet
    <3> QED
      BY SMTT(60), <2>6, <2>8, <3>1, <3>2
  <2>10. e.waiting = d.waiting \ {b}
    BY Zenon, <2>2, <2>4, <2>8, <2>9, TakeFrontFacts
  <2>11. OrderOK(d, A, L) /\ \A y \in c.waiting : <<y, a>> \in A => a \in L
    BY Zenon, <1>2, <1>3, <2>1, <2>3, <2>7, TakeFrontOrder
  <2>12. OrderOK(e, A, L) /\ \A y \in d.waiting : <<y, b>> \in A => b \in L
    BY Zenon, <2>2, <2>4, <2>8, <2>9, <2>11, TakeFrontOrder
  <2>13. ASSUME NEW x \in q.waiting \ e.waiting, NEW y \in e.waiting, <<y, x>> \in A
         PROVE  x \in L
    <3>1. x = a \/ x = b
      BY Zenon, <1>2, <2>8, <2>10
    <3>2. y \in c.waiting /\ y \in d.waiting
      BY Zenon, <2>8, <2>10
    <3> QED
      BY Zenon, <2>11, <2>12, <2>13, <3>1, <3>2
  <2> QED
    BY Zenon, <2>5, <2>12, <2>13
<1> QED
  BY Zenon, <1>4, <1>5

\* push() adds the last entry, of a player who had none unless removed before.
LEMMA PushOrder ==
  ASSUME NEW P, NEW q \in QueueOf(P), Queued(q), NEW p \in P, ~Contains(q, p), NEW A, NEW L,
         A \subseteq q.waiting \X q.waiting, OrderOK(q, A, L)
  PROVE  OrderOK(Push(q, p), A \cup (q.waiting \X {p}), L)
<1>1. PICK s : s = q.order
  BY Zenon
<1>2. PICK o : o = Append(s, p)
  BY Zenon
<1>3. PICK r : r = Push(q, p)
  BY Zenon
<1>4. r.order = o /\ r.waiting = q.waiting \cup {p}
  BY Zenon, <1>1, <1>2, <1>3 DEF Push
<1>5. PICK n : n = Len(s) + 1
  BY Zenon
<1>6. /\ s \in Seq(P) /\ n \in DOMAIN o /\ o[n] = p /\ n \notin DOMAIN s
      /\ \A i \in DOMAIN s : i \in DOMAIN o /\ o[i] = s[i] /\ i < n
      /\ \A i \in DOMAIN o : i \in DOMAIN s \/ i = n
  <2>1. s \in Seq(P)
    BY Zenon, <1>1 DEF QueueOf
  <2>2. Len(s) \in Nat /\ DOMAIN s = 1..Len(s) /\ DOMAIN o = 1..(Len(s) + 1) /\ o[Len(s) + 1] = p
        /\ \A i \in 1..Len(s) : o[i] = s[i]
    BY SMTT(60), <1>2, <2>1
  <2> QED
    BY SMTT(60), <1>5, <2>1, <2>2
<1>7. /\ \A i, j \in DOMAIN s : s[i] = s[j] /\ s[i] \notin L => i = j
      /\ \A i \in DOMAIN s : s[i] \in q.waiting \cup L
      /\ \A y, x \in q.waiting : <<y, x>> \in A /\ x \notin L => InFront(s, y, x)
  BY Zenon, <1>1 DEF OrderOK
<1>8. p \notin q.waiting
  BY Zenon DEF Contains
<1>9. ASSUME NEW i \in DOMAIN o, NEW j \in DOMAIN o, o[i] = o[j], o[i] \notin L
      PROVE  i = j
  <2>1. CASE i \in DOMAIN s /\ j \in DOMAIN s
    BY Zenon, <1>6, <1>7, <1>9, <2>1
  <2>2. CASE i = n /\ j \in DOMAIN s
    BY Zenon, <1>6, <1>7, <1>8, <1>9, <2>2
  <2>3. CASE j = n /\ i \in DOMAIN s
    BY Zenon, <1>6, <1>7, <1>8, <1>9, <2>3
  <2> QED
    BY Zenon, <1>6, <2>1, <2>2, <2>3
<1>10. \A i \in DOMAIN o : o[i] \in (q.waiting \cup {p}) \cup L
  BY Zenon, <1>6, <1>7
<1>11. ASSUME NEW y \in q.waiting \cup {p}, NEW x \in q.waiting \cup {p},
              <<y, x>> \in A \cup (q.waiting \X {p}), x \notin L
       PROVE  InFront(o, y, x)
  <2>1. CASE <<y, x>> \in A
    <3>1. y \in q.waiting /\ x \in q.waiting
      BY Zenon, <2>1
    <3>2. InFront(s, y, x)
      BY Zenon, <1>7, <1>11, <2>1, <3>1
    <3> QED
      BY Zenon, <1>6, <3>2 DEF InFront
  <2>2. CASE <<y, x>> \in q.waiting \X {p}
    <3>1. y \in q.waiting /\ x = p
      BY Zenon, <2>2
    <3>2. \E i \in DOMAIN s : s[i] = y
      BY Zenon, <1>1, <3>1 DEF Queued
    <3> QED
      BY Zenon, <1>6, <3>1, <3>2 DEF InFront
  <2> QED
    BY Zenon, <1>11, <2>1, <2>2
<1>12. OrderOK(r, A \cup (q.waiting \X {p}), L)
  <2>1. \A i, j \in DOMAIN r.order : r.order[i] = r.order[j] /\ r.order[i] \notin L => i = j
    BY Zenon, <1>4, <1>9
  <2>2. \A i \in DOMAIN r.order : r.order[i] \in r.waiting \cup L
    BY Zenon, <1>4, <1>10
  <2>3. \A y, x \in r.waiting : <<y, x>> \in A \cup (q.waiting \X {p}) /\ x \notin L =>
          InFront(r.order, y, x)
    BY Zenon, <1>4, <1>11
  <2> QED
    BY Zenon, <2>1, <2>2, <2>3 DEF OrderOK
<1> QED
  BY Zenon, <1>3, <1>12

\* remove() leaves an entry of a player that now was removed.
LEMMA RemoveOrder ==
  ASSUME NEW P, NEW q \in QueueOf(P), NEW p, NEW A, NEW L, OrderOK(q, A, L)
  PROVE  OrderOK(Remove(q, p), A, L \cup {p})
<1>1. PICK r : r = Remove(q, p)
  BY Zenon
<1>2. r.order = q.order /\ r.waiting = q.waiting \ {p}
  BY SMTT(60), <1>1 DEF Remove, QueueOf
<1>3. OrderOK(r, A, L \cup {p})
  BY Zenon, <1>2 DEF OrderOK
<1> QED
  BY Zenon, <1>1, <1>3

\* The places may be forgotten.
LEMMA FewerPlaces ==
  ASSUME NEW q, NEW A, NEW B, NEW L, OrderOK(q, A, L), B \subseteq A
  PROVE  OrderOK(q, B, L)
  BY Zenon DEF OrderOK

-----------------------------------------------------------------------------
(* The theorems.                                                           *)

\* The inductive invariant: the queue has its type, and whoever waits is queued.
QueueInv == queue \in QueueOf(Players) /\ WaitingIsQueued

\* The waiting players are finitely many.
LEMMA WaitingFinite ==
  ASSUME NEW q \in QueueOf(Players)
  PROVE  IsFiniteSet(q.waiting)
  BY PlayersAssumption, FS_Subset DEF QueueOf

\* Every method keeps the invariant.
LEMMA QueueInvStep ==
  ASSUME QueueInv, [QueueNext]_queueVars
  PROVE  QueueInv'
<1>1. queue \in QueueOf(Players) /\ Queued(queue)
  BY DEF QueueInv, WaitingIsQueued, Queued
<1>2. SUFFICES queue' \in QueueOf(Players) /\ Queued(queue')
  BY DEF QueueInv, WaitingIsQueued, Queued
<1>3. ASSUME NEW p \in Players, DoPush(p)
      PROVE  queue' \in QueueOf(Players) /\ Queued(queue')
  BY <1>1, <1>3, PushFacts DEF DoPush
<1>4. ASSUME NEW p \in Players, DoRemove(p)
      PROVE  queue' \in QueueOf(Players) /\ Queued(queue')
  BY <1>1, <1>4, RemoveFacts DEF DoRemove
<1>5. ASSUME DoPopPair
      PROVE  queue' \in QueueOf(Players) /\ Queued(queue')
  <2>1. queue' = PopPair(queue)
    BY <1>5 DEF DoPopPair
  <2>2. IsFiniteSet(queue.waiting)
    BY <1>1, WaitingFinite
  <2>3. CASE PairReady(queue)
    BY <1>1, <2>1, <2>2, <2>3, PopPairFacts
  <2>4. CASE ~PairReady(queue)
    BY <1>1, <2>1, <2>4, PopNoPairFacts
  <2> QED
    BY <2>3, <2>4
<1>6. CASE UNCHANGED queueVars
  BY <1>1, <1>6 DEF queueVars
<1> QED
  BY <1>3, <1>4, <1>5, <1>6 DEF QueueNext

\* The invariant holds throughout.
LEMMA QueueInvHolds == QueueSpec => []QueueInv
<1>1. QueueInit => QueueInv
  BY DEF QueueInit, QueueInv, QueueOf, WaitingIsQueued, EmptyQueue
<1> QED
  BY <1>1, QueueInvStep, PTL DEF QueueSpec

\* Nobody who waits is forgotten by lazy removal: every waiting player has an
\* entry in order_, so takeFront() never runs off the deque.
THEOREM WaitingIsQueuedHolds == QueueSpec => []WaitingIsQueued
<1>1. QueueInv => WaitingIsQueued
  BY DEF QueueInv
<1> QED
  BY <1>1, QueueInvHolds, PTL

\* popPair() returns two different waiting players and takes exactly these out.
THEOREM PopTakesTwoWaitingHolds == QueueSpec => PopTakesTwoWaiting
<1> DEFINE A == DoPopPair /\ Cardinality(queue.waiting) >= 2
                  => /\ {got'[1], got'[2]} \subseteq queue.waiting
                     /\ got'[1] # got'[2]
                     /\ queue'.waiting = queue.waiting \ {got'[1], got'[2]}
<1>1. ASSUME QueueInv, DoPopPair, Cardinality(queue.waiting) >= 2
      PROVE  /\ {got'[1], got'[2]} \subseteq queue.waiting
             /\ got'[1] # got'[2]
             /\ queue'.waiting = queue.waiting \ {got'[1], got'[2]}
  <2>1. queue \in QueueOf(Players) /\ Queued(queue)
    BY <1>1 DEF QueueInv, WaitingIsQueued, Queued
  <2>2. PairReady(queue) /\ IsFiniteSet(queue.waiting)
    BY <1>1, <2>1, WaitingFinite DEF PairReady
  <2>3. PairReady(Compact(queue))
    BY <2>1, <2>2, CompactFacts DEF PairReady
  <2>4. queue' = PopPair(queue) /\ got' = Pair(queue)
    BY <1>1, <2>3 DEF DoPopPair
  <2> QED
    BY <2>1, <2>2, <2>4, PopPairFacts
<1>2. QueueInv => [A]_queueVars
  BY <1>1
<1> QED
  BY <1>2, QueueInvHolds, PTL DEF PopTakesTwoWaiting

-----------------------------------------------------------------------------
(* The order of arrival.                                                   *)

\* The inductive invariant: the places are those of waiting players, and order_
\* keeps to them as far as nobody was removed.
PlaceInv ==
  /\ QueueInv
  /\ ahead \subseteq queue.waiting \X queue.waiting
  /\ OrderOK(queue, ahead, left)

\* Every method keeps it.
LEMMA PlaceInvStep ==
  ASSUME PlaceInv, [QueueNext]_queueVars
  PROVE  PlaceInv'
<1>1. queue \in QueueOf(Players) /\ Queued(queue) /\ IsFiniteSet(queue.waiting)
  <2>1. queue \in QueueOf(Players) /\ Queued(queue)
    BY Zenon DEF PlaceInv, QueueInv, WaitingIsQueued, Queued
  <2> QED
    BY Zenon, <2>1, WaitingFinite
<1>2. QueueInv'
  BY Zenon, QueueInvStep DEF PlaceInv
<1>3. SUFFICES /\ ahead' \subseteq queue'.waiting \X queue'.waiting
               /\ OrderOK(queue', ahead', left')
  BY Zenon, <1>2 DEF PlaceInv
<1>4. ahead \subseteq queue.waiting \X queue.waiting /\ OrderOK(queue, ahead, left)
  BY Zenon DEF PlaceInv
<1>5. \A W : /\ Places(W) \subseteq W \X W
             /\ Places(W) \subseteq ahead
  BY Zenon DEF Places
<1>6. ASSUME NEW p \in Players, DoPush(p)
      PROVE  /\ ahead' \subseteq queue'.waiting \X queue'.waiting
             /\ OrderOK(queue', ahead', left')
  <2>1. /\ ~Contains(queue, p) /\ queue' = Push(queue, p) /\ left' = left
        /\ ahead' = ahead \cup (queue.waiting \X {p})
    BY Zenon, <1>6 DEF DoPush
  <2>2. queue'.waiting = queue.waiting \cup {p}
    BY Zenon, <2>1 DEF Push
  <2>3. OrderOK(Push(queue, p), ahead \cup (queue.waiting \X {p}), left)
    BY Zenon, <1>1, <1>4, <2>1, PushOrder
  <2>4. ahead' \subseteq queue'.waiting \X queue'.waiting
    <3>1. \A e \in queue.waiting \X queue.waiting : e \in queue'.waiting \X queue'.waiting
      BY Zenon, <2>2
    <3>2. \A e \in queue.waiting \X {p} : e \in queue'.waiting \X queue'.waiting
      BY Zenon, <2>2
    <3> QED
      BY Zenon, <1>4, <2>1, <3>1, <3>2
  <2> QED
    BY Zenon, <2>1, <2>3, <2>4
<1>7. ASSUME NEW p \in Players, DoRemove(p)
      PROVE  /\ ahead' \subseteq queue'.waiting \X queue'.waiting
             /\ OrderOK(queue', ahead', left')
  <2>1. /\ queue' = Remove(queue, p) /\ left' = left \cup {p}
        /\ ahead' = Places(queue'.waiting)
    BY Zenon, <1>7 DEF DoRemove
  <2>2. OrderOK(queue', ahead, left')
    BY Zenon, <1>1, <1>4, <2>1, RemoveOrder
  <2> QED
    BY Zenon, <1>5, <2>1, <2>2, FewerPlaces
<1>8. ASSUME DoPopPair
      PROVE  /\ ahead' \subseteq queue'.waiting \X queue'.waiting
             /\ OrderOK(queue', ahead', left')
  <2>1. /\ queue' = PopPair(queue) /\ left' = left
        /\ ahead' = Places(queue'.waiting)
    BY Zenon, <1>8 DEF DoPopPair
  <2>2. OrderOK(queue', ahead, left')
    BY Zenon, <1>1, <1>4, <2>1, PopPairOrder
  <2> QED
    BY Zenon, <1>5, <2>1, <2>2, FewerPlaces
<1>9. CASE UNCHANGED queueVars
  BY Zenon, <1>4, <1>9 DEF queueVars
<1> QED
  BY Zenon, <1>6, <1>7, <1>8, <1>9 DEF QueueNext

\* The invariant holds throughout.
LEMMA PlaceInvHolds == QueueSpec => []PlaceInv
<1>1. QueueInit => PlaceInv
  <2> SUFFICES ASSUME QueueInit PROVE PlaceInv
    OBVIOUS
  <2>1. QueueInv
    BY DEF QueueInit, QueueInv, QueueOf, WaitingIsQueued, EmptyQueue
  <2>2. queue.order = <<>> /\ DOMAIN <<>> = {} /\ ahead = {}
    BY SMTT(60) DEF QueueInit, EmptyQueue
  <2> QED
    BY Zenon, <2>1, <2>2 DEF PlaceInv, OrderOK
<1> QED
  BY <1>1, PlaceInvStep, PTL DEF QueueSpec

\* A waiting player is overtaken only by one who left the queue and came back:
\* among players who stay, popPair() pairs in order of arrival.
THEOREM OvertakenOnlyByRejoinersHolds == QueueSpec => OvertakenOnlyByRejoiners
<1> DEFINE A == \A x \in queue.waiting \ queue'.waiting,
                   y \in queue.waiting \cap queue'.waiting :
                     <<y, x>> \in ahead => x \in left'
<1>1. ASSUME PlaceInv, QueueNext PROVE A
  <2> SUFFICES ASSUME NEW x \in queue.waiting \ queue'.waiting,
                      NEW y \in queue.waiting \cap queue'.waiting, <<y, x>> \in ahead
               PROVE  x \in left'
    BY Zenon
  <2>1. queue \in QueueOf(Players) /\ Queued(queue) /\ OrderOK(queue, ahead, left)
    BY Zenon, <1>1 DEF PlaceInv, QueueInv, WaitingIsQueued, Queued
  <2>2. ASSUME NEW p \in Players, DoPush(p) PROVE FALSE
    <3>1. queue'.waiting = queue.waiting \cup {p}
      BY Zenon, <2>1, <2>2, PushFacts DEF DoPush
    <3> QED
      BY Zenon, <3>1
  <2>3. ASSUME NEW p \in Players, DoRemove(p) PROVE x \in left'
    <3>1. queue'.waiting = queue.waiting \ {p} /\ left' = left \cup {p}
      BY Zenon, <2>1, <2>3, RemoveFacts DEF DoRemove
    <3> QED
      BY Zenon, <3>1
  <2>4. ASSUME DoPopPair PROVE x \in left'
    <3>1. queue' = PopPair(queue) /\ left' = left
      BY Zenon, <2>4 DEF DoPopPair
    <3>2. IsFiniteSet(queue.waiting)
      BY Zenon, <2>1, WaitingFinite
    <3>3. \A v \in queue.waiting \ PopPair(queue).waiting, w \in PopPair(queue).waiting :
            <<w, v>> \in ahead => v \in left
      BY Zenon, <2>1, <3>2, PopPairOrder
    <3> QED
      BY Zenon, <3>1, <3>3
  <2> QED
    BY Zenon, <1>1, <2>2, <2>3, <2>4 DEF QueueNext
<1>2. PlaceInv /\ [QueueNext]_queueVars => [A]_queueVars
  BY Zenon, <1>1
<1> QED
  BY <1>2, PlaceInvHolds, PTL DEF QueueSpec, OvertakenOnlyByRejoiners
=============================================================================
