------------------------------- MODULE Buffer -------------------------------
(***************************************************************************)
(* The byte buffer of a connection (src/net/Buffer): a vector with a       *)
(* reader and a writer index.  The readable bytes lie between the two; the *)
(* room before the reader index is won back by moving them to the front.   *)
(***************************************************************************)
EXTENDS Naturals, Sequences

CONSTANTS kCheapPrepend,   \* the bytes kept free at the front (8)
          kInitialSize     \* the bytes a new buffer can take (1024)

ASSUME BufferAssumption == kCheapPrepend \in Nat /\ kInitialSize \in Nat

NewBuffer ==
  [cells |-> [i \in 1..(kCheapPrepend + kInitialSize) |-> 0],
   reader |-> kCheapPrepend, writer |-> kCheapPrepend]

ReadableBytes(b) == b.writer - b.reader

WritableBytes(b) == Len(b.cells) - b.writer

\* The readable bytes: what peek() points at.
Peek(b) == SubSeq(b.cells, b.reader + 1, b.writer)

RetrieveAll(b) == [b EXCEPT !.reader = kCheapPrepend, !.writer = kCheapPrepend]

Retrieve(b, n) ==
  IF n < ReadableBytes(b) THEN [b EXCEPT !.reader = @ + n] ELSE RetrieveAll(b)

\* Mutant: the indexes go to the front, the bytes do not.
EnsureWritableUnmoved(b, n) ==
  IF WritableBytes(b) >= n THEN b
  ELSE [cells |-> b.cells \o [i \in 1..n |-> 0],
        reader |-> kCheapPrepend,
        writer |-> kCheapPrepend + ReadableBytes(b)]

\* ensureWritable: grow at the end, unless the room already read from the
\* front and the room at the end are enough together.
EnsureWritable(b, n) ==
  IF WritableBytes(b) >= n THEN b
  ELSE IF WritableBytes(b) + b.reader - kCheapPrepend < n
  THEN [b EXCEPT !.cells = [i \in 1..(b.writer + n) |->
                              IF i <= Len(@) THEN @[i] ELSE 0]]
  ELSE [cells |-> [i \in DOMAIN b.cells |->
                     IF i > kCheapPrepend /\ i <= kCheapPrepend + ReadableBytes(b)
                     THEN b.cells[i + b.reader - kCheapPrepend] ELSE b.cells[i]],
        reader |-> kCheapPrepend,
        writer |-> kCheapPrepend + ReadableBytes(b)]

\* The bytes data copied into the cells behind the writer index.
CopyIn(b, data) ==
  [b EXCEPT !.cells = [i \in DOMAIN @ |->
                         IF i > b.writer /\ i <= b.writer + Len(data)
                         THEN data[i - b.writer] ELSE @[i]],
            !.writer = @ + Len(data)]

Append_(b, data) == CopyIn(EnsureWritable(b, Len(data)), data)

\* readFd: readv fills the room at the end, and what does not fit arrives in
\* the 64 KB array on the stack, which is appended.
ReadFd(b, data) ==
  IF Len(data) <= WritableBytes(b) THEN CopyIn(b, data)
  ELSE Append_(CopyIn(b, SubSeq(data, 1, WritableBytes(b))),
               SubSeq(data, WritableBytes(b) + 1, Len(data)))
=============================================================================
