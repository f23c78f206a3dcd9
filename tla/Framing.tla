------------------------------ MODULE Framing -------------------------------
(***************************************************************************)
(* The frames on the wire: a big-endian length that counts the message id  *)
(* and the body, the id, the body.  ProtobufCodec cuts the server's input  *)
(* buffer into frames, FrameParser of the Unity client the bytes it        *)
(* received.  Both are written over the digits of a base that stands for   *)
(* the 256 values of a byte.                                               *)
(*                                                                         *)
(* A loop of the code is a function of the number of its turns.            *)
(***************************************************************************)
EXTENDS Buffer, Integers

CONSTANTS kHeaderLen,     \* bytes of the length (4)
          kIdLen,         \* bytes of the message id (2)
          kMaxFrameLen,   \* a longer frame is illegal (64 K)
          Base            \* the values of a byte (256)

ASSUME FramingAssumption ==
  /\ kHeaderLen \in Nat \ {0} /\ kIdLen \in Nat \ {0} /\ kMaxFrameLen \in Nat
  /\ Base \in Nat /\ Base >= 2

Byte == 0..(Base - 1)

\* ntohl, ntohs: the value of the first k bytes of s, for every k.
Values(s) == LET v[k \in 0..Len(s)] == IF k = 0 THEN 0 ELSE v[k - 1] * Base + s[k] IN v
BigEndian(s) == Values(s)[Len(s)]

\* htonl, htons: n without its last i digits, for every i up to w; its w digits.
Quotients(n, w) == LET q[i \in 0..w] == IF i = 0 THEN n ELSE q[i - 1] \div Base IN q
Digits(n, w) == [i \in 1..w |-> Quotients(n, w)[w - i] % Base]
Fits(n, w) == Quotients(n, w)[w] = 0

\* The least length whose top bit is set.
TopBit == [i \in 1..kHeaderLen |-> IF i = 1 THEN (Base + 1) \div 2 ELSE 0]

\* A legal length has room in the header, and its top bit is clear.
ASSUME LengthAssumption == Fits(kMaxFrameLen, kHeaderLen) /\ kMaxFrameLen < BigEndian(TopBit)

\* What encode() is given: an id of kIdLen bytes, and a body that fits.
Frame == {f \in [id : Nat, body : Seq(Byte)] :
            Fits(f.id, kIdLen) /\ kIdLen + Len(f.body) <= kMaxFrameLen}

\* encode() of ProtobufCodec and of ProtoCodec: the id and the body framed.
Encode(f) == Digits(kIdLen + Len(f.body), kHeaderLen) \o Digits(f.id, kIdLen) \o f.body

\* The bytes of the first k of the frames fs, for every k.
Stream(fs) == LET b[k \in 0..Len(fs)] == IF k = 0 THEN <<>> ELSE b[k - 1] \o Encode(fs[k]) IN b
Bytes(fs) == Stream(fs)[Len(fs)]

\* The frame of length len at the head of the bytes s.
FrameAt(s, len) ==
  [id |-> BigEndian(SubSeq(s, kHeaderLen + 1, kHeaderLen + kIdLen)),
   body |-> SubSeq(s, kHeaderLen + kIdLen + 1, kHeaderLen + len)]

\* A turn of the loop of onMessage: d holds the frames so far, the buffer, and
\* whether an illegal length made it drop everything.  A turn that finds no
\* whole frame leaves d as it is: there the loop ends.
LengthOf(s) == BigEndian(SubSeq(s, 1, kHeaderLen))
IllegalLength(s) ==
  Len(s) >= kHeaderLen /\ (LengthOf(s) < kIdLen \/ LengthOf(s) > kMaxFrameLen)
CutFrame(d) ==
  LET s == Peek(d.buf)
      len == LengthOf(s)
  IN  IF Len(s) < kHeaderLen THEN d
      ELSE IF len < kIdLen \/ len > kMaxFrameLen
      THEN [d EXCEPT !.buf = RetrieveAll(@), !.illegal = TRUE]
      ELSE IF Len(s) < kHeaderLen + len THEN d
      ELSE [d EXCEPT !.frames = Append(@, FrameAt(s, len)),
                     !.buf = Retrieve(@, kHeaderLen + len)]

\* onMessage of ProtobufCodec: a frame takes bytes, so there are at most as many
\* turns as bytes.
Cuts(b) ==
  LET d[k \in 0..ReadableBytes(b)] ==
        IF k = 0 THEN [frames |-> <<>>, buf |-> b, illegal |-> FALSE] ELSE CutFrame(d[k - 1])
  IN  d
OnMessage(b) == Cuts(b)[ReadableBytes(b)]

\* The client's FrameParser keeps its bytes from the front of its array.  Its
\* length is a signed int: a header with the top bit set is negative.
SignedLen(s) ==
  BigEndian([i \in 1..kHeaderLen |-> IF i = 1 /\ 2 * s[1] >= Base THEN s[1] - Base ELSE s[i]])

NewParser == [buf |-> <<>>, Corrupt |-> FALSE, taken |-> <<>>]

\* TryTake, and the frame it returns put behind those taken before.
TryTake(p) ==
  LET s == p.buf
      len == SignedLen(s)
  IN  IF p.Corrupt \/ Len(s) < kHeaderLen THEN p
      ELSE IF len < kIdLen \/ len > kMaxFrameLen THEN [p EXCEPT !.Corrupt = TRUE]
      ELSE IF Len(s) < kHeaderLen + len THEN p
      ELSE [p EXCEPT !.taken = Append(@, FrameAt(s, len)),
                     !.buf = SubSeq(@, kHeaderLen + len + 1, Len(@))]

\* Append.
Appended(p, data) == IF p.Corrupt THEN p ELSE [p EXCEPT !.buf = @ \o data]

\* TryTake until it returns false.
Takes(p) ==
  LET t[k \in 0..(Len(p.buf) + 1)] == IF k = 0 THEN p ELSE TryTake(t[k - 1]) IN t
AppendAndTake(p, data) ==
  LET q == Appended(p, data) IN Takes(q)[Len(q.buf) + 1]
=============================================================================
