----------------------------- MODULE Connection -----------------------------
(***************************************************************************)
(* One TcpConnection of the server: its IO loop, which runs the handlers,  *)
(* the base loop of TcpServer, which owns the table of connections, the    *)
(* threads that call send() and shutdown() (lobby, game loops, storage),   *)
(* the socket in the kernel and the client at its other end.               *)
(*                                                                         *)
(* The handlers run on the IO loop alone and call each other, so they are  *)
(* functions on the record x of the connection and its socket.  Only       *)
(* state_ is shared: a send() or shutdown() of another thread tests it,    *)
(* and acts on what it saw in later steps.                                 *)
(***************************************************************************)
EXTENDS Channel, Framing

CONSTANTS Scripts,   \* what a client may send: frames, and bytes behind them
          Threads,   \* the threads that call send()
          Lobby,     \* the one of them that also calls shutdown()
          MaxOps,    \* bound: the calls of a thread
          Replies,   \* the frame that a thread sends in its n-th call
          SndBuf     \* the bytes the socket takes before a write is short

\* Behind its frames a client may send a header with an illegal length, and then
\* whatever it likes.
ASSUME ScriptsAssumption ==
  \A s \in Scripts : /\ s \in [frames : Seq(Frame), junk : Seq(Byte)]
                     /\ s.junk = <<>> \/ IllegalLength(s.junk)
ASSUME ThreadsAssumption ==
  /\ Lobby \in Threads /\ MaxOps \in Nat
  /\ Replies \in [Threads \X (1..MaxOps) -> Frame]
ASSUME SndBufAssumption == SndBuf \in Nat \ {0}

VARIABLES script,    \* what this client sends
          x,         \* the connection, its socket, what its callbacks posted
          revents,   \* revents_ while the loop has the channel in hand
          ioQ,       \* functors queued on the IO loop
          table,     \* the connection in connections_: "none", "in", "out"
          pc, ops,   \* where a thread is in its call, the calls it made
          parser     \* the client's FrameParser, with the frames it took

connVars == <<script, x, revents, ioQ, table, pc, ops, parser>>

\* The bytes of the client.
Said == Bytes(script.frames) \o script.junk

\* The events that are there on the socket.
Level(y) ==
  (IF y.nread < y.nsent \/ y.fin \/ y.rst THEN {"in"} ELSE {}) \cup
  (IF Len(y.wire) - y.got < SndBuf \/ y.wrShut \/ y.rst THEN {"out"} ELSE {}) \cup
  (IF y.rst \/ (y.fin /\ y.wrShut) THEN {"hup"} ELSE {}) \cup
  (IF y.err THEN {"err"} ELSE {})

ConnInit ==
  /\ script \in Scripts
  /\ x = [state |-> "kConnecting", channel |-> NewChannel,
          in |-> NewBuffer, out |-> NewBuffer,
          nsent |-> 0, nread |-> 0,          \* bytes of the client sent, read
          fin |-> FALSE, rst |-> FALSE,      \* the client closed, or reset
          err |-> FALSE,                     \* SO_ERROR of the socket
          wire |-> <<>>, got |-> 0,          \* bytes written; the client read
          wrShut |-> FALSE,                  \* SHUT_WR was done
          told |-> "nothing", down |-> FALSE,  \* the lobby's last news; it
                                             \* was told of the close
          frames |-> <<>>,                   \* the frames it was given
          removals |-> 0,                    \* functors on the base loop
          accepted |-> <<>>,                 \* frames sendInLoop took on
          illegal |-> FALSE, failed |-> FALSE]
  /\ revents = {} /\ ioQ = <<>> /\ table = "none"
  /\ pc = [t \in Threads |-> "idle"] /\ ops = [t \in Threads |-> 0]
  /\ parser = NewParser

(***************************************************************************)
(* The handlers of TcpConnection.                                          *)
(***************************************************************************)
TellDown(y) == [y EXCEPT !.told = "down", !.down = TRUE]

HandleClose(y) ==
  TellDown([y EXCEPT !.state = "kDisconnected",
                     !.channel = DisableAll(@, Level(y)),
                     !.removals = @ + 1])

\* getsockopt(SO_ERROR) clears the error of the socket.
HandleError(y) == HandleClose([y EXCEPT !.err = FALSE, !.failed = TRUE])

\* Mutant: the output buffer is not waited for.
ShutdownInLoopAtOnce(y) == [y EXCEPT !.wrShut = TRUE]

ShutdownInLoop(y) ==
  IF IsWriting(y.channel) THEN y
  ELSE LET z == [y EXCEPT !.wrShut = TRUE]
       IN  [z EXCEPT !.channel = Wake(@, Level(z))]

\* shutdown() called on the IO loop.
Shutdown(y) ==
  IF y.state = "kConnected" THEN ShutdownInLoop([y EXCEPT !.state = "kDisconnecting"])
  ELSE y

\* The message callback: the codec, whose frames go to the lobby.
MessageCb(y) ==
  LET m == OnMessage(y.in)
      z == [y EXCEPT !.in = m.buf, !.illegal = @ \/ m.illegal,
                     !.frames = @ \o m.frames,
                     !.told = IF m.frames = <<>> THEN @ ELSE "frame"]
  IN  IF m.illegal THEN Shutdown(z) ELSE z

\* Mutants: the close comes before the last bytes are handed over; the loop
\* stops at the first bytes it reads.
HandleReadCloses(y) ==
  LET z == [y EXCEPT !.in = ReadFd(@, SubSeq(Said, y.nread + 1, y.nsent)),
                     !.nread = y.nsent]
  IN  IF y.err THEN HandleError(z)
      ELSE IF y.fin \/ y.rst THEN HandleClose(z)
      ELSE IF ReadableBytes(z.in) > 0 THEN MessageCb(z) ELSE z
HandleReadOnce(y) ==
  LET z == [y EXCEPT !.in = ReadFd(@, SubSeq(Said, y.nread + 1, y.nsent)),
                     !.nread = y.nsent]
  IN  IF y.nread < y.nsent THEN MessageCb(z)
      ELSE IF y.err THEN HandleError(z)
      ELSE IF y.fin \/ y.rst THEN HandleClose(z) ELSE z

HandleRead(y) ==
  LET z == [y EXCEPT !.in = ReadFd(@, SubSeq(Said, y.nread + 1, y.nsent)),
                     !.nread = y.nsent]
      m == IF ReadableBytes(z.in) > 0 THEN MessageCb(z) ELSE z
  IN  IF y.err THEN HandleError(z)
      ELSE IF y.fin \/ y.rst THEN HandleClose(m) ELSE m

\* The kernel takes what fits of a write, and refuses it after SHUT_WR or a
\* reset.
WriteFails(y) == y.wrShut \/ y.rst
Wrote(y, data) ==
  LET room == SndBuf - (Len(y.wire) - y.got)
  IN  IF Len(data) <= room THEN Len(data) ELSE room
Write(y, data) == [y EXCEPT !.wire = @ \o SubSeq(data, 1, Wrote(y, data))]

\* Mutant: nobody remembers that a shutdown waits for the buffer.
HandleWriteOnly(y) ==
  LET data == Peek(y.out)
      z == [Write(y, data) EXCEPT !.out = Retrieve(@, Wrote(y, data))]
  IN  IF ~IsWriting(y.channel) THEN y
      ELSE IF data # <<>> /\ WriteFails(y) THEN HandleError(y)
      ELSE IF ReadableBytes(z.out) > 0 THEN z
      ELSE [z EXCEPT !.channel = DisableWriting(@, Level(z))]

HandleWrite(y) ==
  LET data == Peek(y.out)
      z == [Write(y, data) EXCEPT !.out = Retrieve(@, Wrote(y, data))]
      d == [z EXCEPT !.channel = DisableWriting(@, Level(z))]
  IN  IF ~IsWriting(y.channel) THEN y
      ELSE IF data # <<>> /\ WriteFails(y) THEN HandleError(y)
      ELSE IF ReadableBytes(z.out) > 0 THEN z
      ELSE IF d.state = "kDisconnecting" THEN ShutdownInLoop(d) ELSE d

\* Mutant: a message is written past the ones that wait in the buffer.
SendInLoopDirect(y, f) ==
  LET data == Encode(f)
      n == Wrote(y, data)
      z == [Write(y, data) EXCEPT !.accepted = Append(@, f)]
      b == [z EXCEPT !.out = Append_(@, SubSeq(data, n + 1, Len(data)))]
  IN  IF y.state = "kDisconnected" THEN y
      ELSE IF WriteFails(y) THEN HandleError(y)
      ELSE IF n = Len(data) THEN z
      ELSE [b EXCEPT !.channel = EnableWriting(@, Level(b))]

SendInLoop(y, f) ==
  LET data == Encode(f)
      direct == ~IsWriting(y.channel) /\ ReadableBytes(y.out) = 0
      n == IF direct THEN Wrote(y, data) ELSE 0
      z == [(IF direct THEN Write(y, data) ELSE y) EXCEPT !.accepted = Append(@, f)]
      b == [z EXCEPT !.out = Append_(@, SubSeq(data, n + 1, Len(data)))]
  IN  IF y.state = "kDisconnected" THEN y
      ELSE IF direct /\ WriteFails(y) THEN HandleError(y)
      ELSE IF n = Len(data) THEN z
      ELSE IF IsWriting(b.channel) THEN b
      ELSE [b EXCEPT !.channel = EnableWriting(@, Level(b))]

ConnectEstablished(y) ==
  [y EXCEPT !.state = "kConnected", !.channel = EnableReading(@, Level(y)), !.told = "up"]

\* Mutant: the channel of a connection already closed is not removed.
ConnectDestroyedIfConnected(y) ==
  IF y.state = "kConnected"
  THEN TellDown([y EXCEPT !.state = "kDisconnected", !.channel = RemoveChannel(@)])
  ELSE y

ConnectDestroyed(y) ==
  LET z == IF y.state = "kConnected"
           THEN TellDown([y EXCEPT !.state = "kDisconnected",
                                   !.channel = DisableAll(@, Level(y))])
           ELSE y
  IN  [z EXCEPT !.channel = RemoveChannel(@)]

\* Channel::handleEvent: the callbacks in their order, each on what the one
\* before it left.
HandleEvent(y, rev) ==
  IF "hup" \in rev /\ "in" \notin rev THEN HandleClose(y)
  ELSE LET e == IF "err" \in rev THEN HandleError(y) ELSE y
           r == IF "in" \in rev THEN HandleRead(e) ELSE e
       IN  IF "out" \in rev THEN HandleWrite(r) ELSE r

(***************************************************************************)
(* The IO loop: epoll_wait reports the channel, the loop handles it, and   *)
(* between two reports it runs its functors.                               *)
(***************************************************************************)
Poll ==
  /\ revents = {} /\ x.channel.ready /\ Reported(x.channel, Level(x)) # {}
  /\ revents' = Reported(x.channel, Level(x))
  /\ x' = [x EXCEPT !.channel = Taken(@)]
  /\ UNCHANGED <<script, ioQ, table, pc, ops, parser>>

HandlesEvent == revents # {} /\ revents' = {}

LoopHandles ==
  /\ HandlesEvent
  /\ x' = HandleEvent(x, revents)
  /\ UNCHANGED <<script, ioQ, table, pc, ops, parser>>

RunsFunctor == revents = {} /\ ioQ # <<>> /\ ioQ' = Tail(ioQ)

LoopFunctor ==
  /\ RunsFunctor
  /\ LET f == Head(ioQ) IN
     x' = CASE f[1] = "established" -> ConnectEstablished(x)
            [] f[1] = "send"        -> SendInLoop(x, f[2])
            [] f[1] = "shutdown"    -> ShutdownInLoop(x)
            [] f[1] = "destroyed"   -> ConnectDestroyed(x)
  /\ UNCHANGED <<script, revents, table, pc, ops, parser>>

(***************************************************************************)
(* The base loop: newConnection, and the functor of removeConnection.      *)
(***************************************************************************)
NewConnection ==
  /\ table = "none"
  /\ table' = "in"
  /\ ioQ' = Append(ioQ, <<"established">>)
  /\ UNCHANGED <<script, x, revents, pc, ops, parser>>

RemoveConnection ==
  /\ x.removals > 0
  /\ x' = [x EXCEPT !.removals = @ - 1]
  /\ table' = "out"
  /\ ioQ' = Append(ioQ, <<"destroyed">>)
  /\ UNCHANGED <<script, revents, pc, ops, parser>>

(***************************************************************************)
(* A call of send() or shutdown() on another thread.  It got the           *)
(* connection from a callback.                                             *)
(***************************************************************************)
Step(t, from, to) ==
  /\ pc[t] = from /\ pc' = [pc EXCEPT ![t] = to]
  /\ UNCHANGED <<script, revents, table, parser>>

Send(t) ==
  /\ x.told # "nothing" /\ ops[t] < MaxOps
  /\ ops' = [ops EXCEPT ![t] = @ + 1]
  /\ Step(t, "idle", IF x.state = "kConnected" THEN "send" ELSE "idle")
  /\ UNCHANGED <<x, ioQ>>

SendQueue(t) ==
  /\ Step(t, "send", "idle")
  /\ ioQ' = Append(ioQ, <<"send", Replies[<<t, ops[t]>>]>>)
  /\ UNCHANGED <<x, ops>>

\* The lobby: a refused ReconnectReq, or a player whose heartbeats stopped.
ShutdownTest ==
  /\ x.told # "nothing" /\ ops[Lobby] < MaxOps
  /\ ops' = [ops EXCEPT ![Lobby] = @ + 1]
  /\ Step(Lobby, "idle", IF x.state = "kConnected" THEN "shutdown" ELSE "idle")
  /\ UNCHANGED <<x, ioQ>>

ShutdownSet ==
  /\ Step(Lobby, "shutdown", "shutdownQueue")
  /\ x' = [x EXCEPT !.state = "kDisconnecting"]
  /\ UNCHANGED <<ioQ, ops>>

ShutdownQueue ==
  /\ Step(Lobby, "shutdownQueue", "idle")
  /\ ioQ' = Append(ioQ, <<"shutdown">>)
  /\ UNCHANGED <<x, ops>>

(***************************************************************************)
(* The client: NetworkClient, whose bytes TCP cuts anywhere.               *)
(***************************************************************************)
ClientSays == UNCHANGED <<script, revents, ioQ, table, pc, ops>>

\* n more bytes of the frames it wrote arrive.
ClientSend(n) ==
  /\ table # "none" /\ ~x.fin /\ ~x.rst
  /\ x.nsent + n <= Len(Said)
  /\ x' = [x EXCEPT !.nsent = @ + n, !.channel = Wake(@, {"in"})]
  /\ ClientSays /\ UNCHANGED parser

\* RecvLoop: the bytes that arrived are read and every whole frame is taken.
ClientRead ==
  /\ ~x.fin /\ ~x.rst /\ x.got < Len(x.wire)
  /\ parser' = AppendAndTake(parser, SubSeq(x.wire, x.got + 1, Len(x.wire)))
  /\ x' = [x EXCEPT !.got = Len(x.wire), !.channel = Wake(@, {"out"})]
  /\ ClientSays

\* Close(): the server reads the end of the stream after the client's bytes.
ClientClose ==
  /\ table # "none" /\ ~x.fin /\ ~x.rst
  /\ LET y == [x EXCEPT !.fin = TRUE]
     IN  x' = [y EXCEPT !.channel = Wake(@, {"in"} \cup (Level(y) \cap {"hup"}))]
  /\ ClientSays /\ UNCHANGED parser

\* The connection is reset: the client is gone without reading everything, or
\* a write met a closed socket.
ClientReset ==
  /\ table # "none" /\ ~x.rst
  /\ LET y == [x EXCEPT !.rst = TRUE, !.err = TRUE]
     IN  x' = [y EXCEPT !.channel = Wake(@, Level(y))]
  /\ ClientSays /\ UNCHANGED parser

ConnNext ==
  \/ Poll \/ LoopHandles \/ LoopFunctor
  \/ NewConnection \/ RemoveConnection
  \/ \E t \in Threads : Send(t) \/ SendQueue(t)
  \/ ShutdownTest \/ ShutdownSet \/ ShutdownQueue
  \/ \E n \in 1..Len(Said) : ClientSend(n)
  \/ ClientRead
  \/ ClientClose \/ ClientReset

ConnSpec == ConnInit /\ [][ConnNext]_connVars

\* The loops keep running, and a call that began goes on.  (Only LoopHandles
\* steps are HandlesEvent steps, only LoopFunctor steps RunsFunctor steps.)
Fairness ==
  /\ WF_connVars(Poll) /\ WF_revents(HandlesEvent) /\ WF_ioQ(RunsFunctor)
  /\ WF_connVars(NewConnection) /\ WF_connVars(RemoveConnection)
  /\ \A t \in Threads : WF_connVars(SendQueue(t))
  /\ WF_connVars(ShutdownSet \/ ShutdownQueue)

FairConnSpec == ConnSpec /\ Fairness

(***************************************************************************)
(* Properties.                                                             *)
(***************************************************************************)
IsPrefix(s, t) == Len(s) <= Len(t) /\ s = SubSeq(t, 1, Len(s))

\* The frames of the script that its first n bytes hold whole.
FramesWithin(n) ==
  LET k == CHOOSE k \in 0..Len(script.frames) :
             /\ Len(Stream(script.frames)[k]) <= n
             /\ \A m \in (k + 1)..Len(script.frames) : Len(Stream(script.frames)[m]) > n
  IN  SubSeq(script.frames, 1, k)

\* The write side is not closed before outputBuffer_ is empty, whoever called
\* shutdown() and whenever (unless the connection was closed first).
FlushedBeforeFin == x.wrShut /\ ~x.down => ReadableBytes(x.out) = 0

\* The client's parser finds the frames in the order sendInLoop took them on,
\* none lost, doubled or overtaken between the direct write, outputBuffer_ and
\* handleWrite, wherever a short write or TCP cut them, and waits with less
\* than a frame.
ClientSeesFrames ==
  /\ ~parser.Corrupt /\ TryTake(parser) = parser
  /\ IsPrefix(parser.taken, x.accepted)
  /\ Bytes(parser.taken) \o parser.buf = SubSeq(Bytes(x.accepted), 1, x.got)

\* The codec hands over the frames the client wrote and nothing else, however
\* the bytes arrive and however the buffer moves them, and every one of them
\* before it meets an illegal header.  The client's parser, given the same bytes,
\* takes the same frames and gives up at the same header, though its length is
\* signed.  Behind that header the two differ, and nothing is claimed: the parser
\* takes no more, the codec drops what it had buffered and cuts what arrives later.
FramesExact ==
  LET read == SubSeq(Said, 1, x.nread)
      p == AppendAndTake(NewParser, read)
  IN  /\ IF x.illegal THEN IsPrefix(script.frames, x.frames)
         ELSE /\ Bytes(x.frames) \o Peek(x.in) = read
              /\ IsPrefix(x.frames, script.frames)
      /\ ~x.failed => /\ p.Corrupt = x.illegal
                      /\ p.taken = IF x.illegal THEN script.frames ELSE x.frames

\* The lobby's last news of a closed connection is that it is down, whatever
\* was read after a first report of the close (a reset is reported by the error
\* callback, and the read callback then reads on).  A client that writes and
\* closes at once has lost nothing by then (handleRead hands the last bytes
\* over before it closes), unless the socket had an error.
LastWordsDelivered ==
  x.down =>
    /\ x.told = "down"
    /\ ~x.failed /\ ~x.illegal => x.frames = FramesWithin(x.nsent)

\* A connection the client closed or reset leaves the table, and the lobby
\* hears of it, whatever the threads are doing with it at the time.
CloseIsReported == (x.fin \/ x.rst) ~> (x.down /\ table = "out")

\* An illegal frame ends in the server closing its side, unless a client that
\* never reads again holds it up.
IllegalHangsUp ==
  \/ x.illegal ~> (x.wrShut \/ x.down)
  \/ <>[](Len(x.wire) - x.got = SndBuf)

\* When the loops have nothing left to do for a closed connection, however
\* many times handleClose ran and registered the channel again, epoll no
\* longer knows the channel (unless a shutdown() wrote kDisconnecting over
\* kDisconnected).
ClosedIsUnregistered ==
  (x.down /\ x.removals = 0 /\ ioQ = <<>> /\ revents = {} /\ x.state = "kDisconnected")
    => x.channel.index = "kNew"
=============================================================================
