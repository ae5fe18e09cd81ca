------------------------------ MODULE ChatRelay ------------------------------
(***************************************************************************)
(* One chat: the peer's WebSocket, the two goroutines of the gateway's     *)
(* ChatStream handler (internal/handler/hello_ws.go) and the backend's     *)
(* ChatStream handler (cmd/server/main.go), which acknowledges every       *)
(* message.                                                                *)
(*                                                                         *)
(*   peer --wsIn--> reader --up--> echo --down--> writer --wsOut--> peer   *)
(*                                                                         *)
(* The reader is the handler's own goroutine, the writer the one it starts *)
(* (recvDone is closed when the writer is done).  Each leg is a FIFO of at *)
(* most Window messages: a TCP buffer, or the flow control window of gRPC. *)
(* A goroutine holds at most one message.  No call has a deadline, and     *)
(* since the connection was hijacked net/http cancels the request's        *)
(* context, and with it the stream, only when the handler returns.         *)
(*                                                                         *)
(* A message is its number; an acknowledgement bears the number of the     *)
(* message it is for.                                                      *)
(***************************************************************************)
EXTENDS Naturals, Sequences

CONSTANTS
  MaxSent,  \* bound: messages a peer sends
  Window    \* what a leg holds

ASSUME RelayAssumption == MaxSent \in Nat /\ Window \in Nat \ {0}

VARIABLES
  peer,     \* "away", "reading", "deaf" (does not read), "left"
  sent,     \* messages the peer has sent
  got,      \* the last message acknowledged to the peer
  wsIn, up, down, wsOut,   \* the legs
  hand,     \* the message each goroutine holds, a sequence of at most one
  reader,   \* "none", "open", "loop", "wait" (for recvDone), "done"
  writer,   \* "none", "loop", "done"
  echo,     \* "none", "loop", "ended"
  severed   \* the stream was lost, or could not be opened

legs == <<wsIn, up, down, wsOut>>
ends == <<peer, sent, got>>
goroutines == <<hand, reader, writer, echo>>
relayVars == <<ends, legs, goroutines, severed>>

Goroutine == {"reader", "writer", "echo"}
Message == 1 .. MaxSent
Other == 0      \* a frame that is no chat message
Frame == Message \cup {Other}

RelayTypeOK ==
  /\ peer \in {"away", "reading", "deaf", "left"}
  /\ sent \in 0 .. MaxSent /\ got \in 0 .. MaxSent
  /\ \A leg \in {wsIn, wsOut} : leg \in Seq(Frame) /\ Len(leg) <= Window
  /\ \A leg \in {up, down} : leg \in Seq(Message) /\ Len(leg) <= Window
  /\ hand \in [Goroutine -> Seq(Message)] /\ \A g \in Goroutine : Len(hand[g]) <= 1
  /\ reader \in {"none", "open", "loop", "wait", "done"}
  /\ writer \in {"none", "loop", "done"}
  /\ echo \in {"none", "loop", "ended"}
  /\ severed \in BOOLEAN

RelayInit ==
  /\ peer = "away" /\ sent = 0 /\ got = 0
  /\ wsIn = <<>> /\ up = <<>> /\ down = <<>> /\ wsOut = <<>>
  /\ hand = [g \in Goroutine |-> <<>>]
  /\ reader = "none" /\ writer = "none" /\ echo = "none"
  /\ severed = FALSE

\* A goroutine takes the next message when it is done with the last.
Spawned(g) == TRUE                           \* mutant: a goroutine for each
Empty(g) == hand[g] = <<>>

Room(leg) == Len(leg) < Window
Takes(g, k) == hand' = [hand EXCEPT ![g] = Append(@, k)]
Drops(g) == hand' = [hand EXCEPT ![g] = <<>>]

\* At the gateway the stream has ended: trailers have come, or the
\* connection was lost.
StreamEnded == echo = "ended" \/ severed

-----------------------------------------------------------------------------
(* The peer.                                                               *)
Here == peer \in {"reading", "deaf"}

PeerSends ==
  /\ Here /\ reader # "done" /\ sent < MaxSent /\ Room(wsIn)
  /\ sent' = sent + 1
  /\ wsIn' = Append(wsIn, sent + 1)
  /\ UNCHANGED <<peer, got, up, down, wsOut, goroutines, severed>>

PeerSendsOther ==
  /\ Here /\ reader # "done" /\ Room(wsIn)
  /\ wsIn' = Append(wsIn, Other)
  /\ UNCHANGED <<ends, up, down, wsOut, goroutines, severed>>

PeerReceives ==
  /\ peer = "reading" /\ wsOut # <<>>
  /\ wsOut' = Tail(wsOut)
  /\ got' = IF Head(wsOut) = Other THEN got ELSE Head(wsOut)
  /\ UNCHANGED <<peer, sent, wsIn, up, down, goroutines, severed>>

PeerStops ==
  /\ peer = "reading" /\ peer' = "deaf"
  /\ UNCHANGED <<sent, got, legs, goroutines, severed>>

PeerResumes ==
  /\ peer = "deaf" /\ peer' = "reading"
  /\ UNCHANGED <<sent, got, legs, goroutines, severed>>

\* What it sent before may still arrive, or is lost with the connection.
PeerLeaves ==
  /\ Here /\ peer' = "left"
  /\ wsIn' \in {wsIn, <<>>}
  /\ wsOut' = <<>>
  /\ UNCHANGED <<sent, got, up, down, goroutines, severed>>

-----------------------------------------------------------------------------
(* ChatStream of the gateway.                                              *)
\* conn was upgraded; h.client.ChatStream, and the go statement.  A stream
\* whose context is done already is cancelled at once.
OpenStream(ctxDone) ==
  /\ reader = "open"
  /\ reader' = "loop" /\ writer' = "loop" /\ echo' = "loop"
  /\ severed' = ctxDone
  /\ UNCHANGED <<ends, legs, hand>>

\* It fails: WriteJSON of the error, and the deferred conn.Close.
OpenFails ==
  /\ reader = "open"
  /\ reader' = "done" /\ severed' = TRUE
  /\ wsOut' = IF Here /\ Room(wsOut) THEN Append(wsOut, Other) ELSE wsOut
  /\ UNCHANGED <<ends, wsIn, up, down, hand, writer, echo>>

\* ReadJSON
ReadMessage ==
  /\ reader = "loop" /\ Empty("reader")
  /\ wsIn # <<>> /\ Head(wsIn) # Other
  /\ Takes("reader", Head(wsIn))
  /\ wsIn' = Tail(wsIn)
  /\ UNCHANGED <<ends, up, down, wsOut, reader, writer, echo, severed>>

\* A frame that is no message, or the peer has left: break, then CloseSend.
ReadFails ==
  /\ reader = "loop" /\ Empty("reader")
  /\ \/ wsIn # <<>> /\ Head(wsIn) = Other /\ wsIn' = Tail(wsIn)
     \/ wsIn = <<>> /\ peer = "left" /\ wsIn' = wsIn
  /\ reader' = "wait"
  /\ UNCHANGED <<ends, up, down, wsOut, hand, writer, echo, severed>>

\* stream.Send blocks while the window is full.
SendMessage ==
  /\ ~Empty("reader") /\ ~StreamEnded /\ Room(up)
  /\ up' = up \o hand["reader"]
  /\ Drops("reader")
  /\ UNCHANGED <<ends, wsIn, down, wsOut, reader, writer, echo, severed>>

\* io.EOF: break, then CloseSend.
SendFails ==
  /\ ~Empty("reader") /\ StreamEnded
  /\ Drops("reader")
  /\ reader' = "wait"
  /\ UNCHANGED <<ends, legs, writer, echo, severed>>

\* <-recvDone, then the handler returns: conn.Close, and the request's
\* context is cancelled.  TCP drops what it has still to deliver when a
\* connection is closed before all that came was read.
Hasty == TRUE                                \* mutant: recvDone not awaited
WriterDone == writer = "done"

Return ==
  /\ reader = "wait" /\ WriterDone
  /\ reader' = "done"
  /\ wsOut' \in {wsOut} \cup (IF wsIn = <<>> THEN {} ELSE {<<>>})
  /\ UNCHANGED <<ends, wsIn, up, down, hand, writer, echo, severed>>

\* stream.Recv, of a message or of the end of the stream.
Receive ==
  /\ writer = "loop" /\ Empty("writer") /\ down # <<>>
  /\ Takes("writer", Head(down))
  /\ down' = Tail(down)
  /\ UNCHANGED <<ends, wsIn, up, wsOut, reader, writer, echo, severed>>

ReceiveEnd ==
  /\ writer = "loop" /\ Empty("writer") /\ down = <<>> /\ StreamEnded
  /\ writer' = "done"
  /\ UNCHANGED <<ends, legs, hand, reader, echo, severed>>

\* conn.WriteJSON blocks while the peer does not read.
WriteFrame ==
  /\ ~Empty("writer") /\ Here /\ reader # "done" /\ Room(wsOut)
  /\ wsOut' = wsOut \o hand["writer"]
  /\ Drops("writer")
  /\ UNCHANGED <<ends, wsIn, up, down, reader, writer, echo, severed>>

\* To a peer that has left a write may still be taken by the kernel.
WriteToNobody ==
  /\ ~Empty("writer") /\ peer = "left"
  /\ Drops("writer")
  /\ writer' \in {"loop", "done"}
  /\ UNCHANGED <<ends, legs, reader, echo, severed>>

-----------------------------------------------------------------------------
(* ChatStream of the backend.                                              *)
EchoReceives ==
  /\ echo = "loop" /\ Empty("echo") /\ up # <<>>
  /\ Takes("echo", Head(up))
  /\ up' = Tail(up)
  /\ UNCHANGED <<ends, wsIn, down, wsOut, reader, writer, echo, severed>>

EchoReplies ==
  /\ ~Empty("echo") /\ Room(down) /\ ~severed
  /\ down' = down \o hand["echo"]
  /\ Drops("echo")
  /\ UNCHANGED <<ends, wsIn, up, wsOut, reader, writer, echo, severed>>

\* io.EOF after CloseSend
SendClosed == reader \in {"wait", "done"}

EchoEnds ==
  /\ echo = "loop" /\ Empty("echo") /\ up = <<>> /\ SendClosed
  /\ echo' = "ended"
  /\ UNCHANGED <<ends, legs, hand, reader, writer, severed>>

\* Recv or Send fails: the stream was cancelled, or the connection lost.
Detached == severed                          \* mutant: not the request's ctx
Impatient == severed \/ SendClosed           \* mutant: cancel, not CloseSend
Cancelled == severed \/ reader = "done"

EchoAborted ==
  /\ echo = "loop" /\ Cancelled
  /\ Drops("echo")
  /\ echo' = "ended"
  /\ UNCHANGED <<ends, legs, reader, writer, severed>>

-----------------------------------------------------------------------------
\* The connection to the backend breaks, or the backend is stopped by force.
Sever ==
  /\ reader \in {"loop", "wait"} /\ ~severed
  /\ severed' = TRUE
  /\ up' = <<>>
  /\ down' \in {SubSeq(down, 1, n) : n \in 0 .. Len(down)}
  /\ UNCHANGED <<ends, wsIn, wsOut, goroutines>>

Opening == OpenFails \/ \E ctxDone \in BOOLEAN : OpenStream(ctxDone)
Peer == PeerSends \/ PeerSendsOther \/ PeerStops \/ PeerResumes \/ PeerLeaves
Reader ==
  \/ ReadMessage \/ ReadFails
  \/ SendMessage \/ SendFails
  \/ Return
Writer == Receive \/ ReceiveEnd \/ WriteFrame \/ WriteToNobody
Echo == EchoReceives \/ EchoReplies \/ EchoEnds \/ EchoAborted

RelayNext ==
  Opening \/ Peer \/ PeerReceives \/ Reader \/ Writer \/ Echo \/ Sever

-----------------------------------------------------------------------------
(* Lines 77 to 133 of hello_ws.go: while the peer is there and the stream   *)
(* lives, what the peer sent and has no acknowledgement for is on its way,  *)
(* once and in order, through seven buffers and three goroutines; also      *)
(* after the reader has stopped, unless TCP dropped the end of it.          *)
Line ==
  wsOut \o hand["writer"] \o down \o hand["echo"] \o up \o hand["reader"] \o wsIn

\* The messages of a line are those from first to last, once and in order.
Carries(line, first, last) ==
  /\ {line[i] : i \in DOMAIN line} \ {Other} = first .. last
  /\ \A i, j \in DOMAIN line :
       i < j /\ line[i] # Other /\ line[j] # Other => line[i] < line[j]

Reset == reader = "done" /\ wsIn # <<>>

NothingLost ==
  peer # "left" /\ ~severed /\ ~Reset => Carries(Line, got + 1, sent)

(* A peer that stays and reads gets an acknowledgement of each message it   *)
(* has sent before any frame that is none, unless the stream is lost or TCP *)
(* drops the end of it (Reset: a frame that is no message ended the chat    *)
(* before all that came was read).                                          *)
MessagesAnswered ==
  \A k \in Message :
    sent >= k /\ reader = "loop" /\ (\A i \in DOMAIN wsIn : wsIn[i] # Other)
      ~> got >= k \/ peer # "reading" \/ severed \/ Reset

(* The three ways the handler is known to hang when the peer has left or    *)
(* the stream was lost: the writer has given up and the windows are full,   *)
(* so that Send blocks and nobody reads the stream (line 120); the peer is  *)
(* silent, and ReadJSON does not see the end of the stream (line 107); the  *)
(* peer does not read, and WriteJSON blocks (line 91).                      *)
Jammed ==
  /\ writer = "done" /\ ~StreamEnded
  /\ ~Empty("reader") /\ ~Room(up) /\ ~Empty("echo") /\ ~Room(down)

Unaware == Here /\ reader = "loop" /\ Empty("reader") /\ wsIn = <<>>
Blocked == peer = "deaf" /\ ~Empty("writer") /\ ~Room(wsOut)
Hangs == Jammed \/ Unaware \/ Blocked

(* A handler of the gateway that has returned leaves no handler of the      *)
(* backend behind, though it may have left with messages on their way.      *)
BackendFreed == reader = "done" /\ echo = "loop" ~> echo = "ended"
=============================================================================
