---------------------------- MODULE GatewayProofs ----------------------------
(***************************************************************************)
(* Proofs about Gateway, for any requests, deployments, files and          *)
(* environments, any number of messages and any windows: what its chain of *)
(* middlewares lets through, and what a chat makes of its messages.        *)
(***************************************************************************)
EXTENDS Gateway, SequenceTheorems, TLAPS

\* CORS has let the request through.
PassedCors ==
  /\ \/ AllowedOrigin(deployment.origins, request.origin)
     \/ LetsAllIn(deployment.origins)
  /\ request.method # "OPTIONS"

\* Auth has let the request through.
PassedAuth ==
  deployment.auth /\ request.path \notin deployment.skipPaths
    => request.header = "bearer"

(* Admitted speaks of the steps into a handler and into the chat; a request *)
(* on its way there has passed what is behind it.                           *)
AdmittedInv ==
  /\ at \in {"auth"} \cup Handlers => PassedCors
  /\ at \in Handlers => PassedAuth

\* cors.go: what CORS does not answer its list allows, or there is no list;
\* and it is no preflight.
LEMMA CorsAdmits ==
  ASSUME NEW list, NEW method, NEW origin, Cors(list, method, origin) = 0
  PROVE  /\ AllowedOrigin(list, origin) \/ LetsAllIn(list)
         /\ method # "OPTIONS"
<1>1. Accepts(list, origin) /\ method # "OPTIONS"
  BY DEF Cors
<1>2. CASE list # <<>> /\ list[1] # Wildcard /\ ~Listed(list, origin)
  BY <1>1, <1>2 DEF Accepts, AllowOrigin, OpenToAll, AllowedOrigin
<1> QED BY <1>1, <1>2 DEF AllowedOrigin, LetsAllIn

\* hello_ws.go: what the upgrader accepts its list allows, also an empty one.
LEMMA SocketAdmits ==
  ASSUME NEW list, NEW origin, CheckWebSocketOrigin(list, origin)
  PROVE  AllowedOrigin(list, origin)
BY DEF CheckWebSocketOrigin, AllowedOrigin

\* auth.go: what Auth does not answer skips it or has a token.
LEMMA AuthAdmits ==
  ASSUME NEW enabled, NEW skipPaths, NEW path, NEW header,
         Auth(enabled, skipPaths, path, header) = 0,
         enabled, path \notin skipPaths
  PROVE  header = "bearer"
BY DEF Auth

\* A step that keeps what the middlewares read, and does not enter a handler.
LEMMA Elsewhere ==
  ASSUME AdmittedInv, UNCHANGED <<deployment, request>>,
         at' = at \/ at' \notin {"auth"} \cup Handlers
  PROVE  AdmittedInv'
BY DEF AdmittedInv, PassedCors, PassedAuth

\* A step that answers ends the chain.
LEMMA AnswerKeeps ==
  ASSUME NEW from, NEW code, AdmittedInv, Answer(from, code)
  PROVE  AdmittedInv'
BY Elsewhere DEF Answer, Handlers, context

LEMMA AdmittedInit == Init => AdmittedInv
BY DEF Init, AdmittedInv, Handlers

LEMMA AdmittedNext == AdmittedInv /\ [Next]_vars => AdmittedInv'
<1> SUFFICES ASSUME AdmittedInv, [Next]_vars PROVE AdmittedInv'
  OBVIOUS
<1> USE DEF Handlers
<1>1. CASE MainStep \/ Reconnect \/ Open
  <2>1. UNCHANGED <<deployment, request, at>>
    BY <1>1 DEF MainStep, LoadConfig, NewHelloClient, Run, Main, Reconnect, Open,
                context, call
  <2> QED BY <2>1, Elsewhere
<1>2. CASE Disconnect
  BY <1>2, Elsewhere DEF Disconnect
<1>3. CASE Terminate
  BY <1>3, Elsewhere DEF Terminate
<1>4. CASE Arrive
  BY <1>4 DEF Arrive, AdmittedInv
<1>5. CASE CORS
  <2>1. UNCHANGED <<deployment, request>>
    BY <1>5 DEF CORS, Chain, context
  <2>2. CASE at' = "log"
    BY <2>1, <2>2, Elsewhere
  <2>3. CASE at' # "log"
    <3>1. /\ Cors(deployment.origins, request.method, request.origin) = 0
          /\ at' = "auth"
      BY <1>5, <2>3 DEF CORS, Chain
    <3>2. PassedCors
      BY <3>1, CorsAdmits DEF PassedCors
    <3> QED BY <2>1, <3>1, <3>2 DEF AdmittedInv, PassedCors
  <2> QED BY <2>2, <2>3
<1>6. CASE Authenticate
  <2>1. UNCHANGED <<deployment, request>>
    BY <1>6 DEF Authenticate, Chain, context
  <2>2. CASE at' = "log"
    BY <2>1, <2>2, Elsewhere
  <2>3. CASE at' # "log"
    <3>1. Verdict = 0 /\ at = "auth"
      BY <1>6, <2>3 DEF Authenticate, Chain
    <3>2. PassedAuth
      BY <3>1, AuthAdmits DEF Verdict, PassedAuth
    <3>3. PassedCors
      BY <3>1 DEF AdmittedInv
    <3> QED BY <2>1, <3>2, <3>3 DEF AdmittedInv, PassedCors, PassedAuth
  <2> QED BY <2>2, <2>3
<1>7. CASE Log
  BY <1>7, Elsewhere DEF Log, context
<1>8. CASE Panic
  BY <1>8, Elsewhere DEF Panic, context
<1>9. CASE Health \/ NotFound \/ BindFails \/ CallCancelled \/ CallAnswered
             \/ CallFails \/ UpgradeFails
  BY <1>9, AnswerKeeps DEF Health, NotFound, BindFails, CallCancelled,
                           CallAnswered, CallFails, UpgradeFails
<1>10. CASE Bind
  BY <1>10, Elsewhere DEF Bind, context
<1>11. CASE Upgrade
  BY <1>11 DEF Upgrade, AdmittedInv
<1>12. CASE RelayReturns
  BY <1>12, Elsewhere DEF RelayReturns, context
<1>13. CASE CallerLeaves
  BY <1>13, Elsewhere DEF CallerLeaves, context
<1>14. CASE Chat(Peer) \/ Chat(PeerReceives) \/ Chat(Reader) \/ Chat(Writer)
              \/ Chat(Echo)
  BY <1>14, Elsewhere DEF Chat, context, call
<1>15. CASE UNCHANGED vars
  BY <1>15, Elsewhere DEF vars, context, call
<1> QED
  BY <1>1, <1>2, <1>3, <1>4, <1>5, <1>6, <1>7, <1>8, <1>9, <1>10, <1>11, <1>12,
     <1>13, <1>14, <1>15 DEF Next, Served

\* A step into a handler, or into the chat, is Authenticate of a request that
\* CORS let through, or Upgrade.
LEMMA Admits == AdmittedInv /\ [Next]_vars => EntersLawfully
<1> SUFFICES ASSUME AdmittedInv, [Next]_vars PROVE EntersLawfully
  OBVIOUS
<1> USE DEF Handlers
<1>1. CASE Authenticate
  <2>1. CASE at' = "log"
    BY <2>1 DEF EntersLawfully
  <2>2. CASE at' # "log"
    <3>1. Verdict = 0 /\ at = "auth" /\ at' \in Handlers
      BY <1>1, <2>2 DEF Authenticate, Chain, HandlerOf
    <3>2. PassedCors /\ PassedAuth
      BY <3>1, AuthAdmits DEF AdmittedInv, Verdict, PassedAuth
    <3> QED BY <3>1, <3>2 DEF EntersLawfully, Lawful, PassedCors, PassedAuth
  <2> QED BY <2>1, <2>2
<1>2. CASE Upgrade
  <2>1. at = "chat" /\ AllowedOrigin(deployment.wsOrigins, request.origin)
    BY <1>2, SocketAdmits DEF Upgrade, Upgradable
  <2>2. PassedCors /\ PassedAuth
    BY <2>1 DEF AdmittedInv
  <2>3. at' = "relay"
    BY <1>2 DEF Upgrade
  <2> QED BY <2>1, <2>2, <2>3 DEF EntersLawfully, Lawful, PassedCors, PassedAuth
<1>3. CASE at' = at \/ at' \in {"cors", "auth", "calling", "log", "ended", "panicked"}
  BY <1>3 DEF EntersLawfully
<1>4. CASE CORS
  BY <1>3, <1>4 DEF CORS, Chain
<1>5. CASE Health \/ NotFound \/ BindFails \/ CallCancelled \/ CallAnswered
             \/ CallFails \/ UpgradeFails
  BY <1>3, <1>5 DEF Health, NotFound, BindFails, CallCancelled, CallAnswered,
                    CallFails, UpgradeFails, Answer
<1>6. CASE MainStep \/ Reconnect \/ Open
  BY <1>3, <1>6 DEF MainStep, LoadConfig, NewHelloClient, Run, Main, Reconnect,
                    Open, call
<1>7. CASE Arrive \/ Log \/ Panic \/ Bind \/ RelayReturns \/ CallerLeaves
  BY <1>3, <1>7 DEF Arrive, Log, Panic, Bind, RelayReturns, CallerLeaves
<1>8. CASE Terminate \/ Disconnect
  BY <1>3, <1>8 DEF Terminate, Disconnect
<1>9. CASE Chat(Peer) \/ Chat(PeerReceives) \/ Chat(Reader) \/ Chat(Writer)
             \/ Chat(Echo)
  BY <1>3, <1>9 DEF Chat, call
<1>10. CASE UNCHANGED vars
  BY <1>3, <1>10 DEF vars, call
<1> QED
  BY <1>1, <1>2, <1>4, <1>5, <1>6, <1>7, <1>8, <1>9, <1>10 DEF Next, Served

(* For any lists of origins, any paths that skip authentication and any     *)
(* requests: no handler starts for a request whose origin or token the      *)
(* policy of router.go and auth.go forbids, but for CORS' reading of an     *)
(* empty list, and no socket is opened for an origin that CheckOrigin's     *)
(* list, if only by being empty, forbids.                                   *)
THEOREM AdmitsOnlyThePolicy == Spec => Admitted
<1>1. AdmittedInv /\ [Next]_vars => [EntersLawfully]_vars
  BY Admits
<1> QED BY AdmittedInit, AdmittedNext, <1>1, PTL DEF Spec, Admitted

-----------------------------------------------------------------------------
(* The chat.                                                               *)
USE RelayAssumption DEF RelayAssumption

(* A relay's steps touch one end or the other of the line, or hand a        *)
(* message on.                                                              *)
LEMMA FrameType == Message \subseteq Frame /\ Other \in Frame /\ Frame \subseteq Nat
BY DEF Message, Frame, Other

(* A hand holds nothing or a message; with a leg it fills one place more.   *)
LEMMA HandType ==
  ASSUME RelayTypeOK, NEW g \in Goroutine, NEW S, Message \subseteq S,
         NEW leg \in Seq(S), Room(leg), Len(leg) <= Window
  PROVE  /\ leg \o hand[g] \in Seq(S)
         /\ Len(leg \o hand[g]) <= Window
<1>1. hand[g] \in Seq(S) /\ Len(hand[g]) \in Nat /\ Len(hand[g]) <= 1
  BY SeqMonotonic, LenProperties DEF RelayTypeOK
<1>2. /\ leg \o hand[g] \in Seq(S)
      /\ Len(leg \o hand[g]) = Len(leg) + Len(hand[g])
  BY <1>1, ConcatProperties
<1>3. Len(leg) \in Nat /\ Len(leg) < Window
  BY LenProperties DEF Room
<1> QED BY <1>1, <1>2, <1>3

(* Taking a message into an empty hand, and letting it go.                  *)
LEMMA TakesType ==
  ASSUME RelayTypeOK, NEW g \in Goroutine, NEW k \in Message,
         Empty(g), Takes(g, k)
  PROVE  /\ hand' \in [Goroutine -> Seq(Message)]
         /\ \A h \in Goroutine : Len(hand'[h]) <= 1
         /\ hand'[g] = <<k>>
         /\ \A h \in Goroutine : h # g => hand'[h] = hand[h]
<1>1. hand' = [hand EXCEPT ![g] = <<k>>]
  BY DEF Takes, Empty
<1>2. <<k>> \in Seq(Message) /\ Len(<<k>>) = 1
  OBVIOUS
<1> QED BY <1>1, <1>2 DEF RelayTypeOK

LEMMA DropsType ==
  ASSUME RelayTypeOK, NEW g \in Goroutine, Drops(g)
  PROVE  /\ hand' \in [Goroutine -> Seq(Message)]
         /\ \A h \in Goroutine : Len(hand'[h]) <= 1
         /\ hand'[g] = <<>>
         /\ \A h \in Goroutine : h # g => hand'[h] = hand[h]
<1>1. <<>> \in Seq(Message) /\ Len(<<>>) <= 1
  OBVIOUS
<1> QED BY <1>1 DEF RelayTypeOK, Drops

(* What is left of a leg is a leg.                                          *)
LEMMA TailType ==
  ASSUME NEW S, NEW leg \in Seq(S), leg # <<>>, Len(leg) <= Window
  PROVE  /\ Head(leg) \in S /\ Tail(leg) \in Seq(S)
         /\ Len(Tail(leg)) <= Window
         /\ leg = <<Head(leg)>> \o Tail(leg)
<1>1. /\ Head(leg) \in S /\ Tail(leg) \in Seq(S)
      /\ Len(Tail(leg)) = Len(leg) - 1 /\ Len(leg) \in Nat \ {0}
      /\ Tail(leg) = SubSeq(leg, 2, Len(leg))
  BY HeadTailProperties, EmptySeq, TailIsSubSeq
<1>2. SubSeq(leg, 1, Len(leg)) = <<leg[1]>> \o SubSeq(leg, 2, Len(leg))
  BY <1>1, SubSeqRecursiveFirst
<1>3. leg = <<leg[1]>> \o Tail(leg)
  BY <1>1, <1>2, SubSeqFull
<1>4. Head(leg) = leg[1]
  BY <1>1
<1> QED BY <1>1, <1>3, <1>4

LEMMA AppendType ==
  ASSUME NEW S, NEW leg \in Seq(S), NEW k \in S, Room(leg)
  PROVE  Append(leg, k) \in Seq(S) /\ Len(Append(leg, k)) <= Window
BY AppendProperties, LenProperties DEF Room

(* What the peer does keeps the legs well typed ...                         *)
LEMMA PeerType ==
  ASSUME RelayTypeOK, Peer \/ PeerReceives
  PROVE  RelayTypeOK'
<1> USE FrameType DEF legs, ends, goroutines
<1>0. <<>> \in Seq(Frame) /\ Len(<<>>) <= Window
  OBVIOUS
<1>1. CASE PeerSends
  <2>1. sent + 1 \in Message /\ Room(wsIn) /\ wsIn' = Append(wsIn, sent + 1)
    BY <1>1 DEF PeerSends, RelayTypeOK, Message
  <2>2. wsIn' \in Seq(Frame) /\ Len(wsIn') <= Window
    BY <2>1, AppendType DEF RelayTypeOK
  <2> QED BY <1>1, <2>1, <2>2 DEF PeerSends, RelayTypeOK, Message
<1>2. CASE PeerSendsOther
  <2>1. wsIn' \in Seq(Frame) /\ Len(wsIn') <= Window
    BY <1>2, AppendType DEF PeerSendsOther, RelayTypeOK
  <2> QED BY <1>2, <2>1 DEF PeerSendsOther, RelayTypeOK
<1>3. CASE PeerReceives
  <2>1. /\ Head(wsOut) \in Frame
        /\ wsOut' \in Seq(Frame) /\ Len(wsOut') <= Window
    BY <1>3, TailType DEF PeerReceives, RelayTypeOK
  <2>2. got' \in 0 .. MaxSent
    BY <1>3, <2>1 DEF PeerReceives, RelayTypeOK, Frame, Message, Other
  <2> QED BY <1>3, <2>1, <2>2 DEF PeerReceives, RelayTypeOK
<1>4. CASE PeerStops \/ PeerResumes
  BY <1>4 DEF PeerStops, PeerResumes, RelayTypeOK
<1>5. CASE PeerLeaves
  BY <1>0, <1>5 DEF PeerLeaves, RelayTypeOK
<1> QED BY <1>1, <1>2, <1>3, <1>4, <1>5 DEF Peer

(* ... so does the opening of the stream,                                   *)
LEMMA OpeningType ==
  ASSUME RelayTypeOK, Opening
  PROVE  RelayTypeOK'
<1> USE FrameType DEF legs, ends
<1>1. ASSUME NEW ctxDone \in BOOLEAN, OpenStream(ctxDone)
      PROVE  RelayTypeOK'
  BY <1>1 DEF OpenStream, RelayTypeOK
<1>2. CASE OpenFails
  <2>1. wsOut' \in Seq(Frame) /\ Len(wsOut') <= Window
    BY <1>2, AppendType DEF OpenFails, RelayTypeOK
  <2> QED BY <1>2, <2>1 DEF OpenFails, RelayTypeOK
<1> QED BY <1>1, <1>2 DEF Opening

(* what the reader does,                                                    *)
LEMMA ReaderType ==
  ASSUME RelayTypeOK, Reader
  PROVE  RelayTypeOK'
<1> USE FrameType DEF legs, ends, goroutines, Goroutine
<1>1. CASE ReadMessage
  <2>1. /\ Head(wsIn) \in Frame
        /\ wsIn' \in Seq(Frame) /\ Len(wsIn') <= Window
    BY <1>1, TailType DEF ReadMessage, RelayTypeOK
  <2>2. Head(wsIn) \in Message
    BY <1>1, <2>1 DEF ReadMessage, Frame
  <2>3. /\ hand' \in [Goroutine -> Seq(Message)]
        /\ \A g \in Goroutine : Len(hand'[g]) <= 1
    BY <1>1, <2>2, TakesType DEF ReadMessage
  <2> QED BY <1>1, <2>1, <2>3 DEF ReadMessage, RelayTypeOK
<1>2. CASE ReadFails
  <2>1. wsIn' \in Seq(Frame) /\ Len(wsIn') <= Window
    <3>1. wsIn \in Seq(Frame) /\ Len(wsIn) <= Window
      BY DEF RelayTypeOK
    <3>2. wsIn' = wsIn \/ (wsIn # <<>> /\ wsIn' = Tail(wsIn))
      BY <1>2 DEF ReadFails
    <3> QED BY <3>1, <3>2, TailType
  <2> QED BY <1>2, <2>1 DEF ReadFails, RelayTypeOK
<1>3. CASE SendMessage
  <2>1. up' \in Seq(Message) /\ Len(up') <= Window
    BY <1>3, HandType DEF SendMessage, RelayTypeOK
  <2>2. /\ hand' \in [Goroutine -> Seq(Message)]
        /\ \A g \in Goroutine : Len(hand'[g]) <= 1
    BY <1>3, DropsType DEF SendMessage
  <2> QED BY <1>3, <2>1, <2>2 DEF SendMessage, RelayTypeOK
<1>4. CASE SendFails
  <2>1. /\ hand' \in [Goroutine -> Seq(Message)]
        /\ \A g \in Goroutine : Len(hand'[g]) <= 1
    BY <1>4, DropsType DEF SendFails
  <2> QED BY <1>4, <2>1 DEF SendFails, RelayTypeOK
<1>5. CASE Return
  <2>1. wsOut' \in {wsOut, <<>>}
    BY <1>5 DEF Return
  <2>2. wsOut' \in Seq(Frame) /\ Len(wsOut') <= Window
    <3>1. <<>> \in Seq(Frame) /\ Len(<<>>) <= Window
      OBVIOUS
    <3>2. wsOut \in Seq(Frame) /\ Len(wsOut) <= Window
      BY DEF RelayTypeOK
    <3> QED BY <2>1, <3>1, <3>2
  <2> QED BY <1>5, <2>2 DEF Return, RelayTypeOK
<1> QED BY <1>1, <1>2, <1>3, <1>4, <1>5 DEF Reader

(* the writer,                                                              *)
LEMMA WriterType ==
  ASSUME RelayTypeOK, Writer
  PROVE  RelayTypeOK'
<1> USE FrameType DEF legs, ends, Goroutine
<1>1. CASE Receive
  <2>1. /\ Head(down) \in Message
        /\ down' \in Seq(Message) /\ Len(down') <= Window
    BY <1>1, TailType DEF Receive, RelayTypeOK
  <2>2. /\ hand' \in [Goroutine -> Seq(Message)]
        /\ \A g \in Goroutine : Len(hand'[g]) <= 1
    BY <1>1, <2>1, TakesType DEF Receive
  <2> QED BY <1>1, <2>1, <2>2 DEF Receive, RelayTypeOK
<1>2. CASE ReceiveEnd
  BY <1>2 DEF ReceiveEnd, RelayTypeOK
<1>3. CASE WriteFrame
  <2>1. wsOut' \in Seq(Frame) /\ Len(wsOut') <= Window
    BY <1>3, HandType DEF WriteFrame, RelayTypeOK
  <2>2. /\ hand' \in [Goroutine -> Seq(Message)]
        /\ \A g \in Goroutine : Len(hand'[g]) <= 1
    BY <1>3, DropsType DEF WriteFrame
  <2> QED BY <1>3, <2>1, <2>2 DEF WriteFrame, RelayTypeOK
<1>4. CASE WriteToNobody
  <2>1. /\ hand' \in [Goroutine -> Seq(Message)]
        /\ \A g \in Goroutine : Len(hand'[g]) <= 1
    BY <1>4, DropsType DEF WriteToNobody
  <2> QED BY <1>4, <2>1 DEF WriteToNobody, RelayTypeOK
<1> QED BY <1>1, <1>2, <1>3, <1>4 DEF Writer

(* the backend's handler,                                                   *)
LEMMA EchoType ==
  ASSUME RelayTypeOK, Echo
  PROVE  RelayTypeOK'
<1> USE DEF legs, ends, Goroutine
<1>1. CASE EchoReceives
  <2>1. /\ Head(up) \in Message
        /\ up' \in Seq(Message) /\ Len(up') <= Window
    BY <1>1, TailType DEF EchoReceives, RelayTypeOK
  <2>2. /\ hand' \in [Goroutine -> Seq(Message)]
        /\ \A g \in Goroutine : Len(hand'[g]) <= 1
    BY <1>1, <2>1, TakesType DEF EchoReceives
  <2> QED BY <1>1, <2>1, <2>2 DEF EchoReceives, RelayTypeOK
<1>2. CASE EchoReplies
  <2>1. down' \in Seq(Message) /\ Len(down') <= Window
    BY <1>2, HandType DEF EchoReplies, RelayTypeOK
  <2>2. /\ hand' \in [Goroutine -> Seq(Message)]
        /\ \A g \in Goroutine : Len(hand'[g]) <= 1
    BY <1>2, DropsType DEF EchoReplies
  <2> QED BY <1>2, <2>1, <2>2 DEF EchoReplies, RelayTypeOK
<1>3. CASE EchoEnds
  BY <1>3 DEF EchoEnds, RelayTypeOK
<1>4. CASE EchoAborted
  <2>1. /\ hand' \in [Goroutine -> Seq(Message)]
        /\ \A g \in Goroutine : Len(hand'[g]) <= 1
    BY <1>4, DropsType DEF EchoAborted
  <2> QED BY <1>4, <2>1 DEF EchoAborted, RelayTypeOK
<1> QED BY <1>1, <1>2, <1>3, <1>4 DEF Echo

(* and the loss of the connection.                                          *)
LEMMA SeverType ==
  ASSUME RelayTypeOK, Sever
  PROVE  RelayTypeOK'
<1> USE DEF legs, ends, goroutines
<1>1. PICK n \in 0 .. Len(down) : down' = SubSeq(down, 1, n)
  BY DEF Sever
<1>2. n \in Nat /\ n <= Len(down) /\ Len(down) \in Nat /\ down \in Seq(Message)
  BY LenProperties DEF RelayTypeOK
<1>3. \A i \in 1 .. n : down[i] \in Message
  BY <1>2, ElementOfSeq
<1>4. down' \in Seq(Message) /\ Len(down') = IF 1 <= n THEN n ELSE 0
  BY <1>1, <1>2, <1>3, SubSeqProperties
<1>5. Len(down') <= Window
  BY <1>2, <1>4 DEF RelayTypeOK
<1>6. <<>> \in Seq(Message) /\ Len(<<>>) <= Window
  OBVIOUS
<1> QED BY <1>4, <1>5, <1>6 DEF Sever, RelayTypeOK

LEMMA RelayType ==
  ASSUME RelayTypeOK, RelayNext
  PROVE  RelayTypeOK'
BY PeerType, OpeningType, ReaderType, WriterType, EchoType, SeverType DEF RelayNext

-----------------------------------------------------------------------------
(* How a chat goes on                                                      *)
Idle ==
  /\ peer = "away" /\ sent = 0 /\ got = 0
  /\ wsIn = <<>> /\ up = <<>> /\ down = <<>> /\ wsOut = <<>>
  /\ \A g \in Goroutine : hand[g] = <<>>
  /\ writer = "none" /\ echo = "none"

Whole == peer # "left" /\ ~severed

(* Nothing of a chat is there before it; a stream is lost only once it is   *)
(* there; the reader holds a message only in its loop.  While the peer is there and the stream lives, the goroutines  *)
(* end in the order of the line, each with nothing behind it.               *)
RelayInv ==
  /\ reader = "none" => Idle
  /\ reader = "open" => ~severed
  /\ hand["reader"] # <<>> => reader = "loop"
  /\ Whole /\ echo = "ended" =>
       reader \in {"wait", "done"} /\ up = <<>> /\ hand["echo"] = <<>>
  /\ Whole /\ writer = "done" =>
       echo = "ended" /\ down = <<>> /\ hand["writer"] = <<>>
  /\ Whole /\ reader = "done" => writer = "done"

LEMMA RelayInvariant ==
  ASSUME RelayTypeOK, RelayInv, RelayNext
  PROVE  RelayInv' /\ (reader = "none" => reader' = "none" /\ severed' = severed)
<1> USE DEF RelayInv, Whole, Idle, Goroutine, Empty, legs, ends, goroutines
<1>1. CASE Peer \/ PeerReceives
  <2>1. reader # "none"
    BY <1>1 DEF Peer, PeerReceives, PeerSends, PeerSendsOther, PeerStops,
                PeerResumes, PeerLeaves, Here
  <2>2. UNCHANGED <<up, down, goroutines, severed>> /\ (peer = "left" => peer' = "left")
    BY <1>1 DEF Peer, PeerReceives, PeerSends, PeerSendsOther, PeerStops,
                PeerResumes, PeerLeaves, Here
  <2> QED BY <2>1, <2>2
<1>2. CASE Opening
  BY <1>2 DEF Opening, OpenStream, OpenFails
<1>3. CASE ReadMessage
  <2>1. hand'["echo"] = hand["echo"] /\ hand'["writer"] = hand["writer"]
    BY <1>3 DEF ReadMessage, Takes, RelayTypeOK
  <2> QED BY <1>3, <2>1 DEF ReadMessage
<1>4. CASE ReadFails
  BY <1>4 DEF ReadFails
<1>5. CASE SendMessage
  <2>1. /\ hand'["echo"] = hand["echo"] /\ hand'["writer"] = hand["writer"]
        /\ hand'["reader"] = <<>>
    BY <1>5, DropsType DEF SendMessage
  <2> QED BY <1>5, <2>1 DEF SendMessage, StreamEnded
<1>6. CASE SendFails
  <2>1. /\ hand'["echo"] = hand["echo"] /\ hand'["writer"] = hand["writer"]
        /\ hand'["reader"] = <<>>
    BY <1>6, DropsType DEF SendFails
  <2> QED BY <1>6, <2>1 DEF SendFails, StreamEnded
<1>7. CASE Return
  BY <1>7 DEF Return, WriterDone
<1>8. CASE Receive
  <2>1. hand'["echo"] = hand["echo"] /\ hand'["reader"] = hand["reader"]
    BY <1>8 DEF Receive, Takes, RelayTypeOK
  <2> QED BY <1>8, <2>1 DEF Receive
<1>9. CASE ReceiveEnd
  BY <1>9 DEF ReceiveEnd, StreamEnded
<1>10. CASE WriteFrame
  <2>1. /\ hand'["echo"] = hand["echo"] /\ hand'["reader"] = hand["reader"]
        /\ hand'["writer"] = <<>>
    BY <1>10, DropsType DEF WriteFrame
  <2> QED BY <1>10, <2>1 DEF WriteFrame
<1>11. CASE WriteToNobody
  <2>1. /\ hand'["echo"] = hand["echo"] /\ hand'["reader"] = hand["reader"]
        /\ hand'["writer"] = <<>>
    BY <1>11, DropsType DEF WriteToNobody
  <2> QED BY <1>11, <2>1 DEF WriteToNobody
<1>12. CASE EchoReceives
  <2>1. hand'["writer"] = hand["writer"] /\ hand'["reader"] = hand["reader"]
    BY <1>12 DEF EchoReceives, Takes, RelayTypeOK
  <2> QED BY <1>12, <2>1 DEF EchoReceives
<1>13. CASE EchoReplies
  <2>1. /\ hand'["writer"] = hand["writer"] /\ hand'["reader"] = hand["reader"]
        /\ hand'["echo"] = <<>>
    BY <1>13, DropsType DEF EchoReplies
  <2> QED BY <1>13, <2>1 DEF EchoReplies
<1>14. CASE EchoEnds
  BY <1>14 DEF EchoEnds, SendClosed
<1>15. CASE EchoAborted
  <2>1. /\ hand'["writer"] = hand["writer"] /\ hand'["reader"] = hand["reader"]
        /\ hand'["echo"] = <<>>
    BY <1>15, DropsType DEF EchoAborted
  <2> QED BY <1>15, <2>1 DEF EchoAborted, Cancelled
<1>16. CASE Sever
  BY <1>16 DEF Sever
<1> QED
  BY <1>1, <1>2, <1>3, <1>4, <1>5, <1>6, <1>7, <1>8, <1>9, <1>10, <1>11, <1>12,
     <1>13, <1>14, <1>15, <1>16 DEF RelayNext, Reader, Writer, Echo

-----------------------------------------------------------------------------
(* Lines of messages.                                                      *)
LEMMA OneFrame ==
  ASSUME NEW k \in Frame
  PROVE  <<k>> \in Seq(Frame) /\ Len(<<k>>) = 1 /\ <<k>>[1] = k
OBVIOUS

\* The peer sends the next message, or a frame that is none.
LEMMA LongerLine ==
  ASSUME NEW line \in Seq(Frame), NEW k \in Frame,
         NEW first \in Nat, NEW last \in Nat, first <= last + 1,
         Carries(line, first, last), k \in {last + 1, Other}
  PROVE  Carries(line \o <<k>>, first, IF k = Other THEN last ELSE k)
<1> DEFINE longer == line \o <<k>>
           n == Len(line)
<1>1. /\ longer \in Seq(Frame) /\ Len(longer) = n + 1 /\ n \in Nat
      /\ \A i \in 1 .. n : longer[i] = line[i]
      /\ longer[n + 1] = k
  <2>1. /\ longer \in Seq(Frame) /\ Len(longer) = n + 1
        /\ \A i \in 1 .. n + 1 :
             longer[i] = IF i <= n THEN line[i] ELSE <<k>>[i - n]
    BY OneFrame, ConcatProperties
  <2>2. n \in Nat
    BY LenProperties
  <2>3. n + 1 \in 1 .. n + 1 /\ ~(n + 1 <= n) /\ (n + 1) - n = 1
    BY <2>2
  <2>4. longer[n + 1] = k
    BY <2>1, <2>3
  <2>5. \A i \in 1 .. n : longer[i] = line[i]
    BY <2>1, <2>2
  <2> QED BY <2>1, <2>2, <2>4, <2>5
<1>2. DOMAIN line = 1 .. n /\ DOMAIN longer = 1 .. n + 1
  BY <1>1, LenProperties
<1>3. \A i \in 1 .. n : line[i] \in Nat /\ line[i] \in first .. last \cup {Other}
  <2>1. \A i \in 1 .. n : line[i] \in Frame
    BY ElementOfSeq
  <2> QED BY <1>2, <2>1, FrameType DEF Carries
<1>4. {longer[i] : i \in DOMAIN longer} = {line[i] : i \in DOMAIN line} \cup {k}
  <2>1. \A i \in 1 .. n + 1 : i \in 1 .. n \/ i = n + 1
    BY <1>1
  <2>2. \A i \in 1 .. n : i \in 1 .. n + 1
    BY <1>1
  <2>3. n + 1 \in 1 .. n + 1
    BY <1>1
  <2> QED BY <1>1, <1>2, <2>1, <2>2, <2>3
<1>5. first .. last \cup {last + 1} = first .. last + 1
  OBVIOUS
<1>6. {line[i] : i \in DOMAIN line} \ {Other} = first .. last
  BY DEF Carries
<1>7. {longer[i] : i \in DOMAIN longer} \ {Other}
        = first .. IF k = Other THEN last ELSE k
  <2>1. CASE k = Other
    BY <1>4, <1>6, <2>1
  <2>2. CASE k # Other
    <3>1. {longer[i] : i \in DOMAIN longer} \ {Other} = first .. last \cup {k}
      BY <1>4, <1>6, <2>2
    <3> QED BY <1>5, <2>2, <3>1
  <2> QED BY <2>1, <2>2
<1>8. ASSUME NEW i \in DOMAIN longer, NEW j \in DOMAIN longer,
             i < j, longer[i] # Other, longer[j] # Other
      PROVE  longer[i] < longer[j]
  <2>1. i \in 1 .. n /\ longer[i] = line[i]
    BY <1>1, <1>2, <1>8
  <2>2. CASE j \in 1 .. n
    BY <1>1, <1>2, <1>8, <2>1, <2>2 DEF Carries
  <2>3. CASE j = n + 1
    <3>1. longer[j] = last + 1
      BY <1>1, <1>8, <2>3
    <3>2. longer[i] \in first .. last
      BY <1>3, <1>8, <2>1
    <3> QED BY <3>1, <3>2
  <2> QED BY <1>1, <1>2, <2>2, <2>3
<1> QED BY <1>7, <1>8 DEF Carries

\* A frame that is no message leaves the line, wherever it is.
LEMMA Skipped ==
  ASSUME NEW s \in Seq(Frame), NEW t \in Seq(Frame), NEW first, NEW last,
         Carries(s \o (<<Other>> \o t), first, last)
  PROVE  Carries(s \o t, first, last)
<1> DEFINE long == s \o (<<Other>> \o t)
           short == s \o t
           n == Len(s)
           At(i) == IF i <= n THEN i ELSE i + 1
<1>1. /\ n \in Nat /\ Len(t) \in Nat
      /\ DOMAIN short = 1 .. n + Len(t) /\ DOMAIN long = 1 .. n + Len(t) + 1
  <2>1. /\ <<Other>> \o t \in Seq(Frame) /\ Len(<<Other>> \o t) = 1 + Len(t)
    BY FrameType, OneFrame, ConcatProperties
  <2>2. /\ short \in Seq(Frame) /\ Len(short) = n + Len(t)
        /\ long \in Seq(Frame) /\ Len(long) = n + (1 + Len(t))
    BY <2>1, ConcatProperties
  <2>3. n \in Nat /\ Len(t) \in Nat
    BY LenProperties
  <2>4. n + (1 + Len(t)) = n + Len(t) + 1
    BY <2>3
  <2> QED BY <2>2, <2>3, <2>4, LenProperties
<1>2. \A i \in DOMAIN short : At(i) \in DOMAIN long /\ short[i] = long[At(i)]
  <2> SUFFICES ASSUME NEW i \in 1 .. n + Len(t)
               PROVE  At(i) \in 1 .. n + Len(t) + 1 /\ short[i] = long[At(i)]
    BY <1>1
  <2>1. <<Other>> \o t \in Seq(Frame) /\ Len(<<Other>> \o t) = 1 + Len(t)
    BY FrameType, OneFrame, ConcatProperties
  <2>2. At(i) \in 1 .. n + (1 + Len(t)) /\ At(i) \in 1 .. n + Len(t) + 1
    BY <1>1
  <2>3. /\ short[i] = IF i <= n THEN s[i] ELSE t[i - n]
        /\ long[At(i)] = IF At(i) <= n THEN s[At(i)]
                         ELSE (<<Other>> \o t)[At(i) - n]
    BY <2>1, <2>2, ConcatProperties
  <2>4. CASE i <= n
    BY <2>2, <2>3, <2>4
  <2>5. CASE ~(i <= n)
    <3>1. At(i) = i + 1 /\ ~(At(i) <= n) /\ At(i) - n = (i - n) + 1
      BY <1>1, <2>5
    <3>2. (i - n) + 1 \in 1 .. 1 + Len(t) /\ ~((i - n) + 1 <= 1) /\ (i - n) + 1 - 1 = i - n
      BY <1>1, <2>5
    <3>3. (<<Other>> \o t)[(i - n) + 1] = t[i - n]
      BY <3>2, FrameType, OneFrame, ConcatProperties
    <3> QED BY <2>2, <2>3, <2>5, <3>1, <3>3
  <2> QED BY <2>4, <2>5
<1>3. \A k \in DOMAIN long : long[k] # Other =>
        \E i \in DOMAIN short : short[i] = long[k]
  <2> SUFFICES ASSUME NEW k \in 1 .. n + Len(t) + 1, long[k] # Other
               PROVE  \E i \in 1 .. n + Len(t) : At(i) = k
    BY <1>1, <1>2
  <2>1. CASE k <= n
    BY <1>1, <2>1
  <2>2. CASE k = n + 1
    <3>1. /\ <<Other>> \o t \in Seq(Frame) /\ Len(<<Other>> \o t) = 1 + Len(t)
          /\ (<<Other>> \o t)[1] = Other
      <4>1. /\ <<Other>> \o t \in Seq(Frame) /\ Len(<<Other>> \o t) = 1 + Len(t)
            /\ \A i \in 1 .. 1 + Len(t) : (<<Other>> \o t)[i] =
                 IF i <= 1 THEN <<Other>>[i] ELSE t[i - 1]
        BY FrameType, OneFrame, ConcatProperties
      <4>2. 1 \in 1 .. 1 + Len(t)
        BY <1>1
      <4>3. (<<Other>> \o t)[1] = <<Other>>[1]
        BY <4>1, <4>2
      <4> QED BY <4>1, <4>3
    <3>2. k \in 1 .. n + (1 + Len(t)) /\ ~(k <= n) /\ k - n = 1
      BY <1>1, <2>2
    <3>3. long[k] = (<<Other>> \o t)[k - n]
      BY <3>1, <3>2, ConcatProperties
    <3> QED BY <3>1, <3>2, <3>3
  <2>3. CASE k > n + 1
    <3>1. k - 1 \in 1 .. n + Len(t) /\ ~(k - 1 <= n) /\ (k - 1) + 1 = k
      BY <1>1, <2>3
    <3> QED BY <3>1
  <2> QED BY <1>1, <2>1, <2>2, <2>3
<1>4. {short[i] : i \in DOMAIN short} \ {Other} = {long[i] : i \in DOMAIN long} \ {Other}
  <2> HIDE DEF short, long, At
  <2> QED BY <1>2, <1>3
<1>5. \A i, j \in DOMAIN short : i < j => At(i) < At(j)
  BY <1>1
<1>6. \A i, j \in DOMAIN short :
        i < j /\ short[i] # Other /\ short[j] # Other => short[i] < short[j]
  <2> HIDE DEF short, At
  <2> QED BY <1>2, <1>5 DEF Carries
<1> QED BY <1>4, <1>6 DEF Carries

\* The first leaves the line: it is the next message, or none.
LEMMA FirstLeaves ==
  ASSUME NEW k \in Frame, NEW t \in Seq(Frame), NEW first \in Nat, NEW last \in Nat,
         Carries(<<k>> \o t, first, last)
  PROVE  /\ Carries(t, IF k = Other THEN first ELSE k + 1, last)
         /\ k # Other => k \in first .. last
<1> DEFINE line == <<k>> \o t
<1>1. /\ Len(t) \in Nat /\ DOMAIN t = 1 .. Len(t) /\ DOMAIN line = 1 .. Len(t) + 1
      /\ line[1] = k /\ \A i \in 1 .. Len(t) : line[i + 1] = t[i]
  <2>1. Len(t) \in Nat /\ DOMAIN t = 1 .. Len(t)
    BY LenProperties
  <2>2. /\ line \in Seq(Frame) /\ Len(line) = 1 + Len(t)
        /\ \A i \in 1 .. 1 + Len(t) : line[i] = IF i <= 1 THEN <<k>>[i] ELSE t[i - 1]
    BY OneFrame, ConcatProperties
  <2>3. DOMAIN line = 1 .. Len(t) + 1
    BY <2>1, <2>2, LenProperties
  <2>4. line[1] = k
    BY <2>1, <2>2, OneFrame
  <2>5. \A i \in 1 .. Len(t) : /\ i + 1 \in 1 .. 1 + Len(t) /\ ~(i + 1 <= 1)
                               /\ (i + 1) - 1 = i
    BY <2>1
  <2>6. \A i \in 1 .. Len(t) : line[i + 1] = t[i]
    BY <2>2, <2>5
  <2> QED BY <2>1, <2>3, <2>4, <2>6
<1>2. \A i \in 1 .. Len(t) : t[i] \in Frame
  BY ElementOfSeq
<1>3. {line[i] : i \in DOMAIN line} = {t[i] : i \in DOMAIN t} \cup {k}
  <2>1. \A i \in DOMAIN line : i = 1 \/ (i - 1 \in 1 .. Len(t) /\ (i - 1) + 1 = i)
    BY <1>1
  <2>2. \A i \in 1 .. Len(t) : i + 1 \in DOMAIN line
    BY <1>1
  <2>3. 1 \in DOMAIN line
    BY <1>1
  <2> HIDE DEF line
  <2>4. \A i \in DOMAIN line : line[i] = k \/ \E j \in DOMAIN t : line[i] = t[j]
    BY <1>1, <2>1
  <2> QED BY <1>1, <2>2, <2>3, <2>4
<1> HIDE DEF line
<1>4. {line[i] : i \in DOMAIN line} \ {Other} = first .. last
  BY DEF Carries, line
<1>5. \A i, j \in DOMAIN t :
        i < j /\ t[i] # Other /\ t[j] # Other => t[i] < t[j]
  <2>1. \A i, j \in DOMAIN t : i < j =>
          /\ i + 1 \in DOMAIN line /\ j + 1 \in DOMAIN line /\ i + 1 < j + 1
    BY <1>1
  <2> QED BY <1>1, <2>1 DEF Carries, line
<1>6. k # Other => \A i \in DOMAIN t : t[i] # Other => k < t[i]
  <2>1. \A i \in DOMAIN t : i + 1 \in DOMAIN line /\ 1 < i + 1
    BY <1>1
  <2>2. 1 \in DOMAIN line
    BY <1>1
  <2> QED BY <1>1, <2>1, <2>2 DEF Carries, line
<1>7. CASE k = Other
  BY <1>3, <1>4, <1>5, <1>7 DEF Carries
<1>8. CASE k # Other
  <2>1. k \in first .. last
    BY <1>3, <1>4, <1>8
  <2>2. {t[i] : i \in DOMAIN t} \ {Other} = k + 1 .. last
    <3>1. \A v \in {t[i] : i \in DOMAIN t} \ {Other} : v \in first .. last /\ k < v
      BY <1>3, <1>4, <1>6, <1>8
    <3>2. \A v \in k + 1 .. last : v \in first .. last /\ v # k
      BY <2>1
    <3>3. \A v \in k + 1 .. last : v \in {t[i] : i \in DOMAIN t} \ {Other}
      BY <1>3, <1>4, <3>2
    <3>4. \A v \in first .. last : k < v => v \in k + 1 .. last
      BY <2>1
    <3> QED BY <3>1, <3>3, <3>4
  <2> QED BY <1>5, <1>8, <2>1, <2>2 DEF Carries
<1> QED BY <1>7, <1>8

-----------------------------------------------------------------------------
(* The line, from each of its stations on.  Concatenation has a name here,  *)
(* so that the provers reason from its laws and not from its definition.    *)
Cat(s, t) == s \o t

FromReader == Cat(hand["reader"], wsIn)
FromUp == Cat(up, FromReader)
FromEcho == Cat(hand["echo"], FromUp)
FromDown == Cat(down, FromEcho)
FromWriter == Cat(hand["writer"], FromDown)

\* What is before the reader's frames.
Before ==
  wsOut \o hand["writer"] \o down \o hand["echo"] \o up \o hand["reader"]

LEMMA CatLaws ==
  ASSUME NEW s \in Seq(Frame), NEW t \in Seq(Frame), NEW u \in Seq(Frame)
  PROVE  /\ Cat(s, t) \in Seq(Frame)
         /\ Cat(Cat(s, t), u) = Cat(s, Cat(t, u))
         /\ Cat(<<>>, s) = s
<1>1. (s \o t) \o u = s \o (t \o u)
  BY ConcatAssociative
<1>2. s \o t \in Seq(Frame) /\ <<>> \o s = s
  BY ConcatProperties, ConcatEmptySeq
<1> QED BY <1>1, <1>2 DEF Cat

LEMMA StationType ==
  ASSUME RelayTypeOK
  PROVE  /\ wsIn \in Seq(Frame) /\ up \in Seq(Frame)
         /\ down \in Seq(Frame) /\ wsOut \in Seq(Frame)
         /\ \A g \in Goroutine : hand[g] \in Seq(Frame)
         /\ FromReader \in Seq(Frame) /\ FromUp \in Seq(Frame)
         /\ FromEcho \in Seq(Frame) /\ FromDown \in Seq(Frame)
         /\ FromWriter \in Seq(Frame)
         /\ Before \in Seq(Frame)
         /\ Line = Before \o wsIn /\ Line = Cat(wsOut, FromWriter)
<1>1. /\ wsIn \in Seq(Frame) /\ up \in Seq(Frame)
      /\ down \in Seq(Frame) /\ wsOut \in Seq(Frame)
      /\ \A g \in Goroutine : hand[g] \in Seq(Frame)
  BY FrameType, SeqMonotonic DEF RelayTypeOK
<1>2. \A s, t \in Seq(Frame) : Cat(s, t) \in Seq(Frame)
  BY CatLaws
<1>3. FromReader \in Seq(Frame)
  BY <1>1, <1>2 DEF FromReader, Goroutine
<1>4. FromUp \in Seq(Frame)
  BY <1>1, <1>2, <1>3 DEF FromUp
<1>5. FromEcho \in Seq(Frame)
  BY <1>1, <1>2, <1>4 DEF FromEcho, Goroutine
<1>6. FromDown \in Seq(Frame)
  BY <1>1, <1>2, <1>5 DEF FromDown
<1>7. FromWriter \in Seq(Frame)
  BY <1>1, <1>2, <1>6 DEF FromWriter, Goroutine
<1>8. Line = Cat(wsOut, FromWriter)
  <2>1. /\ hand["writer"] \in Seq(Frame) /\ hand["echo"] \in Seq(Frame)
        /\ hand["reader"] \in Seq(Frame)
    BY <1>1 DEF Goroutine
  <2>2. PICK b, d, f \in Seq(Frame) :
          b = hand["writer"] /\ d = hand["echo"] /\ f = hand["reader"]
    BY <2>1
  <2> DEFINE ab == Cat(wsOut, b)
             abc == Cat(ab, down)
             abcd == Cat(abc, d)
             abcde == Cat(abcd, up)
             fg == Cat(f, wsIn)
             efg == Cat(up, fg)
             defg == Cat(d, efg)
             cdefg == Cat(down, defg)
  <2>3. Line = Cat(Cat(abcde, f), wsIn)
    BY <2>2 DEF Line, Cat
  <2>4. ab \in Seq(Frame)
    BY <1>1, CatLaws
  <2> HIDE DEF ab
  <2>5. abc \in Seq(Frame)
    BY <1>1, <2>4, CatLaws
  <2> HIDE DEF abc
  <2>6. abcd \in Seq(Frame)
    BY <2>5, CatLaws
  <2> HIDE DEF abcd
  <2>7. abcde \in Seq(Frame)
    BY <1>1, <2>6, CatLaws
  <2> HIDE DEF abcde
  <2>8. fg \in Seq(Frame) /\ Cat(Cat(abcde, f), wsIn) = Cat(abcde, fg)
    BY <1>1, <2>7, CatLaws
  <2> HIDE DEF fg
  <2>9. efg \in Seq(Frame) /\ Cat(abcde, fg) = Cat(abcd, efg)
    BY <1>1, <2>6, <2>8, CatLaws DEF abcde
  <2> HIDE DEF efg
  <2>10. defg \in Seq(Frame) /\ Cat(abcd, efg) = Cat(abc, defg)
    BY <2>5, <2>9, CatLaws DEF abcd
  <2> HIDE DEF defg
  <2>11. cdefg \in Seq(Frame) /\ Cat(abc, defg) = Cat(ab, cdefg)
    BY <1>1, <2>4, <2>10, CatLaws DEF abc
  <2> HIDE DEF cdefg
  <2>12. Cat(ab, cdefg) = Cat(wsOut, Cat(b, cdefg))
    BY <1>1, <2>11, CatLaws DEF ab
  <2>13. Cat(b, cdefg) = FromWriter
    BY <2>2 DEF cdefg, defg, efg, fg, FromWriter, FromDown, FromEcho, FromUp, FromReader
  <2> QED BY <2>3, <2>8, <2>9, <2>10, <2>11, <2>12, <2>13
<1>9. Line = Before \o wsIn
  BY DEF Line, Before
<1>10. Before \in Seq(Frame)
  <2> DEFINE toWriter == Cat(wsOut, hand["writer"])
             toDown == Cat(toWriter, down)
             toEcho == Cat(toDown, hand["echo"])
             toUp == Cat(toEcho, up)
  <2>1. Before = Cat(toUp, hand["reader"])
    BY DEF Before, Cat
  <2>2. toWriter \in Seq(Frame)
    BY <1>1, <1>2 DEF Goroutine
  <2> HIDE DEF toWriter
  <2>3. toDown \in Seq(Frame)
    BY <1>1, <1>2, <2>2
  <2> HIDE DEF toDown
  <2>4. toEcho \in Seq(Frame)
    BY <1>1, <1>2, <2>3 DEF Goroutine
  <2> HIDE DEF toEcho
  <2>5. toUp \in Seq(Frame)
    BY <1>1, <1>2, <2>4
  <2> HIDE DEF toUp
  <2>6. Cat(toUp, hand["reader"]) \in Seq(Frame)
    BY <1>1, <1>2, <2>5 DEF Goroutine
  <2> QED BY <2>1, <2>6
<1> QED BY <1>1, <1>3, <1>4, <1>5, <1>6, <1>7, <1>8, <1>9, <1>10

\* A hand that is empty takes the first of a leg; a leg takes what a hand has.
LEMMA TakeFirst ==
  ASSUME NEW leg \in Seq(Frame), leg # <<>>, Len(leg) <= Window,
         NEW rest \in Seq(Frame)
  PROVE  /\ Cat(<<>>, Cat(leg, rest)) = Cat(<<Head(leg)>>, Cat(Tail(leg), rest))
         /\ Cat(<<>>, leg) = Cat(<<Head(leg)>>, Tail(leg))
<1>1. /\ leg = <<Head(leg)>> \o Tail(leg) /\ Tail(leg) \in Seq(Frame)
      /\ <<Head(leg)>> \in Seq(Frame)
  BY TailType
<1>2. leg = Cat(<<Head(leg)>>, Tail(leg))
  BY <1>1 DEF Cat
<1>3. Cat(Cat(<<Head(leg)>>, Tail(leg)), rest) = Cat(<<Head(leg)>>, Cat(Tail(leg), rest))
  <2>1. \A s, t \in Seq(Frame) : Cat(Cat(s, t), rest) = Cat(s, Cat(t, rest))
    BY CatLaws
  <2>2. PICK s \in Seq(Frame), t \in Seq(Frame) : s = <<Head(leg)>> /\ t = Tail(leg)
    BY <1>1
  <2>3. Cat(Cat(s, t), rest) = Cat(s, Cat(t, rest))
    BY <2>1
  <2> QED BY <2>2, <2>3
<1>4. Cat(leg, rest) \in Seq(Frame)
  BY CatLaws
<1>5. Cat(<<>>, Cat(leg, rest)) = Cat(leg, rest) /\ Cat(<<>>, leg) = leg
  BY <1>4, CatLaws
<1> QED BY <1>2, <1>3, <1>5

LEMMA GiveAll ==
  ASSUME NEW leg \in Seq(Frame), NEW held \in Seq(Frame), NEW rest \in Seq(Frame)
  PROVE  Cat(leg, Cat(held, rest)) = Cat(leg \o held, Cat(<<>>, rest))
<1>1. Cat(leg, Cat(held, rest)) = Cat(Cat(leg, held), rest) /\ Cat(<<>>, rest) = rest
  BY CatLaws
<1> QED BY <1>1 DEF Cat

LEMMA TwoWays ==
  RelayTypeOK => Line = Cat(wsOut, FromWriter) /\ Line = Before \o wsIn
BY StationType

LEMMA PrimedLine ==
  (RelayTypeOK => Line = Cat(wsOut, FromWriter) /\ Line = Before \o wsIn)'
BY TwoWays, PTL

(* What goes from hand to hand stays in its place of the line.              *)
LEMMA HandedOn ==
  ASSUME RelayTypeOK, RelayTypeOK',
         \/ ReadMessage \/ SendMessage \/ EchoReceives \/ EchoReplies
         \/ Receive \/ WriteFrame
  PROVE  Line' = Line
<1> USE StationType DEF Goroutine
<1>0. SUFFICES Cat(wsOut', FromWriter') = Cat(wsOut, FromWriter)
  <2>1. Line = Cat(wsOut, FromWriter)
    OBVIOUS
  <2>2. Line' = Cat(wsOut', FromWriter')
    BY PrimedLine
  <2> QED BY <2>1, <2>2
<1>1. CASE ReadMessage
  <2>1. /\ UNCHANGED <<up, down, wsOut>> /\ wsIn # <<>> /\ wsIn' = Tail(wsIn)
        /\ hand["reader"] = <<>> /\ Head(wsIn) \in Message
    <3>1. Head(wsIn) \in Frame /\ Head(wsIn) # Other
      BY <1>1, TailType DEF ReadMessage, RelayTypeOK
    <3> QED BY <1>1, <3>1 DEF ReadMessage, Empty, Frame
  <2>2. /\ hand'["reader"] = <<Head(wsIn)>>
        /\ hand'["echo"] = hand["echo"] /\ hand'["writer"] = hand["writer"]
    BY <1>1, <2>1, TakesType DEF ReadMessage
  <2>3. Cat(<<>>, wsIn) = Cat(<<Head(wsIn)>>, Tail(wsIn))
    BY <2>1, TakeFirst DEF RelayTypeOK
  <2>4. FromReader' = FromReader
    BY <2>1, <2>2, <2>3 DEF FromReader
  <2> QED BY <2>1, <2>2, <2>4 DEF FromWriter, FromDown, FromEcho, FromUp
<1>2. CASE SendMessage
  <2>1. UNCHANGED <<wsIn, down, wsOut>> /\ up' = up \o hand["reader"]
    BY <1>2 DEF SendMessage
  <2>2. /\ hand'["reader"] = <<>>
        /\ hand'["echo"] = hand["echo"] /\ hand'["writer"] = hand["writer"]
    BY <1>2, DropsType DEF SendMessage
  <2>3. Cat(up, Cat(hand["reader"], wsIn)) = Cat(up \o hand["reader"], Cat(<<>>, wsIn))
    BY GiveAll
  <2>4. FromUp' = FromUp
    BY <2>1, <2>2, <2>3 DEF FromUp, FromReader
  <2> QED BY <2>1, <2>2, <2>4 DEF FromWriter, FromDown, FromEcho
<1>3. CASE EchoReceives
  <2>1. /\ UNCHANGED <<wsIn, down, wsOut>> /\ up # <<>> /\ up' = Tail(up)
        /\ hand["echo"] = <<>> /\ Head(up) \in Message
    BY <1>3, TailType DEF EchoReceives, Empty, RelayTypeOK
  <2>2. /\ hand'["echo"] = <<Head(up)>>
        /\ hand'["reader"] = hand["reader"] /\ hand'["writer"] = hand["writer"]
    BY <1>3, <2>1, TakesType DEF EchoReceives
  <2>3. Cat(<<>>, Cat(up, FromReader)) = Cat(<<Head(up)>>, Cat(Tail(up), FromReader))
    BY <2>1, TakeFirst DEF RelayTypeOK
  <2>4. FromReader' = FromReader
    BY <2>1, <2>2 DEF FromReader
  <2>5. FromEcho' = FromEcho
    BY <2>1, <2>2, <2>3, <2>4 DEF FromEcho, FromUp
  <2> QED BY <2>1, <2>2, <2>5 DEF FromWriter, FromDown
<1>4. CASE EchoReplies
  <2>1. UNCHANGED <<wsIn, up, wsOut>> /\ down' = down \o hand["echo"]
    BY <1>4 DEF EchoReplies
  <2>2. /\ hand'["echo"] = <<>>
        /\ hand'["reader"] = hand["reader"] /\ hand'["writer"] = hand["writer"]
    BY <1>4, DropsType DEF EchoReplies
  <2>3. Cat(down, Cat(hand["echo"], FromUp)) = Cat(down \o hand["echo"], Cat(<<>>, FromUp))
    BY GiveAll
  <2>4. FromUp' = FromUp
    BY <2>1, <2>2 DEF FromUp, FromReader
  <2>5. FromDown' = FromDown
    BY <2>1, <2>2, <2>3, <2>4 DEF FromDown, FromEcho
  <2> QED BY <2>1, <2>2, <2>5 DEF FromWriter
<1>5. CASE Receive
  <2>1. /\ UNCHANGED <<wsIn, up, wsOut>> /\ down # <<>> /\ down' = Tail(down)
        /\ hand["writer"] = <<>> /\ Head(down) \in Message
    BY <1>5, TailType DEF Receive, Empty, RelayTypeOK
  <2>2. /\ hand'["writer"] = <<Head(down)>>
        /\ hand'["reader"] = hand["reader"] /\ hand'["echo"] = hand["echo"]
    BY <1>5, <2>1, TakesType DEF Receive
  <2>3. Cat(<<>>, Cat(down, FromEcho)) = Cat(<<Head(down)>>, Cat(Tail(down), FromEcho))
    BY <2>1, TakeFirst DEF RelayTypeOK
  <2>4. FromEcho' = FromEcho
    BY <2>1, <2>2 DEF FromEcho, FromUp, FromReader
  <2>5. FromWriter' = FromWriter
    BY <2>1, <2>2, <2>3, <2>4 DEF FromWriter, FromDown
  <2> QED BY <2>1, <2>5
<1>6. CASE WriteFrame
  <2>1. UNCHANGED <<wsIn, up, down>> /\ wsOut' = wsOut \o hand["writer"]
    BY <1>6 DEF WriteFrame
  <2>2. /\ hand'["writer"] = <<>>
        /\ hand'["reader"] = hand["reader"] /\ hand'["echo"] = hand["echo"]
    BY <1>6, DropsType DEF WriteFrame
  <2>3. Cat(wsOut, Cat(hand["writer"], FromDown))
          = Cat(wsOut \o hand["writer"], Cat(<<>>, FromDown))
    BY GiveAll
  <2>4. FromDown' = FromDown
    BY <2>1, <2>2 DEF FromDown, FromEcho, FromUp, FromReader
  <2> QED BY <2>1, <2>2, <2>3, <2>4 DEF FromWriter
<1> QED BY <1>1, <1>2, <1>3, <1>4, <1>5, <1>6

(* NothingLost, and that no acknowledgement outruns what was sent.          *)
LineInv ==
  Whole /\ ~Reset => got <= sent /\ Carries(Line, got + 1, sent)

\* What is lost stays lost.
LEMMA WholeBefore ==
  ASSUME RelayInv, RelayNext, Whole', ~Reset'
  PROVE  Whole /\ ~Reset
<1> USE DEF Whole, Reset, legs, ends, goroutines
<1>1. CASE Peer \/ PeerReceives
  BY <1>1 DEF Peer, PeerReceives, PeerSends, PeerSendsOther, PeerStops,
              PeerResumes, PeerLeaves, Here
<1>2. CASE Reader
  <2>1. UNCHANGED <<peer, severed>>
    BY <1>2 DEF Reader, ReadMessage, ReadFails, SendMessage,
                SendFails, Return
  <2>2. reader = "done" => UNCHANGED <<reader, wsIn>>
    <3>1. CASE SendMessage
      BY <3>1 DEF SendMessage
    <3>2. CASE SendFails
      BY <3>2 DEF SendFails, RelayInv, Empty
    <3> QED BY <1>2, <3>1, <3>2
         DEF Reader, ReadMessage, ReadFails, Return
  <2> QED BY <2>1, <2>2
<1>3. CASE Writer
  BY <1>3 DEF Writer, Receive, ReceiveEnd, WriteFrame, WriteToNobody
<1>4. CASE Echo \/ Sever
  BY <1>4 DEF Echo, EchoReceives, EchoReplies, EchoEnds, EchoAborted, Sever
<1>5. CASE Opening
  BY <1>5 DEF Opening, OpenStream, OpenFails, RelayInv
<1> QED BY <1>1, <1>2, <1>3, <1>4, <1>5 DEF RelayNext

(* At the peer's end: a message joins the line, a frame that is none joins  *)
(* it or leaves it, an acknowledgement leaves it.                           *)
LEMMA PeerLine ==
  ASSUME RelayTypeOK, RelayTypeOK', Carries(Line, got + 1, sent), got <= sent,
         PeerSends \/ PeerSendsOther
  PROVE  got' <= sent' /\ Carries(Line', got' + 1, sent')
<1>1. PICK k \in Frame : /\ k \in {sent + 1, Other}
                         /\ wsIn' = Append(wsIn, k) /\ got' = got
                         /\ sent' = IF k = Other THEN sent ELSE k
                         /\ UNCHANGED <<up, down, wsOut, hand>>
  <2>1. CASE PeerSends
    <3>1. sent + 1 \in Frame /\ sent + 1 # Other
      BY <2>1 DEF PeerSends, RelayTypeOK, Frame, Message, Other
    <3> QED BY <2>1, <3>1 DEF PeerSends, goroutines
  <2>2. CASE PeerSendsOther
    BY <2>2, FrameType DEF PeerSendsOther, goroutines, ends
  <2> QED BY <2>1, <2>2
<1>2. got \in Nat /\ sent \in Nat /\ got + 1 \in Nat /\ got + 1 <= sent + 1
  BY DEF RelayTypeOK
<1>3. Line' = Line \o <<k>>
  <2>1. Before' = Before
    BY <1>1 DEF Before
  <2>2. Line = Before \o wsIn /\ Line' = Before \o wsIn'
    BY <2>1, StationType, PrimedLine
  <2>3. wsIn \in Seq(Frame) /\ Before \in Seq(Frame) /\ <<k>> \in Seq(Frame)
    BY StationType, OneFrame
  <2>4. wsIn' = wsIn \o <<k>>
    BY <1>1, <2>3, AppendIsConcat
  <2>5. (Before \o wsIn) \o <<k>> = Before \o (wsIn \o <<k>>)
    BY <2>3, ConcatAssociative
  <2> QED BY <2>2, <2>4, <2>5
<1>4. Line \in Seq(Frame)
  <2>1. Line = Before \o wsIn /\ wsIn \in Seq(Frame) /\ Before \in Seq(Frame)
    BY StationType
  <2> QED BY <2>1, ConcatProperties
<1>5. Carries(Line \o <<k>>, got + 1, IF k = Other THEN sent ELSE k)
  BY <1>1, <1>2, <1>4, LongerLine
<1> QED BY <1>1, <1>2, <1>3, <1>5

LEMMA ReceivedLine ==
  ASSUME RelayTypeOK, RelayTypeOK', Carries(Line, got + 1, sent), got <= sent,
         PeerReceives
  PROVE  got' <= sent' /\ Carries(Line', got' + 1, sent')
<1>1. /\ wsOut # <<>> /\ wsOut' = Tail(wsOut)
      /\ got' = IF Head(wsOut) = Other THEN got ELSE Head(wsOut)
      /\ UNCHANGED <<sent, wsIn, up, down, hand>>
  BY DEF PeerReceives, goroutines
<1>2. /\ wsOut \in Seq(Frame) /\ FromWriter \in Seq(Frame)
      /\ Line = Cat(wsOut, FromWriter)
  BY StationType
<1>3. /\ Head(wsOut) \in Frame /\ Tail(wsOut) \in Seq(Frame)
      /\ wsOut = <<Head(wsOut)>> \o Tail(wsOut)
  BY <1>1, <1>2, TailType DEF RelayTypeOK
<1>4. PICK k \in Frame, t \in Seq(Frame) : k = Head(wsOut) /\ t = Tail(wsOut)
  BY <1>3
<1>5. PICK w \in Seq(Frame) : w = FromWriter
  BY <1>2
<1>6. FromWriter' = w
  BY <1>1, <1>5 DEF FromWriter, FromDown, FromEcho, FromUp, FromReader
<1>7. Line' = t \o w
  BY <1>1, <1>4, <1>6, PrimedLine DEF Cat
<1>8. Line = <<k>> \o (t \o w)
  <2>1. Line = (<<k>> \o t) \o w
    BY <1>2, <1>3, <1>4, <1>5 DEF Cat
  <2>2. (<<k>> \o t) \o w = <<k>> \o (t \o w)
    BY OneFrame, ConcatAssociative
  <2> QED BY <2>1, <2>2
<1>9. t \o w \in Seq(Frame)
  BY ConcatProperties
<1>10. got \in Nat /\ sent \in Nat /\ got + 1 \in Nat
  BY DEF RelayTypeOK
<1>11. /\ Carries(t \o w, IF k = Other THEN got + 1 ELSE k + 1, sent)
       /\ k # Other => k \in got + 1 .. sent
  <2>1. PICK rest \in Seq(Frame) : rest = t \o w
    BY <1>9
  <2>2. Carries(<<k>> \o rest, got + 1, sent)
    BY <1>8, <2>1
  <2>3. /\ Carries(rest, IF k = Other THEN got + 1 ELSE k + 1, sent)
        /\ k # Other => k \in got + 1 .. sent
    BY <1>10, <2>2, FirstLeaves
  <2> QED BY <2>1, <2>3
<1>12. CASE k = Other
  BY <1>1, <1>4, <1>7, <1>11, <1>12
<1>13. CASE k # Other
  BY <1>1, <1>4, <1>7, <1>10, <1>11, <1>13
<1> QED BY <1>12, <1>13

LEMMA SkippedLine ==
  ASSUME RelayTypeOK, RelayTypeOK', Carries(Line, got + 1, sent), ReadFails,
         peer # "left"
  PROVE  Carries(Line', got + 1, sent)
<1>1. /\ wsIn # <<>> /\ Head(wsIn) = Other /\ wsIn' = Tail(wsIn)
      /\ UNCHANGED <<up, down, wsOut, hand>>
  BY DEF ReadFails
<1>2. wsIn = <<Other>> \o Tail(wsIn) /\ Tail(wsIn) \in Seq(Frame)
  BY <1>1, StationType, TailType DEF RelayTypeOK
<1>3. Before' = Before
  BY <1>1 DEF Before
<1>4. PICK s \in Seq(Frame), t \in Seq(Frame) : s = Before /\ t = Tail(wsIn)
  BY <1>2, StationType
<1>5. Line = s \o (<<Other>> \o t)
  BY <1>2, <1>4, StationType
<1>6. Line' = s \o t
  BY <1>1, <1>3, <1>4, PrimedLine
<1>7. Carries(s \o t, got + 1, sent)
  BY <1>5, Skipped
<1> QED BY <1>6, <1>7

(* NothingLost is kept: under Whole neither Send nor the backend fails, and *)
(* what TCP drops when the handler returns it drops with Reset.             *)
LEMMA LineNext ==
  ASSUME RelayTypeOK, RelayTypeOK', RelayInv, LineInv, RelayNext
  PROVE  LineInv'
<1> SUFFICES ASSUME Whole', ~Reset'
             PROVE  got' <= sent' /\ Carries(Line', got' + 1, sent')
  BY DEF LineInv
<1> USE DEF legs, ends, goroutines
<1>1. Whole /\ ~Reset /\ got <= sent /\ Carries(Line, got + 1, sent)
  BY WholeBefore DEF LineInv
<1>2. CASE UNCHANGED <<sent, got, legs, hand>>
  <2>1. Line' = Line
    BY <1>2 DEF Line
  <2> QED BY <1>1, <1>2, <2>1
<1>3. CASE PeerSends \/ PeerSendsOther
  BY <1>1, <1>3, PeerLine
<1>4. CASE PeerReceives
  BY <1>1, <1>4, ReceivedLine
<1>5. CASE ReadFails
  <2>1. UNCHANGED <<sent, got>> /\ peer # "left"
    BY <1>1, <1>5 DEF ReadFails, Whole
  <2> QED BY <1>1, <1>5, <2>1, SkippedLine
<1>6. CASE ReadMessage \/ SendMessage \/ EchoReceives \/ EchoReplies
             \/ Receive \/ WriteFrame
  <2>1. Line' = Line
    BY <1>6, HandedOn
  <2>2. UNCHANGED <<sent, got>>
    BY <1>6 DEF ReadMessage, SendMessage, EchoReceives, EchoReplies, Receive,
                WriteFrame
  <2> QED BY <1>1, <2>1, <2>2
<1>7. CASE Return
  <2>1. wsIn' = wsIn /\ (wsOut' = wsOut \/ wsIn # <<>>) /\ reader' = "done"
    BY <1>7 DEF Return
  <2>2. wsOut' = wsOut
    BY <2>1 DEF Reset
  <2> QED BY <1>2, <1>7, <2>2 DEF Return
<1>8. CASE PeerLeaves \/ OpenFails \/ WriteToNobody \/ Sever
  BY <1>1, <1>8 DEF PeerLeaves, OpenFails, WriteToNobody, Sever, Whole
<1>9. CASE SendFails
  BY <1>1, <1>9 DEF SendFails, StreamEnded, Empty, RelayInv, Whole
<1>10. CASE EchoAborted
  <2>1. reader = "done" /\ writer = "done"
    BY <1>1, <1>10 DEF EchoAborted, Cancelled, RelayInv, Whole
  <2> QED BY <1>1, <1>10, <2>1 DEF EchoAborted, RelayInv, Whole
<1>11. CASE PeerStops \/ PeerResumes \/ ReceiveEnd \/ EchoEnds
  BY <1>2, <1>11 DEF PeerStops, PeerResumes, ReceiveEnd, EchoEnds
<1>12. CASE \E ctxDone \in BOOLEAN : OpenStream(ctxDone)
  BY <1>2, <1>12 DEF OpenStream
<1> QED
  BY <1>3, <1>4, <1>5, <1>6, <1>7, <1>8, <1>9, <1>10, <1>11, <1>12
     DEF RelayNext, Opening, Peer, Reader, Writer, Echo

-----------------------------------------------------------------------------
(* The gateway: until a request is upgraded there is no chat, and its       *)
(* handlers read a request that has arrived.                                *)
Unserved == {"none", "cors", "auth", "calling"} \cup Handlers

GatewayInv ==
  /\ TypeOK
  /\ at \notin {"none", "ended"} => request \in Request
  /\ at \in Unserved => reader = "none" /\ ~severed
  /\ RelayInv
  /\ LineInv

\* What of a gateway is neither the relay nor what is below it.
CallTypeOK ==
  /\ gateway \in {"load", "dial", "run", "serving", "ended"}
  /\ config \in Configs \cup {NoFile}
  /\ deployment \in Deployment /\ linked \in BOOLEAN
  /\ request \in Request \cup {NoRequest} /\ caller \in BOOLEAN
  /\ at \in {"none", "cors", "auth", "calling", "relay", "log", "ended", "panicked"}
              \cup Handlers
  /\ status \in {0, 101, 200, 204, 400, 401, 403, 404, 500}
  /\ logged \in BOOLEAN

\* With the relay as it was, the rest of the invariant is about the call.
LEMMA RelayUnchanged ==
  ASSUME GatewayInv, UNCHANGED relayVars
  PROVE  RelayTypeOK' /\ RelayInv' /\ LineInv'
<1> USE DEF relayVars, ends, legs, goroutines
<1>1. RelayTypeOK'
  BY DEF GatewayInv, TypeOK, RelayTypeOK
<1>2. RelayInv'
  BY DEF GatewayInv, RelayInv, Idle, Whole
<1>3. LineInv'
  BY DEF GatewayInv, LineInv, Line, Reset, Whole
<1> QED BY <1>1, <1>2, <1>3

LEMMA EmptyLine == <<>> \o <<>> \o <<>> \o <<>> \o <<>> \o <<>> \o <<>> = <<>>
<1>1. <<>> \o <<>> = <<>>
  BY ConcatEmptySeq
<1> QED BY <1>1

LEMMA IdleLine ==
  ASSUME Idle'
  PROVE  Line' = <<>> /\ got' <= sent' /\ Carries(Line', got' + 1, sent')
<1>1. Line' = <<>>
  BY EmptyLine DEF Idle, Line, Goroutine
<1>2. 1 .. 0 = {}
  OBVIOUS
<1> QED BY <1>1, <1>2 DEF Idle, Carries

LEMMA GatewayStart == Init => GatewayInv
<1> SUFFICES ASSUME Init PROVE GatewayInv
  OBVIOUS
<1> USE DEF Init, RelayInit
<1>1. CallTypeOK
  BY DEF CallTypeOK
<1>2. RelayTypeOK
  <2>1. <<>> \in Seq(Message) /\ <<>> \in Seq(Frame) /\ Len(<<>>) = 0
    OBVIOUS
  <2>2. /\ hand \in [Goroutine -> Seq(Message)]
        /\ \A g \in Goroutine : Len(hand[g]) <= 1
    BY <2>1
  <2>3. 0 \in 0 .. MaxSent /\ 0 <= Window
    OBVIOUS
  <2>4. severed \in BOOLEAN
    OBVIOUS
  <2>5. /\ sent \in 0 .. MaxSent /\ got \in 0 .. MaxSent
        /\ peer \in {"away", "reading", "deaf", "left"}
        /\ reader \in {"none", "open", "loop", "wait", "done"}
        /\ writer \in {"none", "loop", "done"}
        /\ echo \in {"none", "loop", "ended"}
    BY <2>3
  <2>6. /\ \A leg \in {wsIn, wsOut} : leg \in Seq(Frame) /\ Len(leg) <= Window
        /\ \A leg \in {up, down} : leg \in Seq(Message) /\ Len(leg) <= Window
    BY <2>1, <2>3
  <2> QED BY <2>2, <2>4, <2>5, <2>6 DEF RelayTypeOK
<1>3. Idle
  BY DEF Idle
<1>4. RelayInv
  BY <1>3 DEF RelayInv, Idle, Goroutine
<1>5. LineInv
  <2>1. Line = <<>>
    BY <1>3, EmptyLine DEF Idle, Line, Goroutine
  <2>2. 1 .. 0 = {}
    OBVIOUS
  <2> QED BY <2>1, <2>2 DEF LineInv, Carries
<1> QED BY <1>1, <1>2, <1>4, <1>5 DEF GatewayInv, TypeOK, CallTypeOK

LEMMA UpgradeStep ==
  ASSUME GatewayInv, Upgrade
  PROVE  GatewayInv'
<1> USE DEF legs, Handlers, Unserved
<1>1. Idle /\ reader = "none" /\ ~severed /\ request \in Request
  BY DEF Upgrade, GatewayInv, RelayInv
<1>2. /\ RelayTypeOK'
      /\ request' \in Request /\ at' = "relay" /\ status' = 101
      /\ UNCHANGED <<context, caller, logged>>
  <2>1. RelayTypeOK'
    <3>1. peer' \in {"reading", "left"} /\ reader' = "open"
      BY DEF Upgrade
    <3>2. UNCHANGED <<sent, got, legs, hand, writer, echo, severed>>
      BY DEF Upgrade
    <3> QED BY <3>1, <3>2 DEF GatewayInv, TypeOK, RelayTypeOK
  <2>2. request' \in Request
    BY <1>1, RequestAssumption DEF Upgrade
  <2> QED BY <2>1, <2>2 DEF Upgrade
<1>3. /\ sent' = 0 /\ got' = 0 /\ UNCHANGED <<legs, hand, writer, echo, severed>>
      /\ reader' = "open"
  BY <1>1 DEF Upgrade, Idle
<1>4. TypeOK'
  <2>1. CallTypeOK
    BY DEF GatewayInv, TypeOK, CallTypeOK
  <2>2. CallTypeOK'
    BY <1>2, <2>1 DEF CallTypeOK, context
  <2> QED BY <1>2, <2>2 DEF TypeOK, CallTypeOK
<1>5. RelayInv'
  BY <1>1, <1>3 DEF RelayInv, Idle, Goroutine
<1>6. Line' = <<>>
  BY <1>1, <1>3, EmptyLine DEF Idle, Line, Goroutine
<1>7. LineInv'
  <2>1. 1 .. 0 = {}
    OBVIOUS
  <2> QED BY <1>3, <1>6, <2>1 DEF LineInv, Carries
<1> QED BY <1>2, <1>4, <1>5, <1>7 DEF GatewayInv

LEMMA TerminateStep ==
  ASSUME GatewayInv, Terminate
  PROVE  GatewayInv'
<1> USE DEF ends, Handlers, Unserved, Goroutine
<1>1. /\ hand' \in [Goroutine -> Seq(Message)]
      /\ \A g \in Goroutine : Len(hand'[g]) <= 1
      /\ hand'["reader"] = <<>> /\ hand'["writer"] = <<>>
      /\ hand'["echo"] = hand["echo"]
  <2>1. <<>> \in Seq(Message) /\ Len(<<>>) = 0
    OBVIOUS
  <2>2. /\ hand \in [Goroutine -> Seq(Message)]
        /\ \A g \in Goroutine : Len(hand[g]) <= 1
        /\ hand' = [hand EXCEPT !["reader"] = <<>>, !["writer"] = <<>>]
    BY DEF Terminate, GatewayInv, TypeOK, RelayTypeOK
  <2>3. /\ hand'["reader"] = <<>> /\ hand'["writer"] = <<>>
        /\ hand'["echo"] = hand["echo"]
    BY <2>2
  <2>4. hand' \in [Goroutine -> Seq(Message)]
    BY <2>1, <2>2
  <2>5. \A g \in Goroutine : Len(hand'[g]) <= 1
    BY <2>1, <2>2, <2>3
  <2> QED BY <2>3, <2>4, <2>5
<1>2. RelayTypeOK'
  BY <1>1 DEF Terminate, GatewayInv, TypeOK, RelayTypeOK
<1>3. TypeOK'
  <2>1. CallTypeOK
    BY DEF GatewayInv, TypeOK, CallTypeOK
  <2>2. caller' \in BOOLEAN
    BY DEF Terminate
  <2>3. /\ gateway' = "ended" /\ at' = "ended"
        /\ UNCHANGED <<config, deployment, linked, request, status, logged>>
    BY DEF Terminate
  <2>4. CallTypeOK'
    BY <2>1, <2>2, <2>3 DEF CallTypeOK
  <2> QED BY <1>2, <2>4 DEF TypeOK, CallTypeOK
<1>4. RelayInv'
  BY <1>1 DEF Terminate, GatewayInv, RelayInv, Idle, Whole
<1>5. LineInv'
  BY DEF Terminate, LineInv, Whole
<1>6. at' = "ended"
  BY DEF Terminate
<1> QED BY <1>3, <1>4, <1>5, <1>6 DEF GatewayInv

\* A step of the chat.  With the backend a call ends, too.
LEMMA ChatStep ==
  ASSUME GatewayInv, RelayNext, UNCHANGED <<request, caller, logged>>,
         \/ UNCHANGED <<at, status>>
         \/ at = "calling" /\ at' = "log" /\ status' = 500,
         gateway' = gateway, config' = config, deployment' = deployment,
         linked' \in BOOLEAN
  PROVE  GatewayInv'
<1>1. RelayTypeOK /\ RelayInv /\ LineInv
  BY DEF GatewayInv, TypeOK
<1>2. RelayTypeOK'
  BY <1>1, RelayType
<1>3. RelayInv' /\ (reader = "none" => reader' = "none" /\ severed' = severed)
  BY <1>1, RelayInvariant
<1>4. LineInv'
  BY <1>1, <1>2, LineNext
<1>5. TypeOK'
  BY <1>2 DEF GatewayInv, TypeOK
<1>6. at' \in Unserved => at' = at
  BY DEF Unserved, Handlers
<1>7. /\ at' \notin {"none", "ended"} => request' \in Request
      /\ at' \in Unserved => reader' = "none" /\ ~severed'
  BY <1>3, <1>6 DEF GatewayInv
<1> QED BY <1>3, <1>4, <1>5, <1>7 DEF GatewayInv

\* A step of the middlewares, the handlers or main.
LEMMA CallStep ==
  ASSUME GatewayInv, UNCHANGED relayVars,
         /\ gateway' \in {"load", "dial", "run", "serving", "ended"}
         /\ config' \in Configs \cup {NoFile}
         /\ deployment' = deployment /\ linked' \in BOOLEAN
         /\ caller' \in BOOLEAN /\ logged' \in BOOLEAN
         /\ status' \in {0, 101, 200, 204, 400, 401, 403, 404, 500},
         \/ UNCHANGED <<request, at>>
         \/ at = "none" /\ at' = "cors" /\ request' \in Request
         \/ at \in Unserved \ {"none"} /\ request' = request
              /\ at' \in {"log", "panicked"} \cup (Unserved \ {"none"})
         \/ at \in {"relay", "log"} /\ at' \in {"log", "ended"} /\ request' = request
  PROVE  GatewayInv'
<1>1. RelayTypeOK' /\ RelayInv' /\ LineInv'
  BY RelayUnchanged
<1>2. reader' = reader /\ severed' = severed
  BY DEF relayVars, goroutines
<1>3. at' \in {"none", "cors", "auth", "calling", "relay", "log", "ended", "panicked"}
                \cup Handlers
  BY DEF GatewayInv, TypeOK, Unserved
<1>4. request' \in Request \cup {NoRequest}
  BY DEF GatewayInv, TypeOK
<1>5. at' \notin {"none", "ended"} => request' \in Request
  BY DEF GatewayInv, Unserved, Handlers
<1>6. at' \in Unserved => reader' = "none" /\ ~severed'
  BY <1>2 DEF GatewayInv, Unserved, Handlers
<1>7. TypeOK'
  BY <1>1, <1>3, <1>4 DEF GatewayInv, TypeOK
<1> QED BY <1>1, <1>5, <1>6, <1>7 DEF GatewayInv

LEMMA GatewayStep == GatewayInv /\ [Next]_vars => GatewayInv'
<1> SUFFICES ASSUME GatewayInv, [Next]_vars PROVE GatewayInv'
  OBVIOUS
<1>t. /\ gateway \in {"load", "dial", "run", "serving", "ended"}
      /\ config \in Configs \cup {NoFile}
      /\ linked \in BOOLEAN /\ caller \in BOOLEAN /\ logged \in BOOLEAN
      /\ status \in {0, 101, 200, 204, 400, 401, 403, 404, 500}
  BY DEF GatewayInv, TypeOK
<1>1. CASE MainStep
  <2>1. /\ UNCHANGED <<relayVars, deployment, linked, request, caller, at, status, logged>>
        /\ gateway' \in {"load", "dial", "run", "serving", "ended"}
        /\ config' \in Configs \cup {NoFile}
    BY <1>t, <1>1 DEF MainStep, LoadConfig, NewHelloClient, Run, Main, call
  <2> QED BY <1>t, <2>1, CallStep
<1>2. CASE Terminate
  BY <1>2, TerminateStep
<1>3. CASE Disconnect
  <2>1. /\ gateway' = gateway /\ config' = config /\ deployment' = deployment
        /\ linked' \in BOOLEAN /\ UNCHANGED <<request, caller, logged>>
        /\ \/ UNCHANGED <<at, status>>
           \/ at = "calling" /\ at' = "log" /\ status' = 500
    BY <1>3 DEF Disconnect
  <2>2. CASE Sever
    BY <2>1, <2>2, ChatStep DEF RelayNext
  <2>3. CASE UNCHANGED relayVars
    <3>1. CASE UNCHANGED <<at, status>>
      BY <1>t, <2>1, <2>3, <3>1, CallStep
    <3>2. CASE at = "calling" /\ at' = "log" /\ status' = 500
      <4>1. at \in Unserved \ {"none"}
        BY <3>2 DEF Unserved
      <4> QED BY <1>t, <2>1, <2>3, <3>2, <4>1, CallStep
    <3> QED BY <2>1, <3>1, <3>2
  <2> QED BY <1>3, <2>2, <2>3 DEF Disconnect
<1>4. CASE Reconnect
  BY <1>t, <1>4, CallStep DEF Reconnect, call
<1>5. CASE Arrive
  BY <1>t, <1>5, CallStep DEF Arrive, context
<1>6. CASE CORS
  <2>1. /\ at = "cors" /\ at' \in {"auth", "log"} /\ status' \in {0, 204, 403}
        /\ UNCHANGED <<context, request, caller, logged, relayVars>>
    BY <1>6 DEF CORS, Chain, Cors
  <2> QED BY <1>t, <2>1, CallStep DEF Unserved, context
<1>7. CASE Authenticate
  <2>1. /\ at = "auth" /\ at' \in {"log"} \cup Handlers /\ status' \in {0, 401}
        /\ UNCHANGED <<context, request, caller, logged, relayVars>>
    BY <1>7 DEF Authenticate, Chain, Verdict, Auth, HandlerOf, Handlers
  <2> QED BY <1>t, <2>1, CallStep DEF Unserved, Handlers, context
<1>8. CASE Log
  BY <1>t, <1>8, CallStep DEF Log, context
<1>9. CASE Panic
  BY <1>t, <1>9, CallStep DEF Panic, Unserved, Handlers, context
<1>10. CASE Health \/ NotFound \/ BindFails \/ CallCancelled \/ CallAnswered
              \/ CallFails \/ UpgradeFails
  <2>1. /\ at \in Unserved \ {"none"} /\ at' = "log"
        /\ status' \in {200, 404, 400, 500, 403}
        /\ UNCHANGED <<context, request, caller, logged, relayVars>>
    BY <1>10 DEF Health, NotFound, BindFails, CallCancelled, CallAnswered, CallFails,
                 UpgradeFails, Answer, Unserved, Handlers
  <2> QED BY <1>t, <2>1, CallStep DEF context
<1>11. CASE Bind
  BY <1>t, <1>11, CallStep DEF Bind, Unserved, Handlers, context
<1>12. CASE Upgrade
  BY <1>12, UpgradeStep
<1>13. CASE RelayReturns
  <2>1. /\ at = "relay" /\ at' = "log" /\ caller' \in BOOLEAN
        /\ UNCHANGED <<context, request, status, logged, relayVars>>
    BY <1>13 DEF RelayReturns
  <2> QED BY <1>t, <2>1, CallStep DEF context
<1>14. CASE Open
  <2>1. Opening
    BY <1>14 DEF Open, Opening, ContextDone
  <2> QED BY <1>t, <1>14, <2>1, ChatStep DEF Open, RelayNext, context, call
<1>15. CASE CallerLeaves
  <2>1. /\ caller' \in BOOLEAN
        /\ UNCHANGED <<context, request, at, status, logged, relayVars>>
    BY <1>15 DEF CallerLeaves
  <2> QED BY <1>t, <2>1, CallStep DEF context
<1>16. CASE Chat(Peer) \/ Chat(PeerReceives) \/ Chat(Reader) \/ Chat(Writer)
              \/ Chat(Echo)
  BY <1>t, <1>16, ChatStep DEF Chat, RelayNext, context, call
<1>17. CASE UNCHANGED vars
  BY <1>t, <1>17, CallStep DEF vars, context, call
<1> QED
  BY <1>1, <1>2, <1>3, <1>4, <1>5, <1>6, <1>7, <1>8, <1>9, <1>10, <1>11, <1>12,
     <1>13, <1>14, <1>15, <1>16, <1>17 DEF Next, Served

LEMMA GatewayInvariant == Spec => []GatewayInv
BY GatewayStart, GatewayStep, PTL DEF Spec

(* Whatever is configured and requested, every buffer of a chat holds       *)
(* frames within its window, a goroutine holds one message at most, and an  *)
(* answer bears a status of the code's.                                     *)
THEOREM GatewayTypeCorrect == Spec => []TypeOK
<1>1. GatewayInv => TypeOK
  BY DEF GatewayInv
<1> QED BY GatewayInvariant, <1>1, PTL

(* hello_ws.go, lines 77 to 133: for any number of messages and any windows *)
(* the relay loses, repeats and reorders nothing between a peer that stays  *)
(* and a backend that stays connected.                                      *)
THEOREM RelaysEveryMessage == Spec => []NothingLost
<1>1. GatewayInv => NothingLost
  BY DEF GatewayInv, LineInv, NothingLost, Whole
<1> QED BY GatewayInvariant, <1>1, PTL
=============================================================================
