-------------------------------- MODULE Gateway --------------------------------
(***************************************************************************)
(* cmd/gateway: main loads its configuration, dials the backend and serves *)
(* one request, whatever it is: through Recovery, Logger, CORS and Auth to *)
(* the handler of its route.  Requests share nothing but the configuration *)
(* and the connection to the backend, so that one of them is enough.  A    *)
(* request for /ws/chat goes on as the chat of ChatRelay.                  *)
(*                                                                         *)
(* Gin calls the middlewares from the outside in: Recovery, Logger, CORS,  *)
(* Auth.  A middleware that aborts skips all further in; Logger writes its *)
(* line after c.Next, which does not return when the rest panics: Recovery *)
(* is outside of it.                                                       *)
(***************************************************************************)
EXTENDS ChatRelay, RequestPolicy, Configuration

CONSTANTS
  Request,     \* requests: records of what the gateway reads of them
  Deployment,  \* arguments of SetupRouterWithConfig and CheckWebSocketOrigin
  NoRequest,
  File,        \* what config.yaml may be
  Environment, \* ... and the environment
  Backend      \* the address the backend listens at

\* What is left of a request of which nothing more is read.
Stripped(r) == [r EXCEPT !.origin = NoOrigin, !.header = "none"]

ASSUME RequestAssumption == \A r \in Request : Stripped(r) \in Request

VARIABLES
  gateway,     \* control point of main, or "ended" as the process
  config,      \* cfg
  deployment,
  linked,      \* the connection to the backend is up
  request,
  caller,      \* the client of the request waits for its answer
  at,          \* where the request is
  status,      \* status of the answer, 0 if none was written
  logged       \* the request log has a line for the request

context == <<gateway, config, deployment, linked>>
call == <<request, caller, at, status, logged>>
vars == <<context, call, relayVars>>

Configs == {Load(file, env) : file \in File, env \in Environment}

Handlers == {"health", "hello", "chat", "notFound"}

TypeOK ==
  /\ RelayTypeOK
  /\ gateway \in {"load", "dial", "run", "serving", "ended"}
  /\ config \in Configs \cup {NoFile}
  /\ deployment \in Deployment /\ linked \in BOOLEAN
  /\ request \in Request \cup {NoRequest} /\ caller \in BOOLEAN
  /\ at \in {"none", "cors", "auth", "calling", "relay", "log", "ended", "panicked"}
              \cup Handlers
  /\ status \in {0, 101, 200, 204, 400, 401, 403, 404, 500}
  /\ logged \in BOOLEAN

Init ==
  /\ RelayInit
  /\ gateway = "load" /\ config = NoFile
  /\ deployment \in Deployment /\ linked \in BOOLEAN
  /\ request = NoRequest /\ caller = FALSE
  /\ at = "none" /\ status = 0 /\ logged = FALSE

-----------------------------------------------------------------------------
(* main.                                                                   *)
Main(from, to) ==
  /\ gateway = from /\ gateway' = to
  /\ UNCHANGED <<deployment, linked, call, relayVars>>

LoadConfig ==
  /\ config' \in Configs
  /\ Main("load", IF config' = Failed THEN "ended" ELSE "dial")

\* NewHelloClient waits five seconds for the connection.
NewHelloClient ==
  /\ Main("dial", IF linked /\ config["grpc.target"] = Backend
                  THEN "run" ELSE "ended")
  /\ UNCHANGED config

\* SetupRouter; r.Run returns only if it cannot listen.
Run == (Main("run", "serving") \/ Main("run", "ended")) /\ UNCHANGED config

\* No signal is handled: a request that is being served is cut off.
Terminate ==
  /\ gateway = "serving" /\ gateway' = "ended"
  /\ at' = "ended" /\ caller' = FALSE
  /\ severed' = TRUE /\ up' = <<>> /\ down' = <<>>
  /\ reader' = IF reader = "none" THEN "none" ELSE "done"
  /\ writer' = IF writer = "none" THEN "none" ELSE "done"
  /\ hand' = [hand EXCEPT !["reader"] = <<>>, !["writer"] = <<>>]
  /\ UNCHANGED <<config, deployment, linked, request, status, logged, ends, wsIn,
                 wsOut, echo>>

\* The backend goes away or comes back; a call or a stream does not.
Disconnect ==
  /\ linked /\ gateway = "serving"
  /\ linked' = FALSE
  /\ IF at = "calling" THEN at' = "log" /\ status' = 500
                       ELSE UNCHANGED <<at, status>>
  /\ \/ Sever
     \/ (reader \in {"none", "open", "done"} \/ severed) /\ UNCHANGED relayVars
  /\ UNCHANGED <<gateway, config, deployment, request, caller, logged>>

Reconnect ==
  /\ ~linked /\ linked' = TRUE
  /\ UNCHANGED <<gateway, config, deployment, call, relayVars>>

-----------------------------------------------------------------------------
(* The chain of middlewares.                                               *)
Arrive ==
  /\ gateway = "serving" /\ at = "none"
  /\ request' \in Request
  /\ caller' = TRUE /\ at' = "cors"
  /\ UNCHANGED <<context, status, logged, relayVars>>

\* The next handler of the chain, or the answer of an abort, which Logger logs.
Chain(from, answer, to) ==
  /\ at = from
  /\ at' = IF answer = 0 THEN to ELSE "log"
  /\ status' = answer
  /\ UNCHANGED <<context, request, caller, logged, relayVars>>

CORS == Chain("cors", Cors(deployment.origins, request.method, request.origin), "auth")

Verdict ==
  Auth(deployment.auth, deployment.skipPaths, request.path, request.header)

Authenticate == Chain("auth", Verdict, HandlerOf(request.method, request.path))

\* What Logger does after c.Next.
Log ==
  /\ at = "log" /\ at' = "ended"
  /\ logged' = TRUE
  /\ UNCHANGED <<context, request, caller, status, relayVars>>

\* A panic: Recovery answers 500, and Logger has no part in it.
Panic ==
  /\ at \in {"hello", "calling"} /\ at' = "panicked"
  /\ status' = 500
  /\ UNCHANGED <<context, request, caller, logged, relayVars>>

-----------------------------------------------------------------------------
(* The handlers.                                                           *)
Answer(from, code) ==
  /\ at = from /\ at' = "log"
  /\ status' = code
  /\ UNCHANGED <<context, request, caller, logged, relayVars>>

Health == Answer("health", 200)
NotFound == Answer("notFound", 404)

\* SayHello: ShouldBindJSON, then the call; the body is bound or it is not.
BindFails == Answer("hello", 400) /\ request.body = "bad"

Bind ==
  /\ at = "hello" /\ request.body # "bad"
  /\ at' = "calling"
  /\ UNCHANGED <<context, request, caller, status, logged, relayVars>>

\* The backend answers or fails.  The call does not wait for a connection.
CallAnswered == linked /\ Answer("calling", 200)
CallFails == Answer("calling", 500)

\* The call ends with the request's context.  net/http knows that the client
\* has gone once the body was read to its end, which in an "open" one comes
\* after the JSON that was bound.
Background == FALSE                          \* mutant: context.Background()
ContextDone == ~caller /\ request.body # "open"

CallCancelled == Answer("calling", 500) /\ (ContextDone \/ ~linked)

CallerLeaves ==
  /\ caller /\ at \notin {"none", "relay", "ended", "panicked"}
  /\ caller' = FALSE
  /\ UNCHANGED <<context, request, at, status, logged, relayVars>>

\* ChatStream: the upgrade.  From now on the client is the peer of the chat,
\* and nothing more is read of the request.
Upgradable ==
  request.upgrade /\ CheckWebSocketOrigin(deployment.wsOrigins, request.origin)

UpgradeFails ==
  /\ Answer("chat", IF request.upgrade THEN 403 ELSE 400)
  /\ ~Upgradable

Upgrade ==
  /\ at = "chat" /\ Upgradable
  /\ at' = "relay" /\ status' = 101
  /\ request' = Stripped(request)
  /\ peer' = IF caller THEN "reading" ELSE "left"
  /\ reader' = "open"
  /\ UNCHANGED <<context, caller, logged, sent, got, legs, hand, writer, echo,
                 severed>>

Open ==
  /\ at = "relay" /\ reader = "open"
  /\ \/ linked /\ OpenStream(ContextDone)
     \/ (~linked \/ ContextDone) /\ OpenFails
  /\ UNCHANGED <<context, call>>

RelayReturns ==
  /\ at = "relay" /\ reader = "done"
  /\ at' = "log" /\ caller' = FALSE
  /\ UNCHANGED <<context, request, status, logged, relayVars>>

-----------------------------------------------------------------------------
MainStep == LoadConfig \/ NewHelloClient \/ Run
Served ==
  /\ gateway = "serving"
  /\ \/ CORS \/ Authenticate \/ Log
     \/ Health \/ NotFound
     \/ BindFails \/ Bind \/ CallCancelled
     \/ UpgradeFails \/ Upgrade \/ Open \/ RelayReturns

Chat(step) == step /\ UNCHANGED <<context, call>>

Next ==
  \/ MainStep \/ Terminate \/ Disconnect \/ Reconnect
  \/ Arrive \/ Served
  \/ gateway = "serving" /\ (CallAnswered \/ CallFails \/ Panic)
  \/ CallerLeaves
  \/ Chat(Peer) \/ Chat(PeerReceives)
  \/ Chat(Reader) \/ Chat(Writer) \/ Chat(Echo)

(* The goroutines are scheduled; a peer that reads, though not all of the   *)
(* time, takes what is there for it.                                        *)
(* Nothing makes a caller leave, a peer speak or the backend answer.        *)
Spec ==
  /\ Init /\ [][Next]_vars
  /\ WF_vars(MainStep) /\ WF_vars(Served)
  /\ SF_vars(Chat(PeerReceives))
  /\ WF_vars(Chat(Reader)) /\ WF_vars(Chat(Writer)) /\ WF_vars(Chat(Echo))

-----------------------------------------------------------------------------
(* The policy as the code's comments have it (router.go:23, hello_ws.go:19, *)
(* auth.go:108): no origin is no browser, an empty list allows localhost.   *)
AllowedOrigin(list, origin) ==
  \/ origin = NoOrigin
  \/ IF list = <<>> THEN origin \in Local
                    ELSE list[1] = Wildcard \/ Listed(list, origin)

(* What CORS makes of an empty list instead (cors.go:36).                   *)
LetsAllIn(list) == list = <<>>

Lawful ==
  /\ AllowedOrigin(deployment.origins, request.origin) \/ LetsAllIn(deployment.origins)
  /\ request.method # "OPTIONS"
  /\ deployment.auth /\ request.path \notin deployment.skipPaths
       => request.header = "bearer"

EntersLawfully ==
  /\ at \notin Handlers /\ at' \in Handlers => Lawful
  /\ at # "relay" /\ at' = "relay" =>
       Lawful /\ AllowedOrigin(deployment.wsOrigins, request.origin)

(* Whatever router and upgrader are configured with, a handler starts only  *)
(* for a request whose origin and token the policy allows, but for CORS'    *)
(* reading of an empty list; and a socket is opened only if the list of the *)
(* upgrader, too, allows its origin, to which there is no exception.        *)
Admitted == [][EntersLawfully]_vars

(* A request that its client has abandoned is answered and logged, though   *)
(* neither a call nor a stream has a deadline (grpc.timeout is read by      *)
(* nobody): the call ends with its context; a chat also when the backend is *)
(* lost.  But: a request that panics is not logged, the gateway may end     *)
(* before, and the handler hangs, for good, in ChatRelay's three ways or in *)
(* a call that does not learn of it.                                        *)
Abandoned == IF at = "relay" THEN peer = "left" \/ severed ELSE ~caller
Ended == at = "ended" /\ status # 0 /\ logged
Unnoticed == at = "calling" /\ request.body = "open"

RequestEnds ==
  at # "none" /\ Abandoned
    ~> \/ Ended \/ at = "panicked" \/ gateway = "ended"
       \/ [](Hangs \/ Unnoticed)
=============================================================================
