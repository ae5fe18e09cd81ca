-------------------------------- MODULE Server --------------------------------
(***************************************************************************)
(* The life of cmd/server/main.go: main connects to MongoDB, Redis and     *)
(* Kafka, goes on without those it cannot reach, builds the UserService    *)
(* and serves; the signal goroutine stops the gRPC server, closes the      *)
(* clients and exits.                                                      *)
(*                                                                         *)
(* grpc-go is modelled by what main sees of it: GracefulStop returns when  *)
(* no handler is left, Stop cancels the handlers and waits for none, and   *)
(* Serve returns once a stop is complete.  gRPC has no recovery            *)
(* interceptor: a panic of a handler ends the process.                     *)
(***************************************************************************)
EXTENDS FiniteSets

CONSTANT Request   \* bound: the handlers that may run

VARIABLES
  process,   \* "runs", or how the process has ended
  main,      \* control point of main
  client,    \* components whose client is not nil
  sig,       \* control point of the signal goroutine
  draining,  \* GracefulStop has been called
  stopped,   \* GracefulStop or Stop is complete
  forced,    \* Stop has been called
  closed,    \* clients that have been closed
  at         \* control point of each handler

stop == <<draining, stopped, forced>>
vars == <<process, main, client, sig, stop, closed, at>>

Component == {"mongodb", "redis", "kafka"}

TypeOK ==
  /\ process \in {"runs", "exited", "fatal", "killed", "panicked"}
  /\ main \in {"load", "mongodb", "redis", "kafka", "listen", "serve", "serving"}
  /\ client \in SUBSET Component
  /\ sig \in {"unborn", "born", "waiting", "drain", "select", "kafka",
              "mongodb", "redis", "exit"}
  /\ draining \in BOOLEAN /\ stopped \in BOOLEAN /\ forced \in BOOLEAN
  /\ closed \in SUBSET client
  /\ at \in [Request -> {"none", "hello", "getUser", "chat", "health"}]

Init ==
  /\ process = "runs" /\ main = "load"
  /\ client = {} /\ closed = {}
  /\ sig = "unborn"
  /\ draining = FALSE /\ stopped = FALSE /\ forced = FALSE
  /\ at = [r \in Request |-> "none"]

Active == {r \in Request : at[r] # "none"}

Main(from, to) == process = "runs" /\ main = from /\ main' = to
Signal(from, to) == process = "runs" /\ sig = from /\ sig' = to
End(how) == process = "runs" /\ process' = how

-----------------------------------------------------------------------------
(* main                                                                    *)
LoadConfig ==
  /\ Main("load", "mongodb")
  /\ UNCHANGED <<process, client, sig, stop, closed, at>>

LoadFails ==
  /\ main = "load"
  /\ End("fatal")
  /\ UNCHANGED <<main, client, sig, stop, closed, at>>

\* A component out of reach leaves its client nil.
Connect(c, to) ==
  /\ Main(c, to)
  /\ client' \in {client, client \cup {c}}
  /\ UNCHANGED <<process, sig, stop, closed, at>>

\* Each pings what it has connected to, within a timeout.
NewMongoClient == Connect("mongodb", "redis")
NewRedisClient == Connect("redis", "kafka")

\* sarama connects to a broker, and refuses an idempotent producer that does
\* not wait for all replicas.
NewProducer == Connect("kafka", "listen")

\* main makes a UserService if MongoDB is there; a cache of its own only if
\* Redis is.
HasUserService == "mongodb" \in client
HasCache == "redis" \in client

\* net.Listen; the go statement follows it.
Listen ==
  /\ Main("listen", "serve")
  /\ sig' = "born"
  /\ UNCHANGED <<process, client, stop, closed, at>>

ListenFails ==
  /\ main = "listen"
  /\ End("fatal")
  /\ UNCHANGED <<main, client, sig, stop, closed, at>>

\* Serve takes its listener, unless the server is being stopped already.
Serve ==
  /\ ~draining
  /\ Main("serve", "serving")
  /\ UNCHANGED <<process, client, sig, stop, closed, at>>

ServeTooLate ==
  /\ main = "serve" /\ draining
  /\ End("fatal")
  /\ UNCHANGED <<main, client, sig, stop, closed, at>>

\* Serve returns nil, then main does: the process ends.
ServeReturns ==
  /\ main = "serving" /\ stopped
  /\ End("exited")
  /\ UNCHANGED <<main, client, sig, stop, closed, at>>

-----------------------------------------------------------------------------
(* The signal goroutine.                                                   *)
Notify ==
  /\ Signal("born", "waiting")
  /\ UNCHANGED <<process, main, client, stop, closed, at>>

\* SIGINT or SIGTERM.  Before signal.Notify it kills the process.
Terminate ==
  \/ /\ Signal("waiting", "drain")
     /\ UNCHANGED <<process, main, client, stop, closed, at>>
  \/ /\ sig \in {"unborn", "born"}
     /\ End("killed")
     /\ UNCHANGED <<main, client, sig, stop, closed, at>>

\* go s.GracefulStop()
GracefulStop ==
  /\ Signal("drain", "select")
  /\ draining' = TRUE
  /\ UNCHANGED <<process, main, client, stopped, forced, closed, at>>

GracefulStopEnds ==
  /\ process = "runs" /\ draining /\ ~stopped /\ Active = {}
  /\ stopped' = TRUE
  /\ UNCHANGED <<process, main, client, sig, draining, forced, closed, at>>

\* select: <-stopChan
NotAwaited == TRUE                           \* mutant: the channel is unused
Drained == stopped

StopDone ==
  /\ Drained
  /\ Signal("select", "kafka")
  /\ UNCHANGED <<process, main, client, stop, closed, at>>

\* select: <-time.After(30 * time.Second)
Patient == FALSE                             \* mutant: no timeout
TimesOut == TRUE

StopTimesOut ==
  /\ TimesOut
  /\ Signal("select", "kafka")
  /\ forced' = TRUE /\ stopped' = TRUE
  /\ UNCHANGED <<process, main, client, draining, closed, at>>

\* Close, of a client that is not nil.  It may fail; the next one follows.
ToClose == client

CloseClient(c, to) ==
  /\ Signal(c, to)
  /\ closed' = closed \cup ({c} \cap ToClose)
  /\ UNCHANGED <<process, main, client, stop, at>>

CloseProducer == CloseClient("kafka", "mongodb")
CloseMongo == CloseClient("mongodb", "redis")
CloseRedis == CloseClient("redis", "exit")

Exit ==
  /\ sig = "exit"
  /\ End("exited")
  /\ UNCHANGED <<main, client, sig, stop, closed, at>>

-----------------------------------------------------------------------------
(* The handlers.                                                           *)
Step(r, from, to) ==
  /\ process = "runs" /\ at[r] = from
  /\ at' = [at EXCEPT ![r] = to]

\* GracefulStop closes the listener; on a connection that is there a stream
\* may begin until the client has the last GOAWAY.
Arrive(r, kind) ==
  /\ main = "serving" /\ ~stopped
  /\ Step(r, "none", kind)
  /\ UNCHANGED <<process, main, client, sig, stop, closed>>

\* SayHello: without a UserService it greets at once.
Greet(r) ==
  /\ ~HasUserService
  /\ Step(r, "hello", "none")
  /\ UNCHANGED <<process, main, client, sig, stop, closed>>

AskUser(r) ==
  /\ HasUserService
  /\ Step(r, "hello", "getUser")
  /\ UNCHANGED <<process, main, client, sig, stop, closed>>

\* GetUser reads the cache first.  Whatever it answers, SayHello greets.
GetUser(r) ==
  /\ HasCache
  /\ Step(r, "getUser", "none")
  /\ UNCHANGED <<process, main, client, sig, stop, closed>>

\* ... of a nil *FallbackCache.
GetUserOfNil(r) ==
  /\ at[r] = "getUser" /\ ~HasCache
  /\ End("panicked")
  /\ UNCHANGED <<main, client, sig, stop, closed, at>>

\* ChatStream returns when its stream ends, by the client or by Stop.
ChatEnds(r) ==
  /\ Step(r, "chat", "none")
  /\ UNCHANGED <<process, main, client, sig, stop, closed>>

\* HealthCheck: see module HealthCheck.
HealthReturns(r) ==
  /\ Step(r, "health", "none")
  /\ UNCHANGED <<process, main, client, sig, stop, closed>>

Unary(r) == Greet(r) \/ AskUser(r) \/ GetUser(r) \/ GetUserOfNil(r)

Handles(r) ==
  \/ \E kind \in {"hello", "chat", "health"} : Arrive(r, kind)
  \/ Unary(r) \/ ChatEnds(r) \/ HealthReturns(r)

MainStep ==
  \/ LoadConfig \/ LoadFails
  \/ NewMongoClient \/ NewRedisClient \/ NewProducer
  \/ Listen \/ ListenFails
  \/ Serve \/ ServeTooLate \/ ServeReturns

SignalStep ==
  \/ Notify
  \/ GracefulStop
  \/ StopDone \/ StopTimesOut
  \/ CloseProducer \/ CloseMongo \/ CloseRedis
  \/ Exit

Next ==
  \/ MainStep
  \/ SignalStep
  \/ Terminate
  \/ GracefulStopEnds
  \/ \E r \in Request : Handles(r)

Safety == Init /\ [][Next]_vars

(* The goroutines are scheduled, and each Close returns.  Nothing makes a   *)
(* chat end or a signal come.                                               *)
Spec ==
  /\ Safety
  /\ WF_vars(MainStep)
  /\ WF_vars(SignalStep)
  /\ WF_vars(GracefulStopEnds)
  /\ \A r \in Request : WF_vars(Unary(r))

-----------------------------------------------------------------------------
(* Lines 321 to 362: no client is closed under a handler that may still use *)
(* it, except when the handler was cancelled after thirty seconds.          *)
DrainedBeforeClose ==
  [][closed' # closed => Active = {} \/ forced]_vars

(* A chat that never ends does not keep the process alive: once a signal    *)
(* has been received, it ends.                                              *)
SignalledEnds == sig = "drain" ~> process # "runs"

(* Line 275: in degraded mode, each method checks that what it depends on   *)
(* is there; so a handler does not panic.                                   *)
NoPanic == process # "panicked"
=============================================================================
