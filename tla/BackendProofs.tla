---------------------------- MODULE BackendProofs ----------------------------
(***************************************************************************)
(* Proofs about Server and Backend, for any set of handlers.               *)
(*                                                                         *)
(* Every step of the backend is a step of the server, or leaves it alone:  *)
(* what holds of the server holds of the backend.                          *)
(***************************************************************************)
EXTENDS Backend, Naturals, Sequences, TLAPS

USE CheckerAssumption DEF CheckerAssumption

-----------------------------------------------------------------------------
(* The server.                                                             *)

Closing == {"kafka", "mongodb", "redis", "exit"}

\* The closes come after a stop that is complete, and a stop leaves handlers
\* behind only if it was forced: none arrives once it is complete.
StopOrder ==
  /\ sig \in Closing => stopped
  /\ stopped \/ sig = "select" => draining
  /\ stopped => Active = {} \/ forced

IInv == TypeOK /\ StopOrder

(* A handler's step leaves everything but the handlers alone, and starts    *)
(* one only while the server is not stopped.                                *)
LEMMA HandlerStep ==
  ASSUME TypeOK, NEW r \in Request, Handles(r)
  PROVE  /\ UNCHANGED <<main, client, sig, stop, closed>>
         /\ process' \in {process, "panicked"}
         /\ at' \in [Request -> {"none", "hello", "getUser", "chat", "health"}]
         /\ stopped => \A s \in Request : at[s] = "none" => at'[s] = "none"
<1>1. CASE \E kind \in {"hello", "chat", "health"} : Arrive(r, kind)
  BY <1>1 DEF TypeOK, Arrive, Step, stop
<1>2. CASE GetUserOfNil(r)
  BY <1>2 DEF TypeOK, GetUserOfNil, End, stop
<1>3. CASE Greet(r) \/ AskUser(r) \/ GetUser(r) \/ ChatEnds(r) \/ HealthReturns(r)
  BY <1>3 DEF TypeOK, Greet, AskUser, GetUser, ChatEnds, HealthReturns, Step, stop
<1> QED BY <1>1, <1>2, <1>3 DEF Handles, Unary

(* Type correctness is preserved by the steps of main.                      *)
LEMMA MainType == TypeOK /\ MainStep => TypeOK'
<1> SUFFICES ASSUME TypeOK, MainStep PROVE TypeOK'
  OBVIOUS
<1> USE DEF TypeOK, stop, Main, End
<1>1. CASE NewMongoClient \/ NewRedisClient \/ NewProducer
  BY <1>1 DEF NewMongoClient, NewRedisClient, NewProducer, Connect, Component
<1>2. CASE Listen
  BY <1>2 DEF Listen
<1>3. CASE Serve
  BY <1>3 DEF Serve
<1>4. CASE LoadFails \/ ListenFails \/ ServeTooLate \/ ServeReturns
  BY <1>4 DEF LoadFails, ListenFails, ServeTooLate, ServeReturns
<1>5. CASE LoadConfig
  BY <1>5 DEF LoadConfig
<1> QED BY <1>1, <1>2, <1>3, <1>4, <1>5 DEF MainStep

(* ... and by those of the signal goroutine: it closes no nil client.       *)
LEMMA SignalType == TypeOK /\ SignalStep => TypeOK'
<1> SUFFICES ASSUME TypeOK, SignalStep PROVE TypeOK'
  OBVIOUS
<1> USE DEF TypeOK, stop, Signal
<1>1. CASE Notify \/ GracefulStop \/ StopDone \/ StopTimesOut
  BY <1>1 DEF Notify, GracefulStop, StopDone, StopTimesOut
<1>2. CASE CloseProducer \/ CloseMongo \/ CloseRedis
  BY <1>2 DEF CloseProducer, CloseMongo, CloseRedis, CloseClient, ToClose
<1>3. CASE Exit
  BY <1>3 DEF Exit, End
<1> QED BY <1>1, <1>2, <1>3 DEF SignalStep

(* The type invariant of Server: control points, and no client is closed    *)
(* that main never opened.                                                  *)
THEOREM TypeCorrect == Safety => []TypeOK
<1>1. Init => TypeOK
  BY DEF Init, TypeOK
<1>2. TypeOK /\ [Next]_vars => TypeOK'
  <2> SUFFICES ASSUME TypeOK, [Next]_vars PROVE TypeOK'
    OBVIOUS
  <2>1. CASE MainStep
    BY <2>1, MainType
  <2>2. CASE SignalStep
    BY <2>2, SignalType
  <2>3. CASE Terminate \/ GracefulStopEnds
    BY <2>3 DEF TypeOK, Terminate, GracefulStopEnds, Signal, End, stop
  <2>4. ASSUME NEW r \in Request, Handles(r)
        PROVE  TypeOK'
    BY <2>4, HandlerStep DEF TypeOK, stop
  <2>5. CASE UNCHANGED vars
    BY <2>5 DEF TypeOK, vars, stop
  <2> QED BY <2>1, <2>2, <2>3, <2>4, <2>5 DEF Next
<1> QED BY <1>1, <1>2, PTL DEF Safety

(* No step of main touches the stop or the handlers.                        *)
LEMMA MainOrder == StopOrder /\ MainStep => StopOrder'
<1> SUFFICES ASSUME StopOrder, MainStep PROVE StopOrder'
  OBVIOUS
<1>1. UNCHANGED <<draining, stopped, forced, at>> /\ sig' \in {sig, "born"}
  BY DEF MainStep, LoadConfig, LoadFails, NewMongoClient, NewRedisClient,
         NewProducer, Connect, Listen, ListenFails, Serve, ServeTooLate,
         ServeReturns, Main, End, stop
<1> QED BY <1>1 DEF StopOrder, Closing, Active

(* The order is kept by the signal goroutine: it goes on to the closes when *)
(* the stop is complete, or forces it.                                      *)
LEMMA SignalOrder == StopOrder /\ SignalStep => StopOrder'
<1> SUFFICES ASSUME StopOrder, SignalStep PROVE StopOrder'
  OBVIOUS
<1> USE DEF StopOrder, Closing, Active, Signal, stop
<1>1. CASE Notify
  BY <1>1 DEF Notify
<1>2. CASE GracefulStop
  BY <1>2 DEF GracefulStop
<1>3. CASE StopDone
  BY <1>3 DEF StopDone, Drained
<1>4. CASE StopTimesOut
  BY <1>4 DEF StopTimesOut
<1>5. CASE CloseProducer \/ CloseMongo \/ CloseRedis
  BY <1>5 DEF CloseProducer, CloseMongo, CloseRedis, CloseClient
<1>6. CASE Exit
  BY <1>6 DEF Exit
<1> QED BY <1>1, <1>2, <1>3, <1>4, <1>5, <1>6 DEF SignalStep

(* Handlers only go once the server drains.                                 *)
LEMMA HandlerOrder ==
  ASSUME TypeOK, StopOrder,
         NEW r \in Request, Handles(r)
  PROVE  StopOrder'
<1>1. /\ UNCHANGED <<sig, draining, stopped, forced>>
      /\ stopped => \A s \in Request : at[s] = "none" => at'[s] = "none"
  BY HandlerStep DEF stop
<1>2. stopped /\ Active = {} => Active' = {}
  BY <1>1 DEF Active
<1> QED BY <1>1, <1>2 DEF StopOrder, Closing

LEMMA Invariant == Safety => []IInv
<1>1. Init => StopOrder
  BY DEF Init, StopOrder, Closing
<1>2. TypeOK /\ StopOrder /\ [Next]_vars => StopOrder'
  <2> SUFFICES ASSUME TypeOK, StopOrder, [Next]_vars PROVE StopOrder'
    OBVIOUS
  <2>1. CASE MainStep
    BY <2>1, MainOrder
  <2>2. CASE SignalStep
    BY <2>2, SignalOrder
  <2>3. CASE Terminate
    BY <2>3 DEF StopOrder, Closing, Active, Terminate, Signal, End, stop
  <2>4. CASE GracefulStopEnds
    BY <2>4 DEF StopOrder, Closing, Active, GracefulStopEnds
  <2>5. ASSUME NEW r \in Request, Handles(r)
        PROVE  StopOrder'
    BY <2>5, HandlerOrder
  <2>6. CASE UNCHANGED vars
    BY <2>6 DEF StopOrder, Closing, Active, vars, stop
  <2> QED BY <2>1, <2>2, <2>3, <2>4, <2>5, <2>6 DEF Next
<1> QED BY <1>1, <1>2, TypeCorrect, PTL DEF Safety, IInv

(* No client is closed while a handler that was not cancelled may use it.   *)
THEOREM ClosedAfterHandlers == Safety => DrainedBeforeClose
<1>1. IInv /\ [Next]_vars => [closed' # closed => Active = {} \/ forced]_vars
  <2> SUFFICES ASSUME IInv, [Next]_vars, closed' # closed
               PROVE  Active = {} \/ forced
    OBVIOUS
  <2>1. CASE MainStep
    BY <2>1 DEF MainStep, LoadConfig, LoadFails, NewMongoClient, NewRedisClient,
         NewProducer, Connect, Listen, ListenFails, Serve, ServeTooLate,
                ServeReturns
  <2>2. CASE SignalStep
    <3>1. sig \in Closing
      BY <2>2 DEF SignalStep, Notify, GracefulStop, StopDone, StopTimesOut,
                  CloseProducer, CloseMongo, CloseRedis, CloseClient, Exit,
                  Signal, Closing
    <3> QED BY <3>1 DEF IInv, StopOrder
  <2>3. CASE Terminate \/ GracefulStopEnds
    BY <2>3 DEF Terminate, GracefulStopEnds
  <2>4. ASSUME NEW r \in Request, Handles(r)
        PROVE  FALSE
    BY <2>4, HandlerStep DEF IInv
  <2>5. CASE UNCHANGED vars
    BY <2>5 DEF vars
  <2> QED BY <2>1, <2>2, <2>3, <2>4, <2>5 DEF Next
<1> QED BY <1>1, Invariant, PTL DEF Safety, DrainedBeforeClose

-----------------------------------------------------------------------------
(* The backend.                                                            *)
(* Every step of the backend is a step of the server, or leaves it alone.   *)
LEMMA ServerStep == [BackendNext]_backendVars => [Next]_vars
<1> SUFFICES ASSUME [BackendNext]_backendVars
             PROVE  [Next]_vars
  OBVIOUS
<1>1. CASE BackendMain
  BY <1>1 DEF BackendMain, Next
<1>2. CASE BackendSignal
  BY <1>2 DEF BackendSignal, ForcedStop, Next, SignalStep
<1>3. CASE Terminate \/ GracefulStopEnds
  BY <1>3 DEF Next
<1>4. ASSUME NEW r \in Request, Other(r)
      PROVE  Next
  BY <1>4 DEF Other, Next, Handles
<1>5. CASE Begin
  BY <1>5 DEF Begin, Next, Handles
<1>6. CASE Return
  BY <1>6 DEF Return, Next, Handles
<1>7. CASE Checks \/ Environment
  BY <1>7 DEF Checks, Environment
<1>8. ASSUME NEW c \in Component, Prober(c)
      PROVE  UNCHANGED vars
  BY <1>8 DEF Prober
<1>9. CASE UNCHANGED backendVars
  BY <1>9 DEF backendVars
<1> QED BY <1>1, <1>2, <1>3, <1>4, <1>5, <1>6, <1>7, <1>8, <1>9
        DEF BackendNext, Handler

(* The process with its health checks lives as Server says.                 *)
THEOREM BackendIsAServer == BackendSpec => Safety
<1>1. BackendInit => Init
  BY DEF BackendInit
<1> QED BY <1>1, ServerStep, PTL DEF BackendSpec, Safety

(* ... so a health check, too, keeps its clients until it has answered, or  *)
(* is cancelled.                                                            *)
THEOREM BackendClosesAfterHandlers == BackendSpec => DrainedBeforeClose
BY BackendIsAServer, ClosedAfterHandlers, PTL

(* A check runs in a handler of the serving process; a client is closed     *)
(* after the stop.                                                          *)
HandlerInv ==
  /\ pc # "idle" => main = "serving" /\ at[Checker] = "health"
  /\ closed # {} => stopped

Busy(c) == IF probe[c] = "none" THEN 0 ELSE 1
Probing == Busy("mongodb") + Busy("redis") + Busy("kafka")

(* A result is expected of each component that is not launched yet, that is *)
(* probed, or whose result is on the channel.                               *)
CountInv ==
  /\ pc = "idle" => /\ next = 1 /\ results = <<>>
                    /\ \A c \in Component : probe[c] = "none"
  /\ pc = "launch" => next <= 3
  /\ pc \in {"collect", "answered"} => next = 4
  /\ pc = "answered" => left = 0
  /\ pc # "idle" => left = Len(results) + Probing + (4 - next)

Launched(c) == \E i \in 1 .. next - 1 : Health!Order[i] = c
Sent(c) == \E i \in 1 .. Len(results) : results[i].name = c

(* What may be said of a component: of Kafka, only that it has a client.    *)
Told(c, ok) ==
  IF ok THEN c \in client /\ (c \in Pinged => c \in seenUp)
  ELSE c \in client => c \in Pinged /\ (c \in seenDown \/ ctxDone)

(* A component is up or down while it is seen to be, and what its goroutine *)
(* finds, sends, and the handler takes, is so.                              *)
ToldInv ==
  /\ pc # "idle" => up \subseteq seenUp /\ Component \ up \subseteq seenDown
  /\ \A c \in Component :
       /\ probe[c] # "none" => Launched(c) /\ c \in client
       /\ probe[c] \in {"up", "down"} => Told(c, probe[c] = "up")
       /\ Launched(c) /\ probe[c] = "none" /\ ~Sent(c) => Told(c, status[c])
  /\ \A i \in 1 .. Len(results) : Told(results[i].name, results[i].available)
  /\ pc = "answered" =>
       /\ overall = "SERVING" => \A c \in Component : status[c]
       /\ overall = "NOT_SERVING" => \A c \in Component : ~status[c]

HealthInv == Health!TypeOK /\ HandlerInv /\ CountInv /\ ToldInv

(* The parts of a step of the check, whose client main does not touch.      *)
CheckStep ==
  \/ Health!Launch \/ Health!Collect \/ Health!Answer \/ Health!Cancel
  \/ \E c \in Component : Health!Prober(c) \/ Health!Fail(c) \/ Health!Recover(c)

(* What a step of the backend may do to the check.                          *)
LEMMA StepOfCheck ==
  ASSUME TypeOK, HandlerInv, [BackendNext]_backendVars
  PROVE  \/ UNCHANGED healthVars /\ (pc # "idle" => client' = client)
         \/ CheckStep
         \/ Begin \/ Return \/ ForcedStop
<1>1. CASE BackendMain
  <2>1. UNCHANGED healthVars /\ MainStep
    BY <1>1 DEF BackendMain
  <2>2. pc # "idle" => client' = client
    BY <2>1 DEF HandlerInv, MainStep, LoadConfig, LoadFails, NewMongoClient,
       NewRedisClient, NewProducer, Connect, Listen, ListenFails, Serve,
       ServeTooLate, ServeReturns, Main
  <2> QED BY <2>1, <2>2
<1>2. CASE BackendSignal
  <2>1. CASE (Notify \/ GracefulStop \/ StopDone \/ CloseProducer \/ Exit)
             /\ UNCHANGED healthVars
    BY <2>1 DEF Notify, GracefulStop, StopDone, CloseProducer, CloseClient, Exit
  <2>2. CASE ForcedStop
    BY <2>2
  <2>3. CASE CloseMongo /\ Closes("mongodb")
    BY <2>3 DEF CloseMongo, CloseClient, Closes, CheckStep, Component
  <2>4. CASE CloseRedis /\ Closes("redis")
    BY <2>4 DEF CloseRedis, CloseClient, Closes, CheckStep, Component
  <2> QED BY <1>2, <2>1, <2>2, <2>3, <2>4 DEF BackendSignal
<1>3. CASE (Terminate \/ GracefulStopEnds) /\ UNCHANGED healthVars
  BY <1>3 DEF Terminate, GracefulStopEnds
<1>4. ASSUME NEW r \in Request, Other(r)
      PROVE  UNCHANGED healthVars /\ client' = client
  <2>1. Handles(r) /\ UNCHANGED healthVars
    BY <1>4 DEF Other, Handles
  <2> QED BY <2>1, HandlerStep
<1>5. CASE Checks
  BY <1>5 DEF Checks, CheckStep
<1>6. ASSUME NEW c \in Component, Prober(c)
      PROVE  CheckStep
  BY <1>6 DEF Prober, CheckStep
<1>7. CASE Environment
  BY <1>7 DEF Environment, CheckStep, Component, Pinged, Health!Pinged
<1>8. CASE UNCHANGED backendVars
  BY <1>8 DEF backendVars, vars
<1> QED BY <1>1, <1>2, <1>3, <1>4, <1>5, <1>6, <1>7, <1>8
        DEF BackendNext, Handler

(* The check's handler is there as long as the check, and no client is      *)
(* closed before the stop.                                                  *)
LEMMA HandlerInvariant ==
  ASSUME IInv, HandlerInv, [BackendNext]_backendVars
  PROVE  HandlerInv'
<1> USE DEF IInv
<1>1. closed' # {} => stopped'
  <2>1. stopped => stopped'
    <3>1. CASE MainStep
      BY <3>1 DEF MainStep, LoadConfig, LoadFails, NewMongoClient, NewRedisClient,
         NewProducer, Connect, Listen, ListenFails, Serve, ServeTooLate,
         ServeReturns, stop
    <3>2. CASE SignalStep
      BY <3>2 DEF SignalStep, Notify, GracefulStop, StopDone, StopTimesOut,
         CloseProducer, CloseMongo, CloseRedis, CloseClient, Exit, stop
    <3>3. CASE Terminate \/ GracefulStopEnds
      BY <3>3 DEF Terminate, GracefulStopEnds, stop
    <3>4. ASSUME NEW r \in Request, Handles(r)
          PROVE  stopped' = stopped
      BY <3>4, HandlerStep DEF stop
    <3>5. CASE UNCHANGED vars
      BY <3>5 DEF vars, stop
    <3> QED BY ServerStep, <3>1, <3>2, <3>3, <3>4, <3>5 DEF Next
  <2>2. closed' # closed => stopped
    <3>1. CASE MainStep
      BY <3>1 DEF MainStep, LoadConfig, LoadFails, NewMongoClient, NewRedisClient,
         NewProducer, Connect, Listen, ListenFails, Serve, ServeTooLate,
         ServeReturns
    <3>2. CASE SignalStep
      BY <3>2 DEF SignalStep, Notify, GracefulStop, StopDone, StopTimesOut,
         CloseProducer, CloseMongo, CloseRedis, CloseClient, Exit, Signal,
         Closing, StopOrder
    <3>3. CASE Terminate \/ GracefulStopEnds
      BY <3>3 DEF Terminate, GracefulStopEnds
    <3>4. ASSUME NEW r \in Request, Handles(r)
          PROVE  closed' = closed
      BY <3>4, HandlerStep
    <3>5. CASE UNCHANGED vars
      BY <3>5 DEF vars
    <3> QED BY ServerStep, <3>1, <3>2, <3>3, <3>4, <3>5 DEF Next
  <2> QED BY <2>1, <2>2 DEF HandlerInv
<1>2. pc' # "idle" => main' = "serving" /\ at'[Checker] = "health"
  <2>1. ASSUME NEW r \in Request, Other(r), r # Checker
        PROVE  pc' = pc /\ main' = main /\ at'[Checker] = at[Checker]
    <3>1. Handles(r) /\ pc' = pc
      BY <2>1 DEF Other, Handles, healthVars
    <3>2. at'[Checker] = at[Checker]
      BY <2>1 DEF Other, Arrive, Unary, Greet, AskUser, GetUser, GetUserOfNil,
                  ChatEnds, Step, TypeOK
    <3> QED BY <3>1, <3>2, HandlerStep
  <2>2. CASE Begin
    BY <2>2 DEF Begin, Arrive, Step, TypeOK
  <2>3. CASE Return
    BY <2>3 DEF Return, Health!Return
  <2>4. CASE BackendMain
    <3>1. pc' = pc /\ at' = at /\ (main = "serving" => main' = main)
      BY <2>4 DEF BackendMain, healthVars, MainStep, LoadConfig, LoadFails,
         NewMongoClient, NewRedisClient, NewProducer, Connect, Listen,
         ListenFails, Serve, ServeTooLate, ServeReturns, Main
    <3> QED BY <3>1 DEF HandlerInv
  <2>5. CASE BackendSignal
    <3>1. at' = at /\ main' = main
      BY <2>5 DEF BackendSignal, ForcedStop, Notify, GracefulStop, StopDone,
         StopTimesOut, CloseProducer, CloseMongo, CloseRedis, CloseClient, Exit
    <3>2. pc' = pc
      BY <2>5 DEF BackendSignal, ForcedStop, Closes, Health!Fail, healthVars
    <3> QED BY <3>1, <3>2 DEF HandlerInv
  <2>6. CASE (Terminate \/ GracefulStopEnds) /\ UNCHANGED healthVars
    BY <2>6 DEF Terminate, GracefulStopEnds, healthVars, HandlerInv
  <2>7. CASE Checks
    BY <2>7 DEF Checks, Health!Launch, Health!Collect, Health!Answer, vars,
                HandlerInv
  <2>8. CASE Environment
    BY <2>8 DEF Environment, Health!Cancel, Health!Fail, Health!Recover, vars,
                HandlerInv
  <2>9. ASSUME NEW c \in Component, Prober(c)
        PROVE  pc' = pc /\ UNCHANGED vars
    BY <2>9 DEF Prober, Health!Prober, Health!Check, Health!PingMongo,
       Health!PingRedis, Health!Ping, Health!CheckProducer, Health!Probe,
       Health!Report
  <2>10. CASE UNCHANGED backendVars
    BY <2>10 DEF backendVars, vars, healthVars, HandlerInv
  <2> QED BY <2>1, <2>2, <2>3, <2>4, <2>5, <2>6, <2>7, <2>8, <2>9, <2>10
          DEF BackendNext, Handler, HandlerInv, vars
<1> QED BY <1>1, <1>2 DEF HandlerInv

-----------------------------------------------------------------------------
LEMMA ThreeComponents ==
  /\ Health!Component = Component
  /\ Component = {"mongodb", "redis", "kafka"}
  /\ Pinged = {"mongodb", "redis"}
  /\ \A i \in 1 .. 3 : Health!Order[i] \in Component
  /\ \A c \in Component : \E i \in 1 .. 3 : Health!Order[i] = c
  /\ \A i, j \in 1 .. 3 : Health!Order[i] = Health!Order[j] => i = j
<1>1. /\ Health!Component = Component
      /\ Component = {"mongodb", "redis", "kafka"}
      /\ Pinged = {"mongodb", "redis"}
  BY DEF Health!Component, Component, Pinged, Health!Pinged
<1>2. /\ Health!Order[1] = "mongodb" /\ Health!Order[2] = "redis"
      /\ Health!Order[3] = "kafka"
  BY DEF Health!Order
<1>3. \A i \in 1 .. 3 : i = 1 \/ i = 2 \/ i = 3
  OBVIOUS
<1> QED BY <1>1, <1>2, <1>3

(* The count of results to come decides whether one is outstanding.         *)
LEMMA BusyType ==
  /\ \A c \in Component : Busy(c) \in {0, 1}
  /\ \A c \in Component : Busy(c) <= Probing
  /\ Probing \in 0 .. 3
BY ThreeComponents DEF Busy, Probing

(* One component's goroutine starts or ends.                                *)
LEMMA BusyChanges ==
  ASSUME Health!TypeOK, NEW c \in Component, NEW v,
         probe' = [probe EXCEPT ![c] = v]
  PROVE  Probing' = Probing - Busy(c) + Busy(c)'
<1>1. \A d \in Component : d # c => Busy(d)' = Busy(d)
  BY ThreeComponents DEF Busy, Health!TypeOK
<1>2. \A d \in Component : Busy(d) \in {0, 1} /\ Busy(d)' \in {0, 1}
  BY DEF Busy
<1> QED BY <1>1, <1>2, ThreeComponents DEF Probing

(* What may be said of a component may be said until the check is over.     *)
LEMMA ToldStays ==
  ASSUME client' = client, seenUp \subseteq seenUp', seenDown \subseteq seenDown',
         ctxDone => ctxDone', NEW c, NEW ok, Told(c, ok)
  PROVE  Told(c, ok)'
BY DEF Told

CheckInv == Health!TypeOK /\ CountInv /\ ToldInv

(* Launch of a component's goroutine, or of the result of none.             *)
LEMMA LaunchKeeps ==
  ASSUME CheckInv, Health!Launch
  PROVE  CheckInv'
<1> USE ThreeComponents DEF CheckInv
<1>0. next \in 1 .. 3
  BY DEF Health!Launch, Health!TypeOK, CountInv
<1> PICK c \in Component : c = Health!Order[next]
  BY <1>0
<1>1. /\ next \in 1 .. 3 /\ next' = next + 1
      /\ UNCHANGED <<client, up, left, status, overall, ctxDone, seenUp, seenDown>>
  BY DEF Health!Launch, Health!TypeOK, CountInv, Health!answer, Health!history
<1>2. pc = "launch" /\ pc' = IF next = 3 THEN "collect" ELSE "launch"
  BY DEF Health!Launch
<1>3. \A d \in Component : Launched(d)' <=> Launched(d) \/ d = c
  BY <1>1 DEF Launched
<1>4. probe[c] = "none" /\ ~Launched(c)
  BY <1>1 DEF ToldInv, Launched
<1>5. CASE c \in client /\ probe' = [probe EXCEPT ![c] = "ping"] /\ results' = results
  <2>1. Health!TypeOK'
    BY <1>1, <1>2, <1>5 DEF Health!TypeOK
  <2>2. CountInv'
    <3>1. Busy(c) = 0 /\ Busy(c)' = 1
      BY <1>1, <1>4, <1>5 DEF Busy, Health!TypeOK
    <3>2. Probing' = Probing + 1
      <4>1. Probing' = Probing - 0 + 1
        <5>1. probe' = [probe EXCEPT ![c] = "ping"] /\ Health!TypeOK
          BY <1>5
        <5>2. Probing' = Probing - Busy(c) + Busy(c)'
          BY <5>1, BusyChanges
        <5> QED BY <3>1, <5>2
      <4> QED BY <4>1, BusyType
    <3> QED BY <1>1, <1>2, <1>5, <3>2, BusyType DEF CountInv, Health!TypeOK
  <2>3. \A d \in Component : d # c => probe'[d] = probe[d]
    BY <1>1, <1>5 DEF Health!TypeOK
  <2>4. probe'[c] = "ping"
    BY <1>1, <1>5 DEF Health!TypeOK
  <2>5. \A d, ok : Told(d, ok)' <=> Told(d, ok)
    BY <1>1 DEF Told
  <2>6. \A d \in Component : Sent(d)' <=> Sent(d)
    BY <1>5 DEF Sent
  <2>7. ToldInv'
    BY <1>1, <1>2, <1>3, <1>5, <2>3, <2>4, <2>5, <2>6 DEF ToldInv
  <2> QED BY <2>1, <2>2, <2>7
<1>6. CASE c \notin client /\ Health!SendResult(c, FALSE) /\ probe' = probe
  <2> DEFINE r == [name |-> c, available |-> FALSE]
  <2>1. /\ results' = Append(results, r) /\ r \in Health!Result
        /\ Len(results) < 3
    BY <1>1, <1>6 DEF Health!SendResult, Health!Capacity, Health!Result
  <2>2. /\ results' \in Seq(Health!Result) /\ Len(results') = Len(results) + 1
        /\ \A i \in 1 .. Len(results) : results'[i] = results[i]
        /\ results'[Len(results) + 1] = r
    BY <2>1 DEF Health!TypeOK
  <2>3. Health!TypeOK'
    BY <1>1, <1>2, <1>6, <2>1, <2>2 DEF Health!TypeOK
  <2>4. CountInv'
    <3>1. Probing' = Probing
      BY <1>6 DEF Probing, Busy
    <3> QED BY <1>1, <1>2, <2>2, <3>1, BusyType DEF CountInv, Health!TypeOK
  <2>5. \A d, ok : Told(d, ok)' <=> Told(d, ok)
    BY <1>1 DEF Told
  <2>6. \A d \in Component : Sent(d)' <=> Sent(d) \/ d = c
    BY <2>2 DEF Sent, Health!TypeOK
  <2>7. \A i \in 1 .. Len(results') : Told(results'[i].name, results'[i].available)
    BY <1>6, <2>2 DEF ToldInv, Told, Health!TypeOK
  <2>8. ToldInv'
    BY <1>1, <1>2, <1>3, <1>4, <1>6, <2>5, <2>6, <2>7 DEF ToldInv
  <2> QED BY <2>3, <2>4, <2>8
<1> QED BY <1>5, <1>6 DEF Health!Launch

(* A ping's answer, or Kafka's.                                             *)
LEMMA ProbeKeeps ==
  ASSUME CheckInv, NEW c \in Component, Health!Check(c)
  PROVE  CheckInv'
<1> USE ThreeComponents DEF CheckInv
<1>1. PICK ok \in BOOLEAN :
         /\ probe[c] = "ping"
         /\ probe' = [probe EXCEPT ![c] = IF ok THEN "up" ELSE "down"]
         /\ IF ok THEN c \in Pinged => c \in up
            ELSE c \in Pinged /\ (c \notin up \/ ctxDone)
         /\ UNCHANGED <<client, up, pc, next, results, left, status, overall,
                        ctxDone, seenUp, seenDown>>
  BY DEF Health!Check, Health!PingMongo, Health!PingRedis, Health!Ping,
         Health!CheckProducer, Health!Probe, Health!answer, Health!history
<1>2. Health!TypeOK'
  BY <1>1 DEF Health!TypeOK
<1>3. pc # "idle"
  BY <1>1 DEF CountInv
<1>4. probe'[c] = IF ok THEN "up" ELSE "down"
  BY <1>1 DEF Health!TypeOK
<1>5. \A d \in Component : d # c => probe'[d] = probe[d]
  BY <1>1 DEF Health!TypeOK
<1>6. CountInv'
  <2>1. Busy(c) = 1 /\ Busy(c)' = 1
    BY <1>1, <1>4 DEF Busy
  <2>2. Probing' = Probing
    <3>1. Probing' = Probing - 1 + 1
      BY <1>1, <2>1, BusyChanges
    <3> QED BY <3>1, BusyType
  <2> QED BY <1>1, <1>3, <2>2 DEF CountInv
<1>7. Told(c, ok)'
  BY <1>1, <1>3 DEF ToldInv, Told
<1>8. \A d, b : Told(d, b)' <=> Told(d, b)
  BY <1>1 DEF Told
<1>9. ToldInv'
  BY <1>1, <1>3, <1>4, <1>5, <1>7, <1>8 DEF ToldInv, Launched, Sent
<1> QED BY <1>2, <1>6, <1>9

(* A goroutine sends what it found.                                         *)
LEMMA ReportKeeps ==
  ASSUME CheckInv, NEW c \in Component, Health!Report(c)
  PROVE  CheckInv'
<1> USE ThreeComponents DEF CheckInv
<1> DEFINE r == [name |-> c, available |-> probe[c] = "up"]
<1>1. /\ probe[c] \in {"up", "down"} /\ probe' = [probe EXCEPT ![c] = "none"]
      /\ results' = Append(results, r) /\ Len(results) < 3
      /\ UNCHANGED <<client, up, pc, next, left, status, overall, ctxDone,
                     seenUp, seenDown>>
  BY DEF Health!Report, Health!SendResult, Health!Capacity, Health!answer,
         Health!history
<1>2. r \in Health!Result
  BY DEF Health!Result
<1>3. /\ results' \in Seq(Health!Result) /\ Len(results') = Len(results) + 1
      /\ \A i \in 1 .. Len(results) : results'[i] = results[i]
      /\ results'[Len(results) + 1] = r
  BY <1>1, <1>2 DEF Health!TypeOK
<1>4. Health!TypeOK'
  <2>1. probe' \in [Component -> {"none", "ping", "up", "down"}]
    BY <1>1 DEF Health!TypeOK
  <2> QED BY <1>1, <1>3, <2>1 DEF Health!TypeOK
<1>5. probe'[c] = "none" /\ \A d \in Component : d # c => probe'[d] = probe[d]
  BY <1>1 DEF Health!TypeOK
<1>6. pc # "idle"
  BY <1>1 DEF CountInv
<1>7. CountInv'
  <2>1. Busy(c) = 1 /\ Busy(c)' = 0
    BY <1>1, <1>5 DEF Busy
  <2>2. Probing' = Probing - 1 + 0
    BY <1>1, <2>1, BusyChanges
  <2> QED BY <1>1, <1>3, <1>6, <2>2, BusyType DEF CountInv, Health!TypeOK
<1>8. \A d, b : Told(d, b)' <=> Told(d, b)
  BY <1>1 DEF Told
<1>9. \A d \in Component : Sent(d)' <=> Sent(d) \/ d = c
  BY <1>3 DEF Sent, Health!TypeOK
<1>10. \A i \in 1 .. Len(results') : Told(results'[i].name, results'[i].available)
  BY <1>1, <1>3 DEF ToldInv, Health!TypeOK
<1>11. ToldInv'
  BY <1>1, <1>5, <1>8, <1>9, <1>10 DEF ToldInv, Launched
<1> QED BY <1>4, <1>7, <1>11

(* The handler takes a result: the component it names is not outstanding    *)
(* any more.                                                                *)
LEMMA CollectKeeps ==
  ASSUME CheckInv, Health!Collect
  PROVE  CheckInv'
<1> USE ThreeComponents DEF CheckInv
<1>1. PICK r \in Health!Result :
         r = results[1] /\ Len(results) \in Nat /\ 1 <= Len(results)
  <2>1. results \in Seq(Health!Result)
    BY DEF Health!TypeOK
  <2>2. results # <<>>
    BY DEF Health!Collect
  <2>3. Len(results) \in Nat /\ 1 <= Len(results)
    BY <2>1, <2>2
  <2>4. results[1] \in Health!Result
    BY <2>1, <2>3
  <2> QED BY <2>3, <2>4
<1>2. /\ pc = "collect" /\ left > 0 /\ left' = left - 1
      /\ status' = [status EXCEPT ![r.name] = r.available]
      /\ results' = Tail(results)
      /\ UNCHANGED <<client, up, pc, next, probe, overall, ctxDone, seenUp,
                     seenDown>>
  <2>1. Head(results) = r
    BY <1>1 DEF Health!TypeOK
  <2> QED BY <2>1 DEF Health!Collect, Health!NameOf, Health!history
<1>3. /\ results' \in Seq(Health!Result) /\ Len(results') = Len(results) - 1
      /\ \A i \in 1 .. Len(results') : results'[i] = results[i + 1]
  BY <1>1, <1>2 DEF Health!TypeOK
<1>4. r.name \in Component /\ r.available \in BOOLEAN
  BY DEF Health!Result
<1>5. Health!TypeOK'
  <2>1. status' \in [Component -> BOOLEAN]
    BY <1>2, <1>4 DEF Health!TypeOK
  <2>2. left' \in 0 .. 3
    BY <1>2 DEF Health!TypeOK
  <2> QED BY <1>1, <1>2, <1>3, <2>1, <2>2 DEF Health!TypeOK
<1>6. CountInv'
  <2>1. Probing' = Probing
    BY <1>2 DEF Probing, Busy
  <2> QED BY <1>1, <1>2, <1>3, <2>1, BusyType DEF CountInv, Health!TypeOK
<1>7. \A d, b : Told(d, b)' <=> Told(d, b)
  BY <1>2 DEF Told
<1>8. Told(r.name, r.available)
  BY <1>1 DEF ToldInv
<1>9. \A d \in Component : Sent(d) <=> Sent(d)' \/ d = r.name
  <2> SUFFICES ASSUME NEW d \in Component
               PROVE  Sent(d) <=> Sent(d)' \/ d = r.name
    OBVIOUS
  <2>1. ASSUME NEW i \in 1 .. Len(results), results[i].name = d, d # r.name
        PROVE  Sent(d)'
    <3>1. i # 1
      BY <1>1, <2>1
    <3>2. i - 1 \in 1 .. Len(results') /\ results'[i - 1] = results[i]
      BY <1>1, <1>3, <3>1
    <3> QED BY <2>1, <3>2 DEF Sent
  <2>2. ASSUME NEW i \in 1 .. Len(results'), results'[i].name = d
        PROVE  Sent(d)
    <3>1. i + 1 \in 1 .. Len(results) /\ results[i + 1].name = d
      BY <1>1, <1>3, <2>2
    <3> QED BY <3>1 DEF Sent
  <2>3. d = r.name => Sent(d)
    BY <1>1 DEF Sent
  <2> QED BY <2>1, <2>2, <2>3 DEF Sent
<1>10. \A i \in 1 .. Len(results') : Told(results'[i].name, results'[i].available)
  BY <1>1, <1>3 DEF ToldInv
<1>11. \A d \in Component :
         status'[d] = IF d = r.name THEN r.available ELSE status[d]
  BY <1>2, <1>4 DEF Health!TypeOK
<1>12. ToldInv'
  BY <1>2, <1>7, <1>8, <1>9, <1>10, <1>11 DEF ToldInv, Launched
<1> QED BY <1>5, <1>6, <1>12

(* All three are received: the answer speaks of all of them.                *)
LEMMA AnswerKeeps ==
  ASSUME CheckInv, Health!Answer
  PROVE  CheckInv'
<1> USE ThreeComponents DEF CheckInv
<1>1. /\ pc = "collect" /\ left = 0 /\ pc' = "answered"
      /\ overall' = IF \A c \in Component : status[c] THEN "SERVING"
                    ELSE IF \E c \in Component : status[c] THEN "DEGRADED"
                    ELSE "NOT_SERVING"
      /\ UNCHANGED <<client, up, next, probe, results, left, status, ctxDone,
                     seenUp, seenDown>>
  BY DEF Health!Answer, Health!AllReceived, Health!history
<1>2. overall' \in {"SERVING", "DEGRADED", "NOT_SERVING"}
  BY <1>1
<1>3. Health!TypeOK'
  BY <1>1, <1>2 DEF Health!TypeOK
<1>4. CountInv'
  BY <1>1 DEF CountInv, Probing, Busy
<1>5. /\ overall' = "SERVING" => \A c \in Component : status[c]
      /\ overall' = "NOT_SERVING" => \A c \in Component : ~status[c]
  BY <1>1
<1>6. \A d, b : Told(d, b)' <=> Told(d, b)
  BY <1>1 DEF Told
<1>7. ToldInv'
  BY <1>1, <1>5, <1>6 DEF ToldInv, Launched, Sent
<1> QED BY <1>3, <1>4, <1>7

(* Components fail and recover, contexts are cancelled: what is done with   *)
(* is history, and what is to be said stays true.                           *)
LEMMA HistoryKeeps ==
  ASSUME CheckInv, UNCHANGED <<pc, next, probe, results, left, status, overall>>,
         client' \subseteq Component, up' \subseteq Component, ctxDone' \in BOOLEAN,
         pc # "idle" => /\ client' = client
                        /\ seenUp \subseteq seenUp' /\ seenDown \subseteq seenDown'
                        /\ up' \subseteq seenUp' /\ Component \ up' \subseteq seenDown'
                        /\ ctxDone => ctxDone',
         seenUp' \subseteq Component, seenDown' \subseteq Component
  PROVE  CheckInv'
<1> USE ThreeComponents DEF CheckInv
<1>1. Health!TypeOK'
  BY DEF Health!TypeOK
<1>2. CountInv'
  BY DEF CountInv, Probing, Busy
<1>3. CASE pc = "idle"
  <2>1. \A c \in Component : probe[c] = "none" /\ ~Launched(c)
    BY <1>3 DEF CountInv, Launched
  <2>2. Len(results) = 0
    BY <1>3 DEF CountInv
  <2> QED BY <1>1, <1>2, <1>3, <2>1, <2>2 DEF ToldInv, Launched
<1>4. CASE pc # "idle"
  <2>1. \A c, ok : Told(c, ok) => Told(c, ok)'
    BY <1>4, ToldStays
  <2>2. ToldInv'
    BY <1>4, <2>1 DEF ToldInv, Launched, Sent
  <2> QED BY <1>1, <1>2, <2>2
<1> QED BY <1>3, <1>4

(* A check begins with nothing on its way, and ends so.                     *)
LEMMA BeginKeeps ==
  ASSUME CheckInv, Health!Begin
  PROVE  CheckInv'
<1> USE ThreeComponents DEF CheckInv
<1>1. /\ pc = "idle" /\ pc' = "launch" /\ left' = 3
      /\ seenUp' = up /\ seenDown' = Component \ up
      /\ UNCHANGED <<up, next, probe, results, status, overall, ctxDone>>
  BY DEF Health!Begin, Health!Expected, Health!answer
<1>2. /\ next = 1 /\ results = <<>> /\ Len(results) = 0
      /\ \A c \in Component : probe[c] = "none" /\ ~Launched(c)
  BY <1>1 DEF CountInv, Launched
<1>3. Health!TypeOK' /\ client' = client
  BY <1>1 DEF Health!TypeOK, Health!Begin
<1>4. CountInv'
  BY <1>1, <1>2 DEF CountInv, Probing, Busy
<1>5. ToldInv'
  BY <1>1, <1>2 DEF ToldInv, Launched
<1> QED BY <1>3, <1>4, <1>5

LEMMA ReturnKeeps ==
  ASSUME CheckInv, Health!Return
  PROVE  CheckInv'
<1> USE ThreeComponents DEF CheckInv
<1>1. /\ pc = "answered" /\ pc' = "idle" /\ next' = 1
      /\ status' = [c \in Component |-> FALSE] /\ overall' = "UNKNOWN"
      /\ ctxDone' = FALSE /\ seenUp' = {} /\ seenDown' = {}
      /\ UNCHANGED <<client, up, probe, results, left>>
  BY DEF Health!Return
<1>2. Len(results) = 0 /\ Probing = 0
  BY <1>1, BusyType DEF CountInv, Health!TypeOK
<1>3. results = <<>> /\ \A c \in Component : probe[c] = "none"
  <2>1. \A c \in Component : Busy(c) = 0
    BY <1>2, BusyType
  <2> QED BY <1>2, <2>1 DEF Health!TypeOK, Busy
<1>4. Health!TypeOK'
  <2>1. status' \in [Component -> BOOLEAN] /\ next' \in 1 .. 4
    BY <1>1
  <2> QED BY <1>1, <2>1 DEF Health!TypeOK
<1>5. CountInv'
  BY <1>1, <1>3 DEF CountInv
<1>6. ToldInv'
  BY <1>1, <1>2, <1>3 DEF ToldInv, Launched
<1> QED BY <1>4, <1>5, <1>6

(* Each step of the backend keeps the check's books.                        *)
LEMMA CheckKept ==
  ASSUME TypeOK, TypeOK', HandlerInv, CheckInv, [BackendNext]_backendVars
  PROVE  CheckInv'
<1> USE ThreeComponents
<1>1. client' \subseteq Component
  BY DEF TypeOK
<1>2. /\ up \subseteq Component /\ ctxDone \in BOOLEAN
      /\ seenUp \subseteq Component /\ seenDown \subseteq Component
  BY DEF CheckInv, Health!TypeOK
<1>3. pc # "idle" => up \subseteq seenUp /\ Component \ up \subseteq seenDown
  BY DEF CheckInv, ToldInv
<1>4. CASE UNCHANGED healthVars /\ (pc # "idle" => client' = client)
  <2>1. UNCHANGED <<up, pc, next, probe, results, left, status, overall, ctxDone,
                    seenUp, seenDown>>
    BY <1>4 DEF healthVars
  <2> QED BY <1>1, <1>2, <1>3, <1>4, <2>1, HistoryKeeps
<1>5. CASE ForcedStop
  <2>1. ctxDone' = (pc # "idle") /\ client' = client
    BY <1>5 DEF ForcedStop, StopTimesOut
  <2>2. UNCHANGED <<up, pc, next, probe, results, left, status, overall, seenUp,
                    seenDown>>
    BY <1>5 DEF ForcedStop
  <2>3. ctxDone' \in BOOLEAN /\ (pc # "idle" => ctxDone')
    BY <2>1
  <2> QED BY <1>1, <1>2, <1>3, <2>1, <2>2, <2>3, HistoryKeeps
<1>6. CASE Health!Cancel
  <2>1. /\ ctxDone' = TRUE
        /\ UNCHANGED <<client, up, pc, next, probe, results, left, status,
                       overall, seenUp, seenDown>>
    BY <1>6 DEF Health!Cancel, Health!answer, Health!history
  <2> QED BY <1>1, <1>2, <1>3, <2>1, HistoryKeeps
<1>7. ASSUME NEW c \in Component, Health!Fail(c)
      PROVE  CheckInv'
  <2>1. /\ up' = up \ {c} /\ seenUp' = seenUp
        /\ seenDown' = IF pc = "idle" THEN {} ELSE seenDown \cup {c}
        /\ UNCHANGED <<client, pc, next, probe, results, left, status, overall,
                       ctxDone>>
    BY <1>7 DEF Health!Fail, Health!answer
  <2> QED BY <1>1, <1>2, <1>3, <2>1, HistoryKeeps
<1>8. ASSUME NEW c \in Component, Health!Recover(c)
      PROVE  CheckInv'
  <2>1. /\ up' = up \cup {c} /\ seenDown' = seenDown
        /\ seenUp' = IF pc = "idle" THEN {} ELSE seenUp \cup {c}
        /\ UNCHANGED <<client, pc, next, probe, results, left, status, overall,
                       ctxDone>>
    BY <1>8 DEF Health!Recover, Health!answer
  <2> QED BY <1>1, <1>2, <1>3, <2>1, HistoryKeeps
<1>9. ASSUME NEW c \in Component, Health!Prober(c)
      PROVE  CheckInv'
  BY <1>9, ProbeKeeps, ReportKeeps DEF Health!Prober
<1>10. CASE Begin
  BY <1>10, BeginKeeps DEF Begin
<1>11. CASE Return
  BY <1>11, ReturnKeeps DEF Return
<1>12. CASE CheckStep
  BY <1>6, <1>7, <1>8, <1>9, <1>12, LaunchKeeps, CollectKeeps, AnswerKeeps
     DEF CheckStep
<1> QED BY <1>4, <1>5, <1>10, <1>11, <1>12, StepOfCheck

LEMMA HealthInvariant == BackendSpec => []HealthInv
<1>1. BackendInit => HealthInv
  <2> SUFFICES ASSUME BackendInit
               PROVE  HealthInv
    OBVIOUS
  <2> USE ThreeComponents DEF BackendInit, Init, Health!Init
  <2>1. Health!TypeOK
    <3>1. /\ status \in [Component -> BOOLEAN] /\ next \in 1 .. 4
          /\ probe \in [Component -> {"none", "ping", "up", "down"}]
          /\ results \in Seq(Health!Result) /\ Len(results) <= 3
          /\ left \in 0 .. 3
      OBVIOUS
    <3> QED BY <3>1 DEF Health!TypeOK
  <2>2. HandlerInv /\ CountInv
    BY DEF HandlerInv, CountInv
  <2>3. ToldInv
    BY DEF ToldInv, Launched
  <2> QED BY <2>1, <2>2, <2>3 DEF HealthInv
<1>2. IInv /\ IInv' /\ HealthInv /\ [BackendNext]_backendVars => HealthInv'
  BY HandlerInvariant, CheckKept DEF IInv, HealthInv, CheckInv
<1> QED BY <1>1, <1>2, BackendIsAServer, Invariant, PTL DEF BackendSpec

-----------------------------------------------------------------------------
(* The process, its handlers, and a check's goroutines, channel and answer  *)
(* stay well typed.                                                         *)
THEOREM BackendTypeCorrect == BackendSpec => []BackendTypeOK
<1>1. IInv /\ HealthInv => BackendTypeOK
  BY DEF IInv, HealthInv, BackendTypeOK
<1> QED BY <1>1, HealthInvariant, BackendIsAServer, Invariant, PTL

(* What the answer says of MongoDB and Redis was so at some time of the     *)
(* check, in whatever order the results came, also while the process goes   *)
(* down.                                                                    *)
THEOREM AnswersTruthfully == BackendSpec => []Truthful
<1>1. HealthInv => Truthful
  <2> SUFFICES ASSUME HealthInv, pc = "answered"
               PROVE  Truthful
    BY DEF Truthful, Health!Truthful
  <2> USE ThreeComponents
  <2>1. Len(results) = 0 /\ Probing = 0
    BY BusyType DEF HealthInv, CountInv, Health!TypeOK
  <2>2. \A c \in Component : probe[c] = "none" /\ ~Sent(c)
    BY <2>1, BusyType DEF Busy, Sent
  <2>3. \A c \in Component : Launched(c)
    BY DEF HealthInv, CountInv, Launched
  <2>4. \A c \in Component : Told(c, status[c])
    BY <2>2, <2>3 DEF HealthInv, ToldInv
  <2>5. \A c \in Pinged :
          IF status[c] THEN c \in client \cap seenUp
          ELSE c \in seenDown \/ c \notin client \/ ctxDone
    BY <2>4 DEF Told
  <2>6. overall = "SERVING" => Component \subseteq client /\ Pinged \subseteq seenUp
    BY <2>4 DEF Told, HealthInv, ToldInv
  <2>7. overall = "NOT_SERVING" => "kafka" \notin client
    BY <2>4 DEF Told, HealthInv, ToldInv
  <2> QED BY <2>5, <2>6, <2>7 DEF Truthful, Health!Truthful, Pinged
<1> QED BY <1>1, HealthInvariant, PTL

(* No goroutine of a check outlives its handler: a client that is closed is *)
(* pinged only if Stop had to be forced.                                    *)
THEOREM NothingPingsAfterClose == BackendSpec => []NoPingAfterClose
<1>1. IInv /\ HealthInv => NoPingAfterClose
  <2> SUFFICES ASSUME IInv, HealthInv,
                      NEW c \in closed, probe[c] = "ping"
               PROVE  forced
    BY DEF NoPingAfterClose
  <2>1. c \in Component /\ stopped
    BY DEF IInv, TypeOK, HealthInv, HandlerInv
  <2>2. pc # "idle"
    BY <2>1 DEF HealthInv, CountInv
  <2>3. Checker \in Active
    BY <2>2 DEF HealthInv, HandlerInv, Active
  <2> QED BY <2>1, <2>3 DEF IInv, StopOrder
<1> QED BY <1>1, HealthInvariant, BackendIsAServer, Invariant, PTL
==============================================================================
