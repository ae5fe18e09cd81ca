-------------------------------- MODULE Backend --------------------------------
(***************************************************************************)
(* cmd/server/main.go as a whole: the life of the process (Server) with    *)
(* the HealthCheck RPC (HealthCheck) as one of its handlers.  Both share   *)
(* the clients: main makes them and the signal goroutine closes them,      *)
(* while the goroutines of a check ping what they stand for.               *)
(***************************************************************************)
EXTENDS Server

CONSTANT Checker   \* bound: the request that may be a health check, and only that

ASSUME CheckerAssumption == Checker \in Request

VARIABLES up, pc, next, probe, results, left, status, overall, ctxDone,
          seenUp, seenDown

healthVars == <<up, pc, next, probe, results, left, status, overall, ctxDone,
                seenUp, seenDown>>
backendVars == <<vars, healthVars>>

Health == INSTANCE HealthCheck

Pinged == Health!Pinged

BackendTypeOK == TypeOK /\ Health!TypeOK

\* Nothing asks whether Kafka is up.
BackendInit == Init /\ Health!Init /\ "kafka" \in up

-----------------------------------------------------------------------------
\* MongoDB and Redis were pinged before their client is handed out.
BackendMain ==
  /\ MainStep
  /\ (client' \ client) \cap Pinged \subseteq up
  /\ UNCHANGED healthVars

\* Stop cancels the handlers.
ForcedStop ==
  /\ StopTimesOut
  /\ ctxDone' = (pc # "idle")
  /\ UNCHANGED <<up, pc, next, probe, results, left, status, overall, seenUp,
                 seenDown>>

\* What is closed does not answer any more.
Closes(c) ==
  IF c \in up /\ c \in client THEN Health!Fail(c) ELSE UNCHANGED healthVars

BackendSignal ==
  \/ (Notify \/ GracefulStop \/ StopDone \/ CloseProducer \/ Exit)
     /\ UNCHANGED healthVars
  \/ ForcedStop
  \/ CloseMongo /\ Closes("mongodb")
  \/ CloseRedis /\ Closes("redis")

Begin == Arrive(Checker, "health") /\ Health!Begin
Return == HealthReturns(Checker) /\ Health!Return

Checks ==
  /\ process = "runs" /\ UNCHANGED vars
  /\ Health!Launch \/ Health!Collect \/ Health!Answer

Handler == Checks \/ Return

Prober(c) == process = "runs" /\ Health!Prober(c) /\ UNCHANGED vars

\* The caller leaves; components fail and recover, unless they were closed.
Environment ==
  /\ process = "runs" /\ UNCHANGED vars
  /\ \/ Health!Cancel
     \/ \E c \in Pinged : Health!Fail(c)
     \/ \E c \in Pinged \ closed : Health!Recover(c)

Other(r) ==
  /\ \/ \E kind \in {"hello", "chat"} : Arrive(r, kind)
     \/ Unary(r) \/ ChatEnds(r)
  /\ UNCHANGED healthVars

BackendNext ==
  \/ BackendMain \/ BackendSignal
  \/ (Terminate \/ GracefulStopEnds) /\ UNCHANGED healthVars
  \/ \E r \in Request \ {Checker} : Other(r)
  \/ Begin
  \/ Handler
  \/ \E c \in Component : Prober(c)
  \/ Environment

(* The goroutines are scheduled, each Close returns, and a ping ends by     *)
(* itself.  Nothing makes a chat end or a signal come.                      *)
BackendSpec ==
  /\ BackendInit /\ [][BackendNext]_backendVars
  /\ WF_backendVars(BackendMain) /\ WF_backendVars(BackendSignal)
  /\ WF_backendVars(GracefulStopEnds /\ UNCHANGED healthVars)
  /\ \A r \in Request : WF_backendVars(Unary(r) /\ UNCHANGED healthVars)
  /\ WF_backendVars(Handler)
  /\ \A c \in Component : WF_backendVars(Prober(c))

-----------------------------------------------------------------------------
(* Lines 190 to 214: what the answer says of MongoDB and Redis was so at    *)
(* some time of the check, also while the process goes down.                *)
Truthful == Health!Truthful

(* Lines 115 to 186 and 338 to 362: unless Stop had to be forced, no        *)
(* goroutine of a health check uses a client that is closed; so none        *)
(* outlives its handler.                                                    *)
NoPingAfterClose ==
  \A c \in closed : probe[c] = "ping" => forced

(* Every check is answered, whatever is down or goes down, unless the       *)
(* process ends first.                                                      *)
HealthAnswered == pc = "launch" ~> pc = "answered" \/ process # "runs"
=============================================================================
