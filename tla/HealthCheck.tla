----------------------------- MODULE HealthCheck -----------------------------
(***************************************************************************)
(* The HealthCheck RPC of cmd/server/main.go: a goroutine per connected    *)
(* component pings it and sends what it finds on a buffered channel; the   *)
(* handler itself sends the result of a component it has no client for,    *)
(* then receives three results, in the order they come, and answers.       *)
(*                                                                         *)
(* Components go down and come back while the check runs.                  *)
(***************************************************************************)
EXTENDS Naturals, Sequences

VARIABLES
  client,   \* components main has a client for
  up,       \* components that answer
  pc,       \* control point of the handler
  next,     \* the component checked next
  probe,    \* control point of each component's goroutine
  results,  \* the channel
  left,     \* results the handler has still to receive
  status,   \* mongoStatus, redisStatus, kafkaStatus: available?
  overall,  \* resp.Status
  ctxDone,  \* the request's context is done
  seenUp,   \* history: components that were up at some time of the check
  seenDown  \* history: ... that were out of reach at some time of it

answer == <<status, overall>>
history == <<seenUp, seenDown>>
vars == <<client, up, pc, next, probe, results, left, answer, ctxDone, history>>

Component == {"mongodb", "redis", "kafka"}
Order == <<"mongodb", "redis", "kafka">>
Pinged == {"mongodb", "redis"}
Result == [name : Component, available : BOOLEAN]

TypeOK ==
  /\ client \in SUBSET Component /\ up \in SUBSET Component
  /\ pc \in {"idle", "launch", "collect", "answered"}
  /\ next \in 1 .. 4
  /\ probe \in [Component -> {"none", "ping", "up", "down"}]
  /\ results \in Seq(Result) /\ Len(results) <= 3
  /\ left \in 0 .. 3
  /\ status \in [Component -> BOOLEAN]
  /\ overall \in {"UNKNOWN", "SERVING", "DEGRADED", "NOT_SERVING"}
  /\ ctxDone \in BOOLEAN
  /\ seenUp \in SUBSET Component /\ seenDown \in SUBSET Component

Init ==
  /\ client \in SUBSET Component /\ up \in SUBSET Component
  /\ pc = "idle" /\ next = 1
  /\ probe = [c \in Component |-> "none"]
  /\ results = <<>> /\ left = 0
  /\ status = [c \in Component |-> FALSE] /\ overall = "UNKNOWN"
  /\ ctxDone = FALSE
  /\ seenUp = {} /\ seenDown = {}

OneMore == 4                                 \* mutant: i <= 3
Expected == 3

Begin ==
  /\ pc = "idle" /\ pc' = "launch"
  /\ left' = Expected
  /\ seenUp' = up /\ seenDown' = Component \ up
  /\ UNCHANGED <<client, up, next, probe, results, answer, ctxDone>>

\* A send on the channel.
TooSmall == 1                                \* mutant: capacity
Capacity == 3

SendResult(c, ok) ==
  /\ Len(results) < Capacity
  /\ results' = Append(results, [name |-> c, available |-> ok])

\* One of the three `if client != nil' statements.
Launch ==
  /\ pc = "launch"
  /\ next' = next + 1
  /\ pc' = IF next = 3 THEN "collect" ELSE pc
  /\ LET c == Order[next] IN
       \/ /\ c \in client
          /\ probe' = [probe EXCEPT ![c] = "ping"]
          /\ UNCHANGED results
       \/ /\ c \notin client
          /\ SendResult(c, FALSE)
          /\ UNCHANGED probe
  /\ UNCHANGED <<client, up, left, answer, ctxDone, history>>

\* The goroutine of component c: HealthCheck of its client.
Probe(c, available) ==
  /\ probe[c] = "ping"
  /\ \E ok \in available :
       probe' = [probe EXCEPT ![c] = IF ok THEN "up" ELSE "down"]
  /\ UNCHANGED <<client, up, pc, next, results, left, answer, ctxDone, history>>

\* It pings: the component answers, or does not; or the context is done.
Ping(c) == Probe(c, {ok \in BOOLEAN : IF ok THEN c \in up ELSE c \notin up \/ ctxDone})

PingMongo == Ping("mongodb")
PingRedis == Ping("redis")

\* The producer's HealthCheck asks nobody.
CheckProducer == Probe("kafka", {TRUE})

Report(c) ==
  /\ probe[c] \in {"up", "down"}
  /\ SendResult(c, probe[c] = "up")
  /\ probe' = [probe EXCEPT ![c] = "none"]
  /\ UNCHANGED <<client, up, pc, next, left, answer, ctxDone, history>>

\* result := <-results; switch result.name
InOrder(r) == Order[4 - left]                \* mutant: by order of arrival
NameOf(r) == r.name

Collect ==
  /\ pc = "collect" /\ left > 0 /\ results # <<>>
  /\ status' = [status EXCEPT ![NameOf(Head(results))] = Head(results).available]
  /\ results' = Tail(results)
  /\ left' = left - 1
  /\ UNCHANGED <<client, up, pc, next, probe, overall, ctxDone, history>>

EnoughReceived == left <= 1                  \* mutant: one result too few
AllReceived == left = 0

Answer ==
  /\ pc = "collect" /\ AllReceived
  /\ pc' = "answered"
  /\ overall' = IF \A c \in Component : status[c] THEN "SERVING"
                ELSE IF \E c \in Component : status[c] THEN "DEGRADED"
                ELSE "NOT_SERVING"
  /\ UNCHANGED <<client, up, next, probe, results, left, status, ctxDone,
                 history>>

Return ==
  /\ pc = "answered" /\ pc' = "idle"
  /\ next' = 1 /\ status' = [c \in Component |-> FALSE] /\ overall' = "UNKNOWN"
  /\ ctxDone' = FALSE
  /\ seenUp' = {} /\ seenDown' = {}
  /\ UNCHANGED <<client, up, probe, results, left>>

\* The client goes away, or its deadline passes.
Cancel ==
  /\ pc # "idle" /\ ~ctxDone
  /\ ctxDone' = TRUE
  /\ UNCHANGED <<client, up, pc, next, probe, results, left, answer, history>>

Fail(c) ==
  /\ c \in up
  /\ up' = up \ {c}
  /\ seenDown' = IF pc = "idle" THEN {} ELSE seenDown \cup {c}
  /\ UNCHANGED <<client, pc, next, probe, results, left, answer, ctxDone,
                 seenUp>>

Recover(c) ==
  /\ c \notin up
  /\ up' = up \cup {c}
  /\ seenUp' = IF pc = "idle" THEN {} ELSE seenUp \cup {c}
  /\ UNCHANGED <<client, pc, next, probe, results, left, answer, ctxDone,
                 seenDown>>

Handler == Launch \/ Collect \/ Answer \/ Return
Check(c) ==
  \/ c = "mongodb" /\ PingMongo
  \/ c = "redis" /\ PingRedis
  \/ c = "kafka" /\ CheckProducer
Prober(c) == Check(c) \/ Report(c)

Next ==
  \/ Begin
  \/ Handler
  \/ Cancel
  \/ \E c \in Component : Prober(c) \/ Fail(c) \/ Recover(c)

(* The goroutines are scheduled; a ping ends by itself, for both drivers    *)
(* have timeouts of their own.                                              *)
Spec ==
  /\ Init /\ [][Next]_vars
  /\ WF_vars(Handler)
  /\ \A c \in Component : WF_vars(Prober(c))

-----------------------------------------------------------------------------
(* What the answer says of MongoDB and Redis (lines 190 to 214) was so at   *)
(* some time of the check, whatever the order of the results: available was *)
(* up, unavailable was down or has no client, unless the caller left.       *)
Truthful ==
  pc = "answered" =>
    /\ \A c \in Pinged :
         IF status[c] THEN c \in client \cap seenUp
         ELSE c \in seenDown \/ c \notin client \/ ctxDone
    /\ overall = "SERVING" => Component \subseteq client /\ Pinged \subseteq seenUp
    /\ overall = "NOT_SERVING" => "kafka" \notin client
=============================================================================
