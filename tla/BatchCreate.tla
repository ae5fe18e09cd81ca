----------------------------- MODULE BatchCreate -----------------------------
(***************************************************************************)
(* BatchCreateUsers of internal/service/user_service.go: one BulkWrite,    *)
(* one Redis pipeline, and a goroutine per user that publishes its event,  *)
(* held back by a semaphore channel and joined by a WaitGroup.             *)
(*                                                                         *)
(* The users of a call are 1 .. size, and the number of a user stands for  *)
(* the _id MongoDB holds it under.  A user given without ID gets that _id  *)
(* from the driver, which does not write it back into the model.User.      *)
(***************************************************************************)
EXTENDS Naturals, FiniteSets

CONSTANTS
  MaxBatch,        \* bound: users of a call
  MaxConcurrent    \* maxConcurrentKafkaPublishes

ASSUME BatchAssumption ==
  /\ MaxBatch \in Nat
  /\ MaxConcurrent \in Nat \ {0}

VARIABLES
  pc,       \* control point of the caller
  size,     \* len(users)
  preset,   \* the users whose ID the caller has set
  next,     \* the user of the loop's next iteration
  res,      \* what the call returns
  sem, wg,  \* len(sem), the WaitGroup's counter
  worker,   \* control point of each publishing goroutine
  stored,   \* MongoDB: the users inserted
  wrote,    \* Redis: wrote[h], the user written last under "user:" h
  events    \* Kafka: the events published

stores == <<stored, wrote, events>>
call == <<size, preset>>
vars == <<pc, call, next, res, sem, wg, worker, stores>>

None == 0
ZeroID == 0
User == 1 .. MaxBatch
Batch == 1 .. size
Hex == User \cup {ZeroID}

\* user.ID.Hex(), after BatchCreate
IdOf(i) == IF i \in preset THEN i ELSE ZeroID

TypeOK ==
  /\ pc \in {"idle", "mongo", "cache", "loop", "acquire", "wait", "returned"}
  /\ size \in 0 .. MaxBatch
  /\ preset \in SUBSET User
  /\ next \in 1 .. MaxBatch + 1
  /\ res \in {"none", "ok", "error"}
  /\ sem \in Nat /\ wg \in Nat
  /\ worker \in [User -> {"none", "publish", "release", "finish", "done"}]
  /\ stored \in SUBSET User
  /\ wrote \in [Hex -> User \cup {None}]
  /\ events \in SUBSET [id : Hex, user : User]

Init ==
  /\ pc = "idle"
  /\ size = 0 /\ preset = {}
  /\ next = 1
  /\ res = "none"
  /\ sem = 0 /\ wg = 0
  /\ worker = [i \in User |-> "none"]
  /\ stored = {}
  /\ wrote = [h \in Hex |-> None]
  /\ events = {}

Goto(from, to) == pc = from /\ pc' = to

Finish(from, r) == Goto(from, "returned") /\ res' = r

\* A call with new users; what the stores hold of earlier ones is left out.
Call(n, P) ==
  /\ Goto("idle", IF n = 0 THEN "returned" ELSE "mongo")
  /\ size' = n /\ preset' = P
  /\ res' = IF n = 0 THEN "ok" ELSE "none"
  /\ next' = 1
  /\ worker' = [i \in User |-> "none"]
  /\ stored' = {}
  /\ wrote' = [h \in Hex |-> None]
  /\ events' = {}
  /\ UNCHANGED <<sem, wg>>

\* BulkWrite is ordered: it stops at the first insert that fails.  The
\* acknowledgement of a complete one may be lost.
ErrorIgnored == "cache"                      \* mutant: error only logged
OnError == "returned"

BulkWrite ==
  /\ \E n \in 0 .. size :
       /\ stored' = 1 .. n
       /\ \/ n = size /\ Goto("mongo", "cache") /\ UNCHANGED res
          \/ Goto("mongo", OnError) /\ res' = "error"
  /\ UNCHANGED <<call, next, sem, wg, worker, wrote, events>>

\* The pipeline: Redis takes the commands in order, as far as it gets, and
\* an error is logged.  Then the semaphore and the WaitGroup are made.
PipelineSet ==
  /\ pc = "cache" /\ next <= size
  /\ wrote' = [wrote EXCEPT ![IdOf(next)] = next]
  /\ next' = next + 1
  /\ UNCHANGED <<pc, call, res, sem, wg, worker, stored, events>>

PipelineEnds ==
  /\ Goto("cache", "loop")
  /\ next' = 1
  /\ sem' = 0 /\ wg' = 0
  /\ UNCHANGED <<call, res, worker, stores>>

\* The head of the loop, and wg.Add(1).
NotAdded == wg                               \* mutant: no wg.Add
Added == wg + 1

NextUser ==
  /\ next <= size
  /\ Goto("loop", "acquire")
  /\ wg' = Added
  /\ UNCHANGED <<call, next, res, sem, worker, stores>>

LoopEnds ==
  /\ next > size
  /\ Goto("loop", "wait")
  /\ UNCHANGED <<call, next, res, sem, wg, worker, stores>>

\* sem <- struct{}{}, and the go statement
SlotOverrun == sem <= MaxConcurrent          \* mutant: one slot too many
SlotFree == sem < MaxConcurrent

Acquire ==
  /\ SlotFree
  /\ Goto("acquire", "loop")
  /\ sem' = sem + 1
  /\ worker' = [worker EXCEPT ![next] = "publish"]
  /\ next' = next + 1
  /\ UNCHANGED <<call, res, wg, stores>>

\* wg.Wait()
NotAwaited == TRUE                           \* mutant: no wg.Wait
AllDone == wg = 0

Wait ==
  /\ AllDone
  /\ Finish("wait", "ok")
  /\ UNCHANGED <<call, next, sem, wg, worker, stores>>

Return ==
  /\ Goto("returned", "idle")
  /\ UNCHANGED <<call, next, res, sem, wg, worker, stores>>

-----------------------------------------------------------------------------
(* The publishing goroutine of user i.                                     *)
Step(i, from, to) ==
  /\ worker[i] = from
  /\ worker' = [worker EXCEPT ![i] = to]

\* PublishUserEvent answers: the broker has the event, or an error is logged.
Publish(i) ==
  /\ Step(i, "publish", "release")
  /\ events' \in {events, events \cup {[id |-> IdOf(i), user |-> i]}}
  /\ UNCHANGED <<pc, call, next, res, sem, wg, stored, wrote>>

\* PublishUserEvent panics: the deferred function recovers and goes on.
SlotLost == "none"                           \* mutant: slot not freed by defer
AfterPanic == "release"

Panic(i) ==
  /\ Step(i, "publish", AfterPanic)
  /\ UNCHANGED <<pc, call, next, res, sem, wg, stores>>

\* <-sem
Release(i) ==
  /\ Step(i, "release", "finish")
  /\ sem' = sem - 1
  /\ UNCHANGED <<pc, call, next, res, wg, stores>>

\* wg.Done()
Done(i) ==
  /\ Step(i, "finish", "done")
  /\ wg' = wg - 1
  /\ UNCHANGED <<pc, call, next, res, sem, stores>>

Worker(i) == Publish(i) \/ Panic(i) \/ Release(i) \/ Done(i)

Caller ==
  \/ BulkWrite
  \/ PipelineSet
  \/ PipelineEnds
  \/ NextUser
  \/ LoopEnds
  \/ Acquire
  \/ Wait
  \/ Return

Next ==
  \/ \E n \in 0 .. MaxBatch : \E P \in SUBSET (1 .. n) : Call(n, P)
  \/ Caller
  \/ \E i \in User : Worker(i)

Safety == Init /\ [][Next]_vars

(* The goroutines are scheduled; the MongoDB driver, go-redis and sarama    *)
(* give up by themselves, so every command is answered.                     *)
Spec ==
  /\ Safety
  /\ WF_vars(Caller)
  /\ \A i \in User : WF_vars(Worker(i))

-----------------------------------------------------------------------------
Busy == {i \in User : worker[i] \in {"publish", "release"}}
Alive == {i \in User : worker[i] \in {"publish", "release", "finish"}}

(* user_service.go:201: no more than maxConcurrentKafkaPublishes goroutines *)
(* are in PublishUserEvent, whatever fails or panics.                       *)
Publishing == {i \in User : worker[i] = "publish"}

BoundedPublishers == Cardinality(Publishing) <= MaxConcurrent

(* A call that returns nil has tried to publish the event of each of its    *)
(* users, and leaves no goroutine behind (wg.Wait).                         *)
SettledOnReturn ==
  pc = "returned" /\ res = "ok" => \A i \in Batch : worker[i] = "done"

(* MongoDB comes first: what Redis and Kafka learn of a batch is about      *)
(* users MongoDB holds, though some inserts of a batch may have failed.     *)
AnnouncedAreStored ==
  /\ \A e \in events : e.user \in stored
  /\ \A h \in Hex : wrote[h] # None => wrote[h] \in stored

(* Every call returns: a panic or an error of one publication never keeps   *)
(* its slot of the semaphore or its count of the WaitGroup.                 *)
Terminates == pc # "idle" ~> pc = "idle"
=============================================================================
