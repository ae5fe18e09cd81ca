-------------------------- MODULE BatchCreateProofs --------------------------
(***************************************************************************)
(* Proofs about BatchCreate, for any size of a batch and of the semaphore. *)
(* The counters are what they should count: sem the slots in use, wg the   *)
(* goroutines alive and the one about to start.                            *)
(***************************************************************************)
EXTENDS BatchCreate, FiniteSetTheorems, TLAPS

USE BatchAssumption DEF BatchAssumption

(* Every set of users is finite.                                            *)
LEMMA FiniteUsers ==
  ASSUME NEW S \in SUBSET User
  PROVE  IsFiniteSet(S) /\ Cardinality(S) \in Nat
<1>1. IsFiniteSet(User)
  BY FS_Interval DEF User
<1> QED BY <1>1, FS_Subset, FS_CardinalityType

(* A user enters a set of users, or leaves it.                              *)
LEMMA CountUp ==
  ASSUME NEW S \in SUBSET User, NEW i \in User, i \notin S
  PROVE  Cardinality(S \cup {i}) = Cardinality(S) + 1
BY FiniteUsers, FS_AddElement

LEMMA CountDown ==
  ASSUME NEW S \in SUBSET User, NEW i \in S
  PROVE  Cardinality(S \ {i}) = Cardinality(S) - 1
BY FiniteUsers, FS_RemoveElement

-----------------------------------------------------------------------------
\* Goroutines are started by the loop, in the order of the users.
Running == {"loop", "acquire", "wait"}

StartedInOrder ==
  /\ pc \notin Running => Alive = {}
  /\ pc \in {"mongo", "cache"} => \A i \in User : worker[i] = "none"
  /\ pc \in Running => \A i \in User : worker[i] = "none" <=> i >= next
  /\ next <= size + 1
  /\ pc = "acquire" => next <= size
  /\ pc = "wait" => next > size

Counters ==
  pc \in Running =>
    /\ sem = Cardinality(Busy)
    /\ sem <= MaxConcurrent
    /\ wg = Cardinality(Alive) + (IF pc = "acquire" THEN 1 ELSE 0)

StoredFirst ==
  /\ pc \in Running \cup {"cache"} => stored = Batch
  /\ pc = "mongo" => events = {} /\ wrote = [h \in Hex |-> None]

IInv ==
  /\ TypeOK
  /\ StartedInOrder
  /\ Counters
  /\ StoredFirst
  /\ AnnouncedAreStored
  /\ SettledOnReturn

(* The finite sets the counters are compared with.                          *)
LEMMA CountsAreNat ==
  /\ IsFiniteSet(Busy) /\ Cardinality(Busy) \in Nat
  /\ IsFiniteSet(Alive) /\ Cardinality(Alive) \in Nat
<1>1. Busy \in SUBSET User /\ Alive \in SUBSET User
  BY DEF Busy, Alive
<1> QED BY <1>1, FiniteUsers

(* A goroutine starts: the first of four steps that change the two sets.    *)
LEMMA SlotTaken ==
  ASSUME TypeOK, NEW i \in User, worker[i] = "none",
         worker' = [worker EXCEPT ![i] = "publish"]
  PROVE  /\ Cardinality(Busy') = Cardinality(Busy) + 1
         /\ Cardinality(Alive') = Cardinality(Alive) + 1
<1>1. /\ Busy' = Busy \cup {i} /\ i \notin Busy
      /\ Alive' = Alive \cup {i} /\ i \notin Alive
  BY DEF TypeOK, Busy, Alive
<1>2. Busy \in SUBSET User /\ Alive \in SUBSET User
  BY DEF Busy, Alive
<1> QED BY <1>1, <1>2, CountUp

(* It has published.                                                        *)
LEMMA SlotKept ==
  ASSUME TypeOK, NEW i \in User, Step(i, "publish", "release")
  PROVE  Busy' = Busy /\ Alive' = Alive
BY DEF TypeOK, Step, Busy, Alive

(* It frees its slot.                                                       *)
LEMMA SlotFreed ==
  ASSUME TypeOK, NEW i \in User, Step(i, "release", "finish")
  PROVE  /\ Cardinality(Busy') = Cardinality(Busy) - 1
         /\ Alive' = Alive
<1>1. Busy' = Busy \ {i} /\ i \in Busy /\ Alive' = Alive
  BY DEF TypeOK, Step, Busy, Alive
<1>2. Busy \in SUBSET User
  BY DEF Busy
<1> QED BY <1>1, <1>2, CountDown

(* It has called wg.Done.                                                   *)
LEMMA WorkerLeaves ==
  ASSUME TypeOK, NEW i \in User, Step(i, "finish", "done")
  PROVE  /\ Busy' = Busy
         /\ Cardinality(Alive') = Cardinality(Alive) - 1
<1>1. Alive' = Alive \ {i} /\ i \in Alive /\ Busy' = Busy
  BY DEF TypeOK, Step, Busy, Alive
<1>2. Alive \in SUBSET User
  BY DEF Alive
<1> QED BY <1>1, <1>2, CountDown

(* A goroutine at work has its call in the loop or behind it, and its user  *)
(* in the batch.                                                            *)
LEMMA WorkerRuns ==
  ASSUME IInv, NEW i \in User, worker[i] \notin {"none", "done"}
  PROVE  /\ pc \in Running /\ i < next /\ i \in Batch
         /\ i \in Alive /\ 1 <= Cardinality(Alive)
         /\ worker[i] # "finish" => 1 <= Cardinality(Busy)
<1> USE DEF IInv, TypeOK, StartedInOrder
<1>1. i \in Alive /\ (worker[i] # "finish" => i \in Busy)
  BY DEF Alive, Busy
<1>2. pc \in Running
  BY <1>1
<1>3. i < next
  BY <1>2 DEF User
<1>4. i \in Batch
  BY <1>3 DEF User, Batch
<1>5. \A S : IsFiniteSet(S) /\ i \in S => Cardinality(S) # 0
  BY FS_EmptySet
<1>6. /\ 1 <= Cardinality(Alive)
      /\ worker[i] # "finish" => 1 <= Cardinality(Busy)
  BY <1>1, <1>5, CountsAreNat
<1> QED BY <1>1, <1>2, <1>3, <1>4, <1>6

(* Every step keeps the invariant.                                         *)
LEMMA Inductive ==
  ASSUME IInv, [Next]_vars
  PROVE  IInv'
<1> USE DEF IInv, TypeOK, Goto, Finish, None
<1>0. /\ size \in Nat /\ next \in Nat /\ MaxBatch \in Nat
      /\ \A i \in Batch : i \in User /\ i \in Hex /\ i <= size
      /\ 1 <= next
  BY DEF Batch, User, Hex
<1>1. ASSUME NEW n \in 0 .. MaxBatch, NEW P \in SUBSET (1 .. n), Call(n, P)
      PROVE  IInv'
  <2>1. TypeOK'
    BY <1>1 DEF Call, User
  <2>2. StartedInOrder' /\ Counters'
    BY <1>1 DEF Call, StartedInOrder, Counters, Alive, Running
  <2>3. StoredFirst' /\ AnnouncedAreStored'
    BY <1>1 DEF Call, StoredFirst, AnnouncedAreStored, Running, Hex
  <2>4. SettledOnReturn'
    BY <1>1 DEF Call, SettledOnReturn, Batch
  <2> QED BY <2>1, <2>2, <2>3, <2>4
<1>2. CASE BulkWrite
  <2>1. TypeOK'
    BY <1>0, <1>2 DEF BulkWrite, OnError, stores, call, User
  <2>2. StartedInOrder' /\ Counters' /\ SettledOnReturn'
    BY <1>2 DEF BulkWrite, OnError, call, StartedInOrder, Counters, Alive,
                Running, SettledOnReturn
  <2>3. StoredFirst' /\ AnnouncedAreStored'
    BY <1>2 DEF BulkWrite, OnError, call, StoredFirst, AnnouncedAreStored,
                Running, Batch
  <2> QED BY <2>1, <2>2, <2>3
<1>3. CASE PipelineSet
  <2>1. next \in Batch /\ IdOf(next) \in Hex
    BY <1>0, <1>3 DEF PipelineSet, Batch, IdOf, Hex, User
  <2>2. TypeOK'
    BY <1>0, <1>3, <2>1 DEF PipelineSet, call, User
  <2>3. StartedInOrder' /\ Counters' /\ SettledOnReturn'
    BY <1>0, <1>3 DEF PipelineSet, call, StartedInOrder, Counters, Alive,
                      Running, SettledOnReturn
  <2>4. StoredFirst' /\ AnnouncedAreStored'
    BY <1>3, <2>1 DEF PipelineSet, call, StoredFirst, AnnouncedAreStored,
                      Running, Batch
  <2> QED BY <2>2, <2>3, <2>4
<1>4. CASE PipelineEnds
  <2>1. TypeOK'
    BY <1>0, <1>4 DEF PipelineEnds, call, stores
  <2>2. Alive = {} /\ Busy = {} /\ \A i \in User : worker[i] = "none"
    BY <1>4 DEF PipelineEnds, StartedInOrder, Running, Alive, Busy
  <2>3. StartedInOrder'
    BY <1>0, <1>4, <2>2
       DEF PipelineEnds, call, stores, StartedInOrder, Running, Alive, User
  <2>4. Counters'
    BY <1>4, <2>2, FS_EmptySet
       DEF PipelineEnds, Counters, Running, Alive, Busy
  <2>5. StoredFirst' /\ AnnouncedAreStored' /\ SettledOnReturn'
    BY <1>4 DEF PipelineEnds, call, stores, StoredFirst, AnnouncedAreStored,
                SettledOnReturn, Running, Batch
  <2> QED BY <2>1, <2>3, <2>4, <2>5
<1>5. CASE NextUser
  <2>1. TypeOK'
    BY <1>0, <1>5 DEF NextUser, Added, call, stores
  <2>2. StartedInOrder'
    BY <1>5 DEF NextUser, call, StartedInOrder, Running, Alive
  <2>3. Counters'
    BY <1>5, CountsAreNat DEF NextUser, Added, Counters, Running, Alive, Busy
  <2>4. StoredFirst' /\ AnnouncedAreStored' /\ SettledOnReturn'
    BY <1>5 DEF NextUser, call, stores, StoredFirst, AnnouncedAreStored,
                SettledOnReturn, Running, Batch
  <2> QED BY <2>1, <2>2, <2>3, <2>4
<1>6. CASE LoopEnds
  <2>1. TypeOK'
    BY <1>6 DEF LoopEnds, call, stores
  <2>2. StartedInOrder'
    BY <1>6 DEF LoopEnds, call, StartedInOrder, Running, Alive
  <2>3. Counters'
    BY <1>6, CountsAreNat DEF LoopEnds, Counters, Running, Alive, Busy
  <2>4. StoredFirst' /\ AnnouncedAreStored' /\ SettledOnReturn'
    BY <1>6 DEF LoopEnds, call, stores, StoredFirst, AnnouncedAreStored,
                SettledOnReturn, Running, Batch
  <2> QED BY <2>1, <2>2, <2>3, <2>4
<1>7. CASE Acquire
  <2>1. next \in User /\ worker[next] = "none"
    BY <1>0, <1>7 DEF Acquire, StartedInOrder, Running, User
  <2>2. TypeOK'
    BY <1>0, <1>7, <2>1 DEF Acquire, call, stores, User
  <2>3. StartedInOrder'
    BY <1>0, <1>7, <2>1 DEF Acquire, call, StartedInOrder, Running, User
  <2>4. Counters'
    <3>1. /\ Cardinality(Busy') = Cardinality(Busy) + 1
          /\ Cardinality(Alive') = Cardinality(Alive) + 1
      BY <1>7, <2>1, SlotTaken DEF Acquire
    <3> QED BY <1>7, <3>1, CountsAreNat
            DEF Acquire, SlotFree, Counters, Running
  <2>5. StoredFirst' /\ AnnouncedAreStored' /\ SettledOnReturn'
    BY <1>7 DEF Acquire, call, stores, StoredFirst, AnnouncedAreStored,
                SettledOnReturn, Running, Batch
  <2> QED BY <2>2, <2>3, <2>4, <2>5
<1>8. CASE Wait
  <2>1. TypeOK'
    BY <1>8 DEF Wait, call, stores
  <2>2. Alive = {}
    BY <1>8, CountsAreNat, FS_EmptySet DEF Wait, AllDone, Counters, Running
  <2>3. StartedInOrder' /\ Counters'
    BY <1>8, <2>2
       DEF Wait, call, stores, StartedInOrder, Counters, Running, Alive
  <2>4. SettledOnReturn'
    <3>1. \A i \in Batch : worker[i] # "none"
      BY <1>0, <1>8 DEF Wait, StartedInOrder, Running, Batch
    <3>2. \A i \in Batch : worker[i] = "done"
      BY <1>0, <2>2, <3>1 DEF Alive
    <3> QED BY <1>8, <3>2 DEF Wait, call, SettledOnReturn, Batch
  <2>5. StoredFirst' /\ AnnouncedAreStored'
    BY <1>8 DEF Wait, call, stores, StoredFirst, AnnouncedAreStored, Running,
                Batch
  <2> QED BY <2>1, <2>3, <2>4, <2>5
<1>9. CASE Return
  BY <1>9 DEF Return, call, stores, StartedInOrder, Counters, Running, Alive,
              Busy, StoredFirst, AnnouncedAreStored, SettledOnReturn, Batch
<1>10. ASSUME NEW i \in User, Worker(i)
       PROVE  /\ UNCHANGED <<pc, call, next, res, stored, wrote>>
              /\ worker' \in [User -> {"none", "publish", "release", "finish",
                                       "done"}]
              /\ \A j \in User : worker'[j] = "none" <=> worker[j] = "none"
              /\ worker[i] \notin {"none", "done"}
              /\ events' \in {events,
                              events \cup {[id |-> IdOf(i), user |-> i]}}
  BY <1>10 DEF Worker, Publish, Panic, Release, Done, Step, AfterPanic, call,
               stores
<1>11. ASSUME NEW i \in User, Worker(i)
       PROVE  IInv'
  <2>1. /\ pc \in Running /\ i < next /\ i \in Batch
        /\ 1 <= Cardinality(Alive)
        /\ worker[i] # "finish" => 1 <= Cardinality(Busy)
    BY <1>10, <1>11, WorkerRuns
  <2>2. /\ \/ sem' = sem /\ Cardinality(Busy') = Cardinality(Busy)
           \/ /\ sem' = sem - 1 /\ Cardinality(Busy') = Cardinality(Busy) - 1
              /\ 1 <= Cardinality(Busy)
        /\ \/ wg' = wg /\ Cardinality(Alive') = Cardinality(Alive)
           \/ wg' = wg - 1 /\ Cardinality(Alive') = Cardinality(Alive) - 1
    <3>1. CASE Publish(i) \/ Panic(i)
      BY <3>1, SlotKept DEF Publish, Panic, AfterPanic
    <3>2. CASE Release(i)
      BY <2>1, <3>2, SlotFreed DEF Release, Step
    <3>3. CASE Done(i)
      BY <3>3, WorkerLeaves DEF Done
    <3> QED BY <1>11, <3>1, <3>2, <3>3 DEF Worker
  <2>3. pc' = pc
    BY <1>10, <1>11
  <2>4. Counters' /\ sem' \in Nat /\ wg' \in Nat
    BY <2>1, <2>2, <2>3, CountsAreNat DEF Counters, Running
  <2>5. IdOf(i) \in Hex
    BY DEF IdOf, Hex
  <2>6. TypeOK'
    BY <1>10, <1>11, <2>4, <2>5 DEF call
  <2>7. StartedInOrder'
    BY <1>10, <1>11, <2>1 DEF call, StartedInOrder, Running
  <2>8. StoredFirst' /\ AnnouncedAreStored'
    <3>1. i \in stored
      BY <2>1 DEF StoredFirst
    <3> QED BY <1>10, <1>11, <2>1, <3>1
            DEF call, StoredFirst, AnnouncedAreStored, Running, Batch
  <2>9. SettledOnReturn'
    BY <1>10, <1>11, <2>1 DEF SettledOnReturn, Running
  <2> QED BY <2>4, <2>6, <2>7, <2>8, <2>9
<1>12. CASE UNCHANGED vars
  BY <1>12 DEF vars, call, stores, StartedInOrder, Counters, Running, Alive,
               Busy, StoredFirst, AnnouncedAreStored, SettledOnReturn, Batch
<1> QED BY <1>1, <1>2, <1>3, <1>4, <1>5, <1>6, <1>7, <1>8, <1>9, <1>11, <1>12
        DEF Next, Caller

(* The invariant of the call.                                               *)
LEMMA Invariant == Safety => []IInv
<1>1. Init => IInv
  BY DEF Init, IInv, TypeOK, StartedInOrder, Running, Alive, Counters,
         StoredFirst, AnnouncedAreStored, SettledOnReturn, User, Hex, None
<1> QED BY <1>1, Inductive, PTL DEF Safety

(* A batch call keeps its state well typed; its counters never go below     *)
(* zero.                                                                    *)
THEOREM TypeCorrect == Safety => []TypeOK
<1>1. IInv => TypeOK
  BY DEF IInv
<1> QED BY <1>1, Invariant, PTL

(* However large the batch, maxConcurrentKafkaPublishes goroutines publish  *)
(* at a time at most.                                                       *)
THEOREM Bounded == Safety => []BoundedPublishers
<1>1. IInv => BoundedPublishers
  <2> SUFFICES ASSUME IInv PROVE BoundedPublishers
    OBVIOUS
  <2>1. Publishing \in SUBSET Busy
    BY DEF Publishing, Busy
  <2>2. Cardinality(Publishing) <= Cardinality(Busy)
    BY <2>1, CountsAreNat, FS_Subset
  <2>3. CASE pc \in Running
    <3>1. Publishing \in SUBSET User
      BY DEF Publishing
    <3>2. Cardinality(Publishing) \in Nat
      BY <3>1, FiniteUsers
    <3> QED BY <2>2, <2>3, <3>2, CountsAreNat
            DEF IInv, Counters, BoundedPublishers
  <2>4. CASE pc \notin Running
    <3>1. Publishing = {}
      BY <2>4 DEF IInv, StartedInOrder, Publishing, Alive
    <3> QED BY <3>1, FS_EmptySet DEF BoundedPublishers
  <2> QED BY <2>3, <2>4
<1> QED BY <1>1, Invariant, PTL

(* A call that returns nil has tried to publish for each of its users and   *)
(* leaves no goroutine behind.                                              *)
THEOREM Settled == Safety => []SettledOnReturn
<1>1. IInv => SettledOnReturn
  BY DEF IInv
<1> QED BY <1>1, Invariant, PTL

(* Nothing is announced of a user MongoDB does not hold.                    *)
THEOREM Stored == Safety => []AnnouncedAreStored
<1>1. IInv => AnnouncedAreStored
  BY DEF IInv
<1> QED BY <1>1, Invariant, PTL
=============================================================================
