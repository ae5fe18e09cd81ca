------------------------ MODULE UserServiceRefinement ------------------------
(***************************************************************************)
(* UserService implements UserStore, and events follow the order of calls: *)
(* both rest on the invariant of UserServiceProofs and on what follows.    *)
(***************************************************************************)
EXTENDS UserServiceProofs

USE CallsAssumption, ServiceAssumption
    DEF CallsAssumption, ServiceAssumption, store, entries

\* Commit numbers are spent once: a call past its commit has one of its own,
\* which is not among those returned.
OwnCommit ==
  \A t \in Thread :
    /\ pc[t] \in {"cache", "publish"} => ver[t] # None
    /\ ver[t] # None => /\ ver[t] <= commits
                        /\ ver[t] \notin returned
                        /\ \A u \in Thread \ {t} : ver[u] # ver[t]

\* What a call found returned when it began has returned.
Began ==
  /\ \A n \in returned : n <= commits
  /\ \A t \in Thread : before[t] \subseteq returned
  /\ \A k \in Key : \A n \in DOMAIN topic[k] :
       topic[k][n].before \subseteq returned

OrderInv == IInv /\ OwnCommit /\ Began /\ EventsInCallOrder

(* OwnCommit and Began hold as long as no commit number is spent, returned  *)
(* or published.                                                            *)
LEMMA NumbersFrame ==
  ASSUME OrderInv, TypeOK',
         UNCHANGED <<commits, ver, returned, topic>>,
         \A t \in Thread : before'[t] \in {before[t], returned, {}},
         \A t \in Thread : pc'[t] \in {"cache", "publish"} =>
                             pc[t] \in {"cache", "publish"}
  PROVE  OwnCommit' /\ Began' /\ EventsInCallOrder'
<1>1. OwnCommit'
  BY DEF OrderInv, OwnCommit
<1>2. Began'
  BY DEF OrderInv, Began
<1>3. EventsInCallOrder'
  BY DEF OrderInv, EventsInCallOrder
<1> QED BY <1>1, <1>2, <1>3

(* A commit takes the next number, which a call that knows of it keeps.     *)
LEMMA NumbersCommit ==
  ASSUME OrderInv, TypeOK', NEW t \in Thread, NEW r, Commit(r),
         ver' = [ver EXCEPT ![t] = commits'],
         UNCHANGED <<returned, topic, before>>,
         \A u \in Thread \ {t} : pc'[u] = pc[u]
  PROVE  OwnCommit' /\ Began' /\ EventsInCallOrder'
<1> USE DEF OrderInv, IInv, TypeOK, StoreType, CallType, EventType
<1>1. /\ commits' = commits + 1 /\ commits \in Nat
      /\ ver' = [ver EXCEPT ![t] = commits']
  BY DEF Commit
<1>2. \A u \in Thread : ver[u] \in Nat /\ (ver[u] # None => ver[u] <= commits)
  BY DEF OwnCommit
<1>3. OwnCommit'
  <2>1. \A u \in Thread : ver[u] <= commits
    BY <1>1, <1>2 DEF None
  <2>2. commits' \notin returned
    BY <1>1 DEF Began
  <2> QED BY <1>1, <1>2, <2>1, <2>2 DEF OwnCommit, None
<1>4. Began'
  BY <1>1 DEF Began
<1>5. EventsInCallOrder'
  BY DEF EventsInCallOrder
<1> QED BY <1>3, <1>4, <1>5

(* A commit that no call knows of.                                          *)
LEMMA NumbersLate ==
  ASSUME OrderInv, TypeOK', commits' \in {commits, commits + 1},
         UNCHANGED <<pc, ver, returned, topic, before>>
  PROVE  OwnCommit' /\ Began' /\ EventsInCallOrder'
<1> USE DEF OrderInv, IInv, TypeOK, StoreType, CallType, EventType
<1>1. OwnCommit'
  BY DEF OwnCommit
<1>2. Began'
  BY DEF Began
<1>3. EventsInCallOrder'
  BY DEF EventsInCallOrder
<1> QED BY <1>1, <1>2, <1>3

(* Events are enqueued before the call they belong to returns.              *)
LEMMA NumbersPublish ==
  ASSUME OrderInv, TypeOK', NEW t \in Thread, Publish(t)
  PROVE  OwnCommit' /\ Began' /\ EventsInCallOrder'
<1> USE DEF OrderInv, IInv, TypeOK, CallType, EventType
<1> DEFINE e == [ver |-> ver[t], before |-> before[t]]
           key == req[t].key
<1>1. /\ pc[t] = "publish" /\ key \in Key
      /\ UNCHANGED <<commits, ver, returned, before>>
      /\ pc' = [pc EXCEPT ![t] = "done"]
      /\ \/ topic' = [topic EXCEPT ![key] = Append(topic[key], e)]
         \/ topic' = topic
  BY RequestKey DEF Publish, Finish, Goto, Enqueue, mongo, store
<1>2. CASE topic' = topic
  BY <1>1, <1>2, NumbersFrame
<1>3. CASE topic' = [topic EXCEPT ![key] = Append(topic[key], e)]
  <2>1. OwnCommit'
    BY <1>1 DEF OwnCommit
  <2>2. ASSUME NEW k \in Key
        PROVE  /\ DOMAIN topic[k] = 1 .. Len(topic[k]) /\ Len(topic[k]) \in Nat
               /\ \A n \in DOMAIN topic'[k] :
                    \/ n \in DOMAIN topic[k] /\ topic'[k][n] = topic[k][n]
                    \/ n = Len(topic[k]) + 1 /\ topic'[k][n] = e
    <3> DEFINE S == [ver : Nat, before : SUBSET Nat]
    <3>1. e \in S /\ topic \in [Key -> Seq(S)]
      OBVIOUS
    <3>2. topic'[k] \in {topic[k], Append(topic[k], e)}
      BY <1>1, <1>3, <3>1
    <3>3. topic[k] \in Seq(S)
      BY <3>1
    <3>4. DOMAIN topic[k] = 1 .. Len(topic[k]) /\ Len(topic[k]) \in Nat
      BY <3>3
    <3> HIDE DEF S, e, key
    <3>5. CASE topic'[k] = topic[k]
      BY <3>4, <3>5
    <3>6. CASE topic'[k] = Append(topic[k], e)
      BY <3>1, <3>3, <3>4, <3>6
    <3> QED BY <3>2, <3>4, <3>5, <3>6
  <2>3. Began'
    <3>1. e.before \subseteq returned
      BY DEF Began
    <3>2. /\ \A n \in returned' : n <= commits'
          /\ \A u \in Thread : before'[u] \subseteq returned'
      BY <1>1 DEF Began
    <3>3. ASSUME NEW k \in Key, NEW n \in DOMAIN topic'[k]
          PROVE  topic'[k][n].before \subseteq returned'
      BY <1>1, <2>2, <3>1 DEF Began
    <3> QED BY <3>2, <3>3 DEF Began
  <2>4. EventsInCallOrder'
    <3> SUFFICES ASSUME NEW k \in Key,
                        NEW m \in DOMAIN topic'[k], NEW n \in DOMAIN topic'[k],
                        m < n
                 PROVE  topic'[k][n].ver \notin topic'[k][m].before
      BY DEF EventsInCallOrder
    <3>1. \A i \in DOMAIN topic[k] : e.ver \notin topic[k][i].before
      BY <1>1 DEF OwnCommit, Began
    <3>2. \A i, j \in DOMAIN topic[k] :
            i < j => topic[k][j].ver \notin topic[k][i].before
      BY DEF EventsInCallOrder
    <3>3. m \in DOMAIN topic[k] /\ topic'[k][m] = topic[k][m]
      <4>1. n \in 1 .. Len(topic[k]) \/ n = Len(topic[k]) + 1
        BY <2>2
      <4>2. m # Len(topic[k]) + 1
        BY <2>2, <4>1
      <4> QED BY <2>2, <4>2
    <3>4. CASE n \in DOMAIN topic[k] /\ topic'[k][n] = topic[k][n]
      BY <3>2, <3>3, <3>4
    <3>5. CASE topic'[k][n] = e
      BY <3>1, <3>3, <3>5
    <3> QED BY <2>2, <3>4, <3>5
  <2> QED BY <2>1, <2>3, <2>4
<1> QED BY <1>1, <1>2, <1>3

(* The number of a call that returns success is spent.                      *)
LEMMA NumbersReturn ==
  ASSUME OrderInv, TypeOK', NEW t \in Thread, Return(t)
  PROVE  OwnCommit' /\ Began' /\ EventsInCallOrder'
<1> USE DEF OrderInv, IInv, TypeOK, StoreType, CallType, EventType
<1>1. /\ UNCHANGED <<commits, topic>>
      /\ pc' = [pc EXCEPT ![t] = "idle"]
      /\ ver' = [ver EXCEPT ![t] = None]
      /\ before' = [before EXCEPT ![t] = {}]
      /\ returned' \in {returned, returned \cup {ver[t]}}
  BY DEF Return, Goto, mongo
<1>2. ver[t] <= commits
  BY DEF OwnCommit, None
<1>3. OwnCommit'
  BY <1>1 DEF OwnCommit
<1>4. Began'
  BY <1>1, <1>2 DEF Began
<1>5. EventsInCallOrder'
  BY <1>1 DEF EventsInCallOrder
<1> QED BY <1>3, <1>4, <1>5

(* Commit numbers and events, step by step.                                 *)
LEMMA NumbersStep ==
  ASSUME OrderInv, TypeOK', [Next]_vars
  PROVE  OwnCommit' /\ Began' /\ EventsInCallOrder'
<1> USE DEF OrderInv, IInv, TypeOK, CallType, EventType, Goto, Finish
<1>1. ASSUME NEW t \in Thread, MongoWrite(t) \/ MongoUnacknowledged(t)
      PROVE  OwnCommit' /\ Began' /\ EventsInCallOrder'
  BY <1>1, NumbersCommit DEF MongoWrite, MongoUnacknowledged
<1>2. ASSUME NEW t \in Thread, NEW r \in Request, Begin(t, r)
      PROVE  OwnCommit' /\ Began' /\ EventsInCallOrder'
  BY <1>2, NumbersFrame DEF Begin, mongo
<1>3. ASSUME NEW t \in Thread,
             \/ MongoFails(t) \/ CacheWrite(t) \/ CacheGet(t)
             \/ CacheGetJSON(t) \/ DoChan(t) \/ Receive(t) \/ GiveUp(t)
             \/ Cancel(t)
      PROVE  OwnCommit' /\ Began' /\ EventsInCallOrder'
  BY <1>3, NumbersFrame
     DEF MongoFails, CacheWrite, CacheGet, CacheGetJSON, DoChan, Receive,
         GiveUp, Cancel, mongo, client
<1>4. ASSUME NEW k \in Key,
             \/ FlightFind(k) \/ FlightFill(k) \/ FlightDeliver(k) \/ Expire(k)
      PROVE  OwnCommit' /\ Began' /\ EventsInCallOrder'
  BY <1>4, NumbersFrame
     DEF FlightFind, FlightFill, FlightDeliver, Expire, mongo, client
<1>l. ASSUME NEW c \in late, LateCommand(c)
      PROVE  OwnCommit' /\ Began' /\ EventsInCallOrder'
  BY <1>l, NumbersFrame DEF LateCommand, mongo, client
<1>s. ASSUME NEW r \in stray, StrayWrite(r)
      PROVE  OwnCommit' /\ Began' /\ EventsInCallOrder'
  BY <1>s, NumbersLate DEF StrayWrite, Commit, client
<1>5. CASE Crash
  <2>1. OwnCommit'
    BY <1>5 DEF Crash, OwnCommit
  <2>2. Began' /\ EventsInCallOrder'
    BY <1>5 DEF Crash, Began, EventsInCallOrder, mongo
  <2> QED BY <2>1, <2>2
<1>6. CASE UNCHANGED vars
  BY <1>6, NumbersFrame DEF vars, mongo, client
<1> QED BY <1>l, <1>s, <1>1, <1>2, <1>3, <1>4, <1>5, <1>6, NumbersPublish,
           NumbersReturn
        DEF Next, Write, Local, Load

(* Events of writes that spell a user's id alike are in their partition in  *)
(* the order of those calls that do not overlap, whatever was lost,         *)
(* cancelled or crashed in between.                                         *)
THEOREM EventOrder == Safety => []EventsInCallOrder
<1>1. Init => OwnCommit /\ Began /\ EventsInCallOrder
  BY DEF Init, OwnCommit, Began, EventsInCallOrder, None
<1>2. OrderInv /\ TypeOK' /\ [Next]_vars
        => OwnCommit' /\ Began' /\ EventsInCallOrder'
  BY NumbersStep
<1>3. IInv => TypeOK
  BY DEF IInv
<1> QED BY <1>1, <1>2, <1>3, Inductive, PTL DEF Safety, OrderInv

-----------------------------------------------------------------------------
(* Refinement.                                                              *)
\* What a flight may answer: an error, "does not exist", or a document.
FromFlight(r) == r = Error \/ r = NotFound \/ r = Found(r.ver)

FlightResults ==
  /\ \A k \in Key : flight[k].at \in {"fill", "deliver"} =>
                      FromFlight(flight[k].out)
  /\ \A t \in Thread : pc[t] = "wait" /\ res[t] # Pending => FromFlight(res[t])

FullInv == OrderInv /\ FlightResults

(* What flights answer, step by step.                                       *)
LEMMA FlightResultsStep ==
  ASSUME FullInv, TypeOK', [Next]_vars
  PROVE  FlightResults'
<1> USE DEF FullInv, OrderInv, IInv, TypeOK, CallType, Flights, Goto, Finish,
            FlightResults
<1>1. ASSUME NEW t \in Thread,
             \/ MongoWrite(t) \/ MongoUnacknowledged(t) \/ MongoFails(t)
             \/ CacheWrite(t) \/ Publish(t) \/ CacheGet(t) \/ CacheGetJSON(t)
             \/ Receive(t) \/ Return(t)
      PROVE  FlightResults'
  BY <1>1 DEF MongoWrite, MongoUnacknowledged, MongoFails, CacheWrite, Publish,
              CacheGet, CacheGetJSON, Receive, Return
<1>2. ASSUME NEW t \in Thread, NEW r \in Request, Begin(t, r)
      PROVE  FlightResults'
  BY <1>2 DEF Begin
<1>3. ASSUME NEW t \in Thread, GiveUp(t) \/ Cancel(t)
      PROVE  FlightResults'
  <2>1. \A k \in Key : /\ flight'[k].at = flight[k].at
                       /\ flight'[k].out = flight[k].out
    BY <1>3 DEF GiveUp, Cancel
  <2>2. \A u \in Thread : pc'[u] = "wait" => pc[u] = "wait" /\ res'[u] = res[u]
    BY <1>3 DEF GiveUp, Cancel, client
  <2> QED BY <2>1, <2>2
<1>4. ASSUME NEW t \in Thread, DoChan(t)
      PROVE  FlightResults'
  <2>1. \A u \in Thread : pc'[u] = "wait" /\ res'[u] # Pending =>
                            FromFlight(res'[u])
    BY <1>4 DEF DoChan, Shape
  <2>2. \A k \in Key : \/ flight'[k].at = "find"
                       \/ /\ flight'[k].at = flight[k].at
                          /\ flight'[k].out = flight[k].out
    BY <1>4 DEF DoChan, Started, Joined, NoFlight, GroupKey
  <2> QED BY <2>1, <2>2
<1>5. ASSUME NEW k \in Key, FlightFind(k)
      PROVE  FlightResults'
  <2>1. \/ flight'[k].out = Error
        \/ flight'[k].out = NotFound
        \/ flight'[k].out = Found(db[IdOf[k]])
    <3>1. \/ flight'[k] = Loaded(k, db[IdOf[k]])
          \/ flight'[k] = LoadError(k)
      BY <1>5 DEF FlightFind
    <3>2. flight[k] \in Flights
      BY <1>5 DEF FlightFind
    <3>3. CASE flight'[k] = LoadError(k)
      BY <3>2, <3>3 DEF LoadError
    <3>4. CASE flight'[k] = Loaded(k, db[IdOf[k]])
      BY <3>2, <3>4 DEF Loaded
    <3> QED BY <3>1, <3>3, <3>4
  <2>2. FromFlight(flight'[k].out)
    BY <2>1 DEF FromFlight, Found, Result
  <2> QED BY <1>5, <2>2 DEF FlightFind, client
<1>6. ASSUME NEW k \in Key, FlightFill(k) \/ Expire(k)
      PROVE  FlightResults'
  BY <1>6 DEF FlightFill, Expire, client
<1>7. ASSUME NEW k \in Key, FlightDeliver(k)
      PROVE  FlightResults'
  BY <1>7 DEF FlightDeliver, Forgotten, NoFlight
<1>l. ASSUME \/ \E c \in late : LateCommand(c)
             \/ \E r \in stray : StrayWrite(r)
      PROVE  FlightResults'
  BY <1>l DEF LateCommand, StrayWrite, client
<1>8. CASE Crash
  BY <1>8 DEF Crash, NoFlight
<1>9. CASE UNCHANGED vars
  BY <1>9 DEF vars, client
<1> QED BY <1>l, <1>1, <1>2, <1>3, <1>4, <1>5, <1>6, <1>7, <1>8, <1>9
        DEF Next, Write, Local, Load

\* `answer' of UserStore.
Given == [t \in Thread |-> IF pc[t] = "done" THEN res[t] ELSE Pending]

(* A call that makes up its mind gives its answer.                          *)
LEMMA GivenAnswer ==
  ASSUME TypeOK, NEW t \in Thread, NEW a, pc[t] # "done",
         pc' = [pc EXCEPT ![t] = "done"],
         \A u \in Thread : res'[u] = IF u = t THEN a ELSE res[u]
  PROVE  Given' = [Given EXCEPT ![t] = a] /\ Given[t] = Pending
BY DEF TypeOK, CallType, Given

(* A call that goes on has not answered.                                    *)
LEMMA GivenFrame ==
  ASSUME TypeOK,
         \A u \in Thread : pc[u] = "done" <=> pc'[u] = "done",
         \A u \in Thread : pc[u] = "done" => res'[u] = res[u]
  PROVE  Given' = Given
BY DEF TypeOK, CallType, Given

(* A call that gives an answer UserStore allows is a step of UserStore.     *)
LEMMA AnswerAllowed ==
  ASSUME TypeOK, NEW t \in Thread, NEW a, a \in Store!Answers(t),
         pc[t] \notin {"idle", "done"},
         pc' = [pc EXCEPT ![t] = "done"],
         \A u \in Thread : res'[u] = IF u = t THEN a ELSE res[u],
         UNCHANGED <<mongo, req, ver>>
  PROVE  Store!Answer(t)
<1>1. Given' = [Given EXCEPT ![t] = a] /\ Given[t] = Pending
  BY GivenAnswer
<1>2. req[t] # NoReq
  BY DEF TypeOK, CallType
<1>3. Store!Open(t)
  BY <1>1, <1>2 DEF Given, Store!Open, Store!NoReq, NoReq, Store!Pending,
     Pending,
                    Store!Result, Result, Store!None, None
<1>4. \E b \in Store!Answers(t) : Given' = [Given EXCEPT ![t] = b]
  BY <1>1
<1>5. UNCHANGED <<Store!store, req, ver>>
  BY DEF mongo, Store!store
<1>6. UNCHANGED stray
  BY DEF mongo
<1> QED BY <1>3, <1>4, <1>5, <1>6
        DEF Given, Store!Answer, Store!Pending, Pending, Store!Result, Result,
            Store!None, None

(* Every step of the service is a step of UserStore or leaves it alone.     *)
LEMMA StoreNext ==
  ASSUME FullInv, TypeOK', [Next]_vars
  PROVE  [Store!Next]_(Store!vars)
<1> USE DEF FullInv, OrderInv, IInv, TypeOK, CallType
<1>1. ASSUME NEW t \in Thread, NEW r \in Request, Begin(t, r)
      PROVE  Store!Call(t, r)
  <2>1. Given' = Given
    BY <1>1, GivenFrame DEF Begin, Goto
  <2> QED BY <1>1, <2>1 DEF Begin, Goto, mongo, Given, Store!Call, Store!store,
             Store!NoReq, NoReq, Pending, Store!Pending
<1>2. ASSUME NEW t \in Thread, MongoWrite(t) \/ MongoUnacknowledged(t)
      PROVE  Store!Commit(t)
  <2>1. /\ pc[t] = "mongo" /\ req[t] # NoReq /\ req[t].op # "get"
        /\ ver[t] = None /\ ver' = [ver EXCEPT ![t] = commits']
        /\ UNCHANGED <<req, stray>> /\ Commit(req[t]) /\ Given[t] = Pending
    BY <1>2 DEF MongoWrite, MongoUnacknowledged, Goto, Finish, Shape, Given
  <2>2. Given' \in {Given, [Given EXCEPT ![t] = Error]}
    <3>1. CASE MongoWrite(t)
      BY <3>1, GivenFrame DEF MongoWrite, Goto
    <3>2. CASE MongoUnacknowledged(t)
      <4>1. Given' = [Given EXCEPT ![t] = Error]
        BY <3>2, GivenAnswer DEF MongoUnacknowledged, Finish, Goto
      <4> QED BY <4>1
    <3> QED BY <1>2, <3>1, <3>2
  <2> QED BY <2>1, <2>2
          DEF Commit, Matches, Given, Store!Commit, Store!TakesEffect,
              Store!Open, Store!Reads, Store!NoReq, NoReq, Store!None, None,
              Store!Error, Error, Store!Pending, Pending, Store!Result, Result
<1>3. ASSUME NEW t \in Thread, MongoFails(t), stray' = stray \cup {req[t]}
      PROVE  Store!GiveUp(t)
  <2>1. /\ pc[t] = "mongo" /\ req[t] # NoReq /\ req[t].op # "get"
        /\ ver[t] = None /\ UNCHANGED <<store, req, ver>>
        /\ pc' = [pc EXCEPT ![t] = "done"] /\ res' = [res EXCEPT ![t] = Error]
    BY <1>3 DEF MongoFails, Finish, Goto, Shape
  <2>2. Given' = [Given EXCEPT ![t] = Error] /\ Given[t] = Pending
    BY <2>1, GivenAnswer
  <2> QED BY <1>3, <2>1, <2>2
          DEF Given, Store!GiveUp, Store!Open, Store!Reads, Store!store,
              Store!NoReq, NoReq, Store!None, None, Store!Error, Error,
              Store!Pending, Pending, Store!Result, Result
<1>s. ASSUME NEW r \in stray, StrayWrite(r)
      PROVE  Store!Late(r)
  <2>1. Given' = Given
    BY <1>s, GivenFrame DEF StrayWrite, client
  <2> QED BY <1>s, <2>1
          DEF StrayWrite, Commit, Matches, client, Given, Store!Late,
              Store!TakesEffect, Store!store, Store!None, None, Store!Pending,
              Pending, Store!Result, Result
<1>4. ASSUME NEW t \in Thread,
             (MongoFails(t) /\ UNCHANGED stray) \/ Publish(t)
      PROVE  Store!Answer(t)
  <2> DEFINE a == IF pc[t] = "mongo" THEN Error ELSE OK
  <2>1. /\ pc[t] \in {"mongo", "publish"} /\ UNCHANGED <<mongo, req, ver>>
        /\ pc' = [pc EXCEPT ![t] = "done"] /\ res' = [res EXCEPT ![t] = a]
    BY <1>4 DEF MongoFails, Publish, Finish, Goto, mongo
  <2>2. a \in Store!Answers(t)
    BY <2>1 DEF Shape, OwnCommit, Store!Answers, Store!Reads, Store!None, None,
                Store!Error, Error, Store!OK, OK, Store!Result, Result
  <2> QED BY AnswerAllowed, <2>1, <2>2
<1>5. ASSUME NEW t \in Thread, GiveUp(t)
      PROVE  Store!Answer(t)
  <2>1. /\ pc[t] = "wait" /\ UNCHANGED <<mongo, req, ver>>
        /\ pc' = [pc EXCEPT ![t] = "done"] /\ res' = [res EXCEPT ![t] = Error]
    BY <1>5 DEF GiveUp, Finish, Goto, mongo
  <2>2. req[t].op = "get"
    BY <2>1 DEF Shape
  <2>3. Error \in Store!Answers(t)
    BY <2>2 DEF Store!Answers, Store!Reads, Store!Error, Error, Store!Result,
                Result, Store!None, None
  <2> QED BY AnswerAllowed, <2>1, <2>3
<1>6. ASSUME NEW t \in Thread, Receive(t)
      PROVE  Store!Answer(t)
  <2>1. /\ pc[t] = "wait" /\ res[t] # Pending
        /\ UNCHANGED <<mongo, req, ver, res>>
        /\ pc' = [pc EXCEPT ![t] = "done"]
    BY <1>6 DEF Receive, Goto, mongo
  <2>2. FromFlight(res[t]) /\ req[t].op = "get"
    BY <2>1 DEF FlightResults, Shape
  <2>3. res[t] \in Store!Answers(t)
    BY <2>2 DEF FromFlight, AnswersTruthful, UserId, Store!Answers,
       Store!Reads,
                Store!UserId, Store!None, None, Store!Error, Error,
                Store!NotFound, NotFound, Store!Found, Found, Store!Result,
                Result
  <2> QED BY AnswerAllowed, <2>1, <2>3
<1>7. ASSUME NEW t \in Thread, CacheGetJSON(t)
      PROVE  Store!Answer(t) \/ UNCHANGED Store!vars
  <2>1. CASE pc'[t] = "join"
    <3>1. Given' = Given
      BY <1>7, <2>1, GivenFrame DEF CacheGetJSON, Goto, Finish
    <3> QED BY <1>7, <2>1, <3>1
            DEF CacheGetJSON, mongo, Given, Store!vars, Store!store,
                Store!Pending, Pending, Store!Result, Result
  <2>2. CASE pc'[t] = "done"
    <3> DEFINE k == req[t].key
               a == IF cache[k] = None THEN Blank ELSE Found(cache[k])
    <3>1. /\ pc[t] = "getJSON" /\ UNCHANGED <<mongo, req, ver>>
          /\ pc' = [pc EXCEPT ![t] = "done"] /\ res' = [res EXCEPT ![t] = a]
      BY <1>7, <2>2 DEF CacheGetJSON, Finish, Goto, mongo
    <3>2. k \in Key /\ req[t].op = "get"
      BY <3>1, RequestKey DEF Shape
    <3>3. a \in Store!Answers(t)
      BY <3>2 DEF Committed, Store!Answers, Store!Reads, Store!UserId,
                  Store!Blank, Blank, Store!Found, Found, Store!Result, Result,
                  Store!None, None
    <3> QED BY AnswerAllowed, <3>1, <3>3
  <2> QED BY <1>7, <2>1, <2>2 DEF CacheGetJSON, Finish, Goto
<1>8. ASSUME NEW t \in Thread, Return(t)
      PROVE  Store!Return(t)
  <2>1. /\ pc[t] = "done" /\ res[t] # Pending /\ UNCHANGED mongo
        /\ pc' = [pc EXCEPT ![t] = "idle"] /\ req' = [req EXCEPT ![t] = NoReq]
        /\ ver' = [ver EXCEPT ![t] = None] /\ res' = [res EXCEPT ![t] = Pending]
    BY <1>8 DEF Return, Goto, Shape, mongo
  <2>2. Given' = [Given EXCEPT ![t] = Pending] /\ Given[t] # Pending
    BY <2>1 DEF Given
  <2> QED BY <2>1, <2>2
          DEF Given, mongo, Store!Return, Store!store, Store!NoReq, NoReq,
              Store!None, None, Store!Pending, Pending, Store!Result, Result
<1>9. CASE Crash
  <2>1. Given' = [t \in Thread |-> Pending]
    BY <1>9 DEF Crash, Given
  <2> QED BY <1>9, <2>1
          DEF Crash, Given, mongo, Store!Next, Store!Crash, Store!store,
              Store!NoReq, NoReq, Store!None, None, Store!Pending, Pending,
              Store!Result, Result
<1>10. ASSUME Given' = Given, UNCHANGED <<mongo, req, ver>>
       PROVE  UNCHANGED Store!vars
  BY <1>10 DEF Given, mongo, Store!vars, Store!store, Store!Pending, Pending,
               Store!Result, Result
<1>11. ASSUME NEW t \in Thread,
              CacheWrite(t) \/ CacheGet(t) \/ DoChan(t) \/ Cancel(t)
       PROVE  UNCHANGED Store!vars
  BY <1>10, <1>11, GivenFrame
     DEF CacheWrite, CacheGet, DoChan, Cancel, Goto, mongo, client
<1>12. ASSUME NEW k \in Key, FlightFind(k) \/ FlightFill(k) \/ Expire(k)
       PROVE  UNCHANGED Store!vars
  BY <1>10, <1>12, GivenFrame DEF FlightFind, FlightFill, Expire, mongo, client
<1>l. ASSUME NEW c \in late, LateCommand(c)
      PROVE  UNCHANGED Store!vars
  BY <1>10, <1>l, GivenFrame DEF LateCommand, mongo, client
<1>13. ASSUME NEW k \in Key, FlightDeliver(k)
       PROVE  UNCHANGED Store!vars
  BY <1>10, <1>13, GivenFrame DEF FlightDeliver, Recipients, FlightMembership
<1>14. CASE UNCHANGED vars
  BY <1>10, <1>14, GivenFrame DEF vars, client
<1>15. ASSUME NEW t \in Thread, MongoFails(t)
       PROVE  UNCHANGED stray \/ stray' = stray \cup {req[t]}
  BY <1>15 DEF MongoFails
<1> QED BY <1>l, <1>s, <1>1, <1>2, <1>3, <1>4, <1>5, <1>6, <1>7, <1>8, <1>9,
           <1>11, <1>12, <1>13, <1>14, <1>15
        DEF Next, Write, Local, Load, Store!Next, Store!Request, Request

(* The service implements the abstract store: a write takes effect once at  *)
(* most and nothing after MongoDB's acknowledgement turns it into an error; *)
(* a read answers a committed document of its own id.                       *)
THEOREM Refines == Safety => ImplementsStore
<1>1. Init => /\ Store!Init /\ FlightResults
              /\ OwnCommit /\ Began /\ EventsInCallOrder
  BY DEF Init, Store!Init, Store!NoReq, NoReq, Store!None, None, Store!Pending,
         Pending, Store!Result, Result, FlightResults, NoFlight, OwnCommit,
         Began, EventsInCallOrder
<1>2. FullInv /\ TypeOK' /\ [Next]_vars =>
        OwnCommit' /\ Began' /\ EventsInCallOrder' /\ FlightResults'
  BY NumbersStep, FlightResultsStep DEF FullInv
<1>3. FullInv /\ TypeOK' /\ [Next]_vars => [Store!Next]_(Store!vars)
  BY StoreNext
<1>4. IInv => TypeOK
  BY DEF IInv
<1> QED BY <1>1, <1>2, <1>3, <1>4, Inductive, PTL
        DEF Safety, ImplementsStore, Store!Safety, FullInv, OrderInv
=============================================================================
