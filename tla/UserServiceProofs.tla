-------------------------- MODULE UserServiceProofs --------------------------
(***************************************************************************)
(* Proofs about UserService, for any goroutines, users and spellings, any  *)
(* choice of operations and faults, any bound on the writes and on the     *)
(* commands left under way.                                                *)
(***************************************************************************)
EXTENDS UserService, TLAPS

(* Type correctness: the call, the two stores, the group.                   *)
USE CallsAssumption, ServiceAssumption
    DEF CallsAssumption, ServiceAssumption, store, entries

(* The values the code returns are results.                                 *)
LEMMA ResultType ==
  /\ {Pending, OK, Error, NotFound, Blank} \subseteq Results
  /\ \A v \in Nat : Found(v) \in Results
BY DEF Results, Result, Pending, OK, Error, NotFound, Blank, Found, None

(* The empty flight is a flight.                                            *)
LEMMA NoFlightType == NoFlight \in Flights
BY ResultType DEF NoFlight, Flights, None

(* No request stands for "no request".                                      *)
LEMMA NoReqType == NoReq \notin Request
BY DEF NoReq, Request, AllOps

(* A MongoDB commit keeps the store well typed.                             *)
LEMMA CommitType ==
  ASSUME StoreType, NEW r \in Request, Commit(r), stray' \in SUBSET Request
  PROVE  StoreType' /\ commits' \in Nat
<1> USE DEF StoreType, Commit, None
<1>1. commits' \in Nat
  OBVIOUS
<1> DEFINE v == IF r.op = "delete" THEN None ELSE commits'
<1>2. v \in Nat
  BY <1>1
<1>3. db' = [db EXCEPT ![IdOf[r.key]] = v]
  OBVIOUS
<1>4. db' \in [Id -> Nat]
  BY <1>2, <1>3
<1>5. history' \in [Id -> SUBSET Nat]
  BY <1>1
<1> QED BY <1>1, <1>4, <1>5

(* The key of a request is a spelling.                                      *)
LEMMA RequestKey ==
  ASSUME CallType, NEW t \in Thread, pc[t] # "idle"
  PROVE  req[t] \in Request /\ req[t].key \in Key /\ UserId(t) \in Id
BY DEF CallType, Request, UserId

(* Filling an entry with a commit number, or removing it.                   *)
LEMMA EntriesType ==
  ASSUME RedisType, NEW k \in Key, NEW v \in Nat, Set(k, v) \/ Remove(k)
  PROVE  /\ cache' \in [Key -> Nat]
         /\ cause' \in [Key -> {"none", "late fill", "missed"}]
<1>1. cache \in [Key -> Nat] /\ 0 \in Nat
  BY DEF RedisType
<1>2. cache' = [cache EXCEPT ![k] = v] \/ cache' = [cache EXCEPT ![k] = 0]
  BY DEF Set, Remove, None
<1>3. cause' \in [Key -> {"none", "late fill", "missed"}]
  BY DEF RedisType, Set, Remove
<1>4. cache' \in [Key -> Nat]
  BY <1>1, <1>2
<1> QED BY <1>3, <1>4

(* A copy of a command that stays behind.                                   *)
LEMMA LateType ==
  ASSUME RedisType, NEW k \in Key, NEW v \in Nat, MayLinger(k, v)
  PROVE  late' \in SUBSET [key : Key, val : Nat]
<1>1. late \in SUBSET [key : Key, val : Nat]
  BY DEF RedisType
<1>2. [key |-> k, val |-> v] \in [key : Key, val : Nat]
  OBVIOUS
<1> QED BY <1>1, <1>2 DEF MayLinger

(* Documents, cache entries, calls, events and flights stay well typed at   *)
(* every step of every call, fault and crash.                               *)
THEOREM TypeCorrect == Safety => []TypeOK
<1> USE ResultType, NoFlightType, NoReqType DEF TypeOK, Goto, Finish
<1>1. Init => TypeOK
  BY DEF Init, None, StoreType, RedisType, CallType, EventType
<1>2. TypeOK /\ [Next]_vars => TypeOK'
  <2> SUFFICES ASSUME TypeOK, [Next]_vars
               PROVE  TypeOK'
    OBVIOUS
  <2>1. ASSUME NEW t \in Thread, NEW r \in Request, Begin(t, r)
        PROVE  TypeOK'
    <3>1. CallType'
      BY <2>1 DEF Begin, CallType
    <3>2. EventType'
      BY <2>1 DEF Begin, EventType
    <3> QED BY <2>1, <3>1, <3>2
            DEF Begin, StoreType, RedisType, mongo, redis, client
  <2>2. ASSUME NEW t \in Thread, MongoWrite(t)
        PROVE  TypeOK'
    <3>1. StoreType' /\ commits' \in Nat
      BY <2>2, RequestKey, CommitType DEF MongoWrite, StoreType
    <3>2. RedisType'
      BY <2>2 DEF MongoWrite, Miss, RedisType
    <3>3. CallType'
      BY <2>2, <3>1 DEF MongoWrite, CallType
    <3> QED BY <2>2, <3>1, <3>2, <3>3
            DEF MongoWrite, EventType, mongo, redis, client
  <2>3. ASSUME NEW t \in Thread, MongoUnacknowledged(t)
        PROVE  TypeOK'
    <3>1. StoreType' /\ commits' \in Nat
      BY <2>3, RequestKey, CommitType DEF MongoUnacknowledged, StoreType
    <3>2. RedisType'
      BY <2>3 DEF MongoUnacknowledged, Miss, RedisType
    <3>3. CallType'
      BY <2>3, <3>1 DEF MongoUnacknowledged, CallType
    <3> QED BY <2>3, <3>1, <3>2, <3>3
            DEF MongoUnacknowledged, EventType, mongo, redis, client
  <2>4. ASSUME NEW t \in Thread, MongoFails(t)
        PROVE  TypeOK'
    <3>1. CallType'
      BY <2>4 DEF MongoFails, CallType
    <3>2. stray' \in SUBSET Request
      BY <2>4, RequestKey DEF MongoFails, StoreType
    <3> QED BY <2>4, <3>1, <3>2
            DEF MongoFails, StoreType, RedisType, EventType, mongo, redis,
                client
  <2>5. ASSUME NEW t \in Thread, CacheWrite(t)
        PROVE  TypeOK'
    <3>1. RedisType'
      <4>1. req[t].key \in Key /\ ver[t] \in Nat /\ CacheValue(t) \in Nat
        BY <2>5, RequestKey DEF CacheWrite, CallType, CacheValue, None
      <4>2. late' \in SUBSET [key : Key, val : Nat]
        BY <2>5, <4>1, LateType DEF CacheWrite
      <4>3. CASE TouchCache(t)
        BY <4>1, <4>2, <4>3, EntriesType DEF TouchCache, RedisType
      <4>4. CASE UNCHANGED cache /\ \E K \in {{}, {req[t].key}} : Miss(K)
        BY <4>2, <4>4 DEF Miss, RedisType
      <4> QED BY <2>5, <4>3, <4>4 DEF CacheWrite
    <3>2. CallType'
      BY <2>5 DEF CacheWrite, CallType
    <3> QED BY <2>5, <3>1, <3>2
            DEF CacheWrite, StoreType, EventType, mongo, redis, client
  <2>6. ASSUME NEW t \in Thread, Publish(t)
        PROVE  TypeOK'
    <3>1. CallType'
      BY <2>6 DEF Publish, CallType
    <3>2. EventType'
      <4> DEFINE e == [ver |-> ver[t], before |-> before[t]]
      <4>1. e \in [ver : Nat, before : SUBSET Nat]
        BY DEF EventType, CallType
      <4> DEFINE S == [ver : Nat, before : SUBSET Nat]
      <4> DEFINE k == req[t].key
      <4>2. \/ topic' = [topic EXCEPT ![k] = Append(topic[k], e)]
            \/ topic' = topic
        BY <2>6 DEF Publish, Enqueue
      <4>3. topic \in [Key -> Seq(S)] /\ e \in S /\ k \in Key
        BY <2>6, <4>1, RequestKey DEF Publish, EventType
      <4>4. topic' \in [Key -> Seq(S)]
        <5> HIDE DEF S, e, k
        <5>1. topic[k] \in Seq(S)
          BY <4>3
        <5>2. Append(topic[k], e) \in Seq(S)
          BY <4>3, <5>1
        <5> QED BY <4>2, <4>3, <5>2
      <4> QED BY <2>6, <4>4 DEF Publish, EventType
    <3> QED BY <2>6, <3>1, <3>2
            DEF Publish, StoreType, RedisType, mongo, redis, client
  <2>7. ASSUME NEW t \in Thread, CacheGet(t)
        PROVE  TypeOK'
    <3>1. CallType'
      BY <2>7 DEF CacheGet, CallType
    <3> QED BY <2>7, <3>1
            DEF CacheGet, StoreType, RedisType, EventType, mongo, redis, client
  <2>8. ASSUME NEW t \in Thread, CacheGetJSON(t)
        PROVE  TypeOK'
    <3>1. CallType'
      <4>1. cache[req[t].key] \in Nat
        BY <2>8, RequestKey DEF CacheGetJSON, RedisType
      <4> QED BY <2>8, <4>1 DEF CacheGetJSON, CallType
    <3> QED BY <2>8, <3>1
            DEF CacheGetJSON, StoreType, RedisType, EventType, mongo, redis,
                client
  <2>9. ASSUME NEW t \in Thread, DoChan(t)
        PROVE  TypeOK'
    <3>1. CallType'
      BY <2>9 DEF DoChan, CallType
    <3>2. flight' \in [Key -> Flights]
      <4> DEFINE g == req[t].key
                 d == t \in cancelled
      <4>1. g \in Key
        BY <2>9, RequestKey DEF DoChan
      <4>2. Started(t) \in Flights
        <5>1. d \in BOOLEAN
          OBVIOUS
        <5>2. Started(t) = [NoFlight EXCEPT !.at = "find", !.leader = t,
                              !.dead = d, !.waiters = {t}]
          BY DEF Started
        <5> HIDE DEF d
        <5>3. [NoFlight EXCEPT !.at = "find", !.leader = t,
                 !.dead = d, !.waiters = {t}] \in Flights
          BY <5>1 DEF Flights, NoFlight, None
        <5> QED BY <5>2, <5>3
      <4>3. Joined(g, t) \in Flights
        BY <4>1 DEF Joined, Flights
      <4>4. flight' = [flight EXCEPT ![g] = IF flight[g].at = "none"
                                            THEN Started(t) ELSE Joined(g, t)]
        BY <2>9 DEF DoChan, GroupKey
      <4> QED BY <4>2, <4>3, <4>4
    <3> QED BY <2>9, <3>1, <3>2
            DEF DoChan, StoreType, RedisType, EventType, mongo, redis, client
  <2>10. ASSUME NEW t \in Thread, Receive(t)
        PROVE  TypeOK'
    <3>1. CallType'
      BY <2>10 DEF Receive, CallType
    <3> QED BY <2>10, <3>1
            DEF Receive, StoreType, RedisType, EventType, mongo, redis, client
  <2>11. ASSUME NEW t \in Thread, GiveUp(t)
        PROVE  TypeOK'
    <3>1. CallType'
      BY <2>11 DEF GiveUp, CallType
    <3>2. flight' \in [Key -> Flights]
      BY <2>11 DEF GiveUp, Flights
    <3> QED BY <2>11, <3>1, <3>2
            DEF GiveUp, StoreType, RedisType, EventType, mongo, redis, client
  <2>12. ASSUME NEW t \in Thread, Return(t)
        PROVE  TypeOK'
    <3>1. CallType'
      BY <2>12 DEF Return, CallType, None
    <3>2. EventType'
      <4>1. ver[t] \in Nat
        BY DEF CallType
      <4>2. returned' \in SUBSET Nat
        BY <2>12, <4>1 DEF Return, EventType
      <4> QED BY <2>12, <4>2 DEF Return, EventType
    <3> QED BY <2>12, <3>1, <3>2
            DEF Return, StoreType, RedisType, mongo, redis, client
  <2>13. ASSUME NEW t \in Thread, Cancel(t)
        PROVE  TypeOK'
    <3>1. CallType'
      BY <2>13 DEF Cancel, CallType, client
    <3>2. flight' \in [Key -> Flights]
      <4>1. \A k \in Key : [flight[k] EXCEPT !.dead = TRUE] \in Flights
        BY DEF Flights
      <4> QED BY <2>13, <4>1 DEF Cancel
    <3> QED BY <2>13, <3>1, <3>2
            DEF Cancel, StoreType, RedisType, EventType, mongo, redis, client
  <2>14. ASSUME NEW k \in Key, FlightFind(k)
        PROVE  TypeOK'
    <3>1. flight' \in [Key -> Flights]
      <4>1. db[IdOf[k]] \in Nat
        BY DEF StoreType
      <4>2. Loaded(k, db[IdOf[k]]) \in Flights
        BY <4>1 DEF Loaded, Flights
      <4>3. LoadError(k) \in Flights
        BY DEF LoadError, Flights
      <4> QED BY <2>14, <4>2, <4>3 DEF FlightFind
    <3> QED BY <2>14, <3>1
            DEF FlightFind, StoreType, RedisType, CallType, EventType, mongo,
                redis, client
  <2>15. ASSUME NEW k \in Key, FlightFill(k)
        PROVE  TypeOK'
    <3>1. RedisType'
      <4>1. flight[k].val \in Nat
        BY DEF Flights
      <4>2. late' \in SUBSET [key : Key, val : Nat]
        BY <2>15, <4>1, LateType DEF FlightFill
      <4> QED BY <2>15, <4>1, <4>2, EntriesType DEF FlightFill, RedisType
    <3>2. flight' \in [Key -> Flights]
      BY <2>15 DEF FlightFill, Flights
    <3> QED BY <2>15, <3>1, <3>2
            DEF FlightFill, StoreType, CallType, EventType, mongo, redis,
                client
  <2>16. ASSUME NEW k \in Key, FlightDeliver(k)
        PROVE  TypeOK'
    <3>1. CallType'
      BY <2>16 DEF FlightDeliver, Flights, CallType
    <3>2. flight' \in [Key -> Flights]
      BY <2>16 DEF FlightDeliver, Forgotten
    <3> QED BY <2>16, <3>1, <3>2
            DEF FlightDeliver, StoreType, RedisType, EventType, mongo, redis,
                client
  <2>17. ASSUME NEW k \in Key, Expire(k)
        PROVE  TypeOK'
    <3>1. RedisType'
      BY <2>17 DEF Expire, Remove, None, RedisType
    <3> QED BY <2>17, <3>1
            DEF Expire, StoreType, CallType, EventType, mongo, redis, client
  <2>18. ASSUME Crash
        PROVE  TypeOK'
    <3>1. RedisType'
      BY <2>18 DEF Crash, Miss, RedisType
    <3>2. CallType'
      BY <2>18 DEF Crash, CallType, None
    <3>3. EventType'
      BY <2>18 DEF Crash, EventType
    <3>4. flight' \in [Key -> Flights]
      BY <2>18 DEF Crash
    <3> QED BY <2>18, <3>1, <3>2, <3>3, <3>4
            DEF Crash, StoreType, mongo, redis, client
  <2>19. ASSUME NEW c \in late, LateCommand(c)
        PROVE  TypeOK'
    <3>1. RedisType'
      <4>1. c.key \in Key /\ c.val \in Nat /\ late' \in SUBSET late
        BY <2>19 DEF LateCommand, RedisType
      <4> QED BY <2>19, <4>1, EntriesType DEF LateCommand, RedisType
    <3> QED BY <2>19, <3>1
            DEF LateCommand, StoreType, CallType, EventType, mongo, redis,
                client
  <2>20. ASSUME NEW r \in stray, StrayWrite(r)
        PROVE  TypeOK'
    <3>1. StoreType'
      <4>1. r \in Request /\ stray' \in SUBSET Request
        BY <2>20 DEF StrayWrite, StoreType
      <4>2. CASE Commit(r)
        BY <4>1, <4>2, CommitType
      <4>3. CASE UNCHANGED store
        BY <4>1, <4>3 DEF StoreType
      <4> QED BY <2>20, <4>2, <4>3 DEF StrayWrite
    <3>2. RedisType'
      BY <2>20 DEF StrayWrite, Miss, RedisType
    <3> QED BY <2>20, <3>1, <3>2
            DEF StrayWrite, CallType, EventType, client
  <2>21. CASE UNCHANGED vars
    BY <2>21 DEF vars, mongo, redis, client, StoreType, RedisType, CallType,
                 EventType
  <2> QED
    BY <2>1, <2>2, <2>3, <2>4, <2>5, <2>6, <2>7, <2>8, <2>9, <2>10, <2>11,
       <2>12, <2>13, <2>14, <2>15, <2>16, <2>17, <2>18, <2>19, <2>20, <2>21
       DEF Next, Write, Local, Load
<1> QED BY <1>1, <1>2, PTL DEF Safety

-----------------------------------------------------------------------------
(* The inductive invariant.                                                 *)

\* What MongoDB, the cache and late copies of SETs hold was committed.
Committed ==
  /\ \A i \in Id : db[i] # None => db[i] \in history[i]
  /\ \A k \in Key : cache[k] # None => cache[k] \in history[IdOf[k]]
  /\ \A c \in late : c.val # None => c.val \in history[IdOf[c.key]]

\* Each control point belongs to one kind of request, and a result is there
\* only once the call, or the flight it waits for, has made it.
Shape ==
  \A t \in Thread :
    /\ pc[t] \in {"get", "getJSON", "join", "wait"} => req[t].op = "get"
    /\ pc[t] \in {"mongo", "cache", "publish"} => req[t].op # "get"
    /\ pc[t] \notin {"cache", "publish", "done"} => ver[t] = None
    /\ pc[t] \notin {"wait", "done"} => res[t] = Pending
    /\ pc[t] = "done" => res[t] # Pending
    /\ res[t].kind \in {"user", "notFound"} => req[t].op = "get"

\* Every call is about a user that has existed, except a create whose insert
\* is not done: no other call knows its id.
KnownUser ==
  \A t \in Thread :
    /\ pc[t] # "idle" /\ req[t].op # "create" => history[UserId(t)] # {}
    /\ pc[t] = "mongo" /\ req[t].op = "create" =>
         /\ history[UserId(t)] = {}
         /\ \A u \in Thread \ {t} : pc[u] # "idle" => UserId(u) # UserId(t)
    /\ pc[t] = "cache" => ver[t] \in history[UserId(t)]

\* A write that was given up is about a user that has existed, or inserts
\* one no call that goes on and no other write knows.
StrayKnown ==
  \A r \in stray :
    /\ r.op # "create" => history[IdOf[r.key]] # {}
    /\ r.op = "create" =>
         /\ history[IdOf[r.key]] = {}
         /\ \A t \in Thread : pc[t] \notin {"idle", "done"} =>
                              UserId(t) # IdOf[r.key]

\* A flight carries what MongoDB held for its own key.
CarriesTruth(k) ==
  /\ flight[k].at # "none" => history[IdOf[k]] # {}
  /\ flight[k].at = "fill" => flight[k].val \in history[IdOf[k]]
  /\ flight[k].at \in {"fill", "deliver"} => flight[k].out # Pending
  /\ flight[k].at = "none" => flight[k].waiters = {}
  /\ flight[k].at # "none" =>
       /\ flight[k].out.kind = "user" => flight[k].out.ver \in history[IdOf[k]]
       /\ flight[k].out.kind = "notFound" => db[IdOf[k]] = None

FlightTruthful == \A k \in Key : CarriesTruth(k)

IInv ==
  /\ TypeOK
  /\ Committed
  /\ Shape
  /\ KnownUser
  /\ StrayKnown
  /\ FlightTruthful
  /\ FlightMembership
  /\ AnswersTruthful
  /\ StaleOnlyExplained

(* A write at its MongoDB step, or one that was given up.                   *)
Writable(r) ==
  \/ r \in stray
  \/ \E t \in Thread : pc[t] = "mongo" /\ r = req[t]

(* Only such a write changes documents and commits.                         *)
LEMMA OnlyWritesCommit ==
  ASSUME TypeOK, [Next]_vars
  PROVE  \/ \E r \in Request : Writable(r) /\ Commit(r)
         \/ UNCHANGED <<db, history>>
<1>1. ASSUME NEW t \in Thread, MongoWrite(t) \/ MongoUnacknowledged(t)
      PROVE  \E r \in Request : Writable(r) /\ Commit(r)
  BY <1>1, RequestKey
     DEF MongoWrite, MongoUnacknowledged, Goto, Finish, Writable, TypeOK
<1>2. ASSUME NEW r \in stray, StrayWrite(r)
      PROVE  \/ \E q \in Request : Writable(q) /\ Commit(q)
             \/ UNCHANGED <<db, history>>
  BY <1>2 DEF StrayWrite, Writable, TypeOK, StoreType
<1> QED BY <1>1, <1>2
        DEF Next, Write, Local, Load, Begin, MongoFails, CacheWrite, Publish,
            CacheGet, CacheGetJSON, DoChan, Receive, GiveUp, Return, Cancel,
            FlightFind, FlightFill, FlightDeliver, Expire, LateCommand, Crash,
            Goto, Finish, mongo, vars

(* A commit, step by step: it numbers the document, and a create's user had *)
(* no commit before.                                                        *)
LEMMA CommitEffect ==
  ASSUME IInv, NEW r \in Request, Writable(r), Commit(r)
  PROVE  /\ IdOf[r.key] \in Id
         /\ commits' \in Nat \ {None}
         /\ history' = [history EXCEPT ![IdOf[r.key]] = @ \cup {commits'}]
         /\ db' = [db EXCEPT ![IdOf[r.key]] =
                     IF r.op = "delete" THEN None ELSE commits']
         /\ db[IdOf[r.key]] = None => history[IdOf[r.key]] = {}
         /\ r.op = "create" => history[IdOf[r.key]] = {}
<1> USE DEF IInv, TypeOK
<1>1. IdOf[r.key] \in Id
  BY DEF Request
<1>2. commits' \in Nat \ {None}
  BY DEF Commit, StoreType, None
<1>3. r.op = "create" => history[IdOf[r.key]] = {}
  BY DEF Writable, KnownUser, StrayKnown, UserId
<1>4. db[IdOf[r.key]] = None => history[IdOf[r.key]] = {}
  BY <1>3 DEF Commit, Matches
<1> QED BY <1>1, <1>2, <1>3, <1>4 DEF Commit

(* Commits are never forgotten, and a user that is gone does not come back. *)
LEMMA StoreStep ==
  ASSUME IInv, [Next]_vars, NEW i \in Id
  PROVE  /\ history[i] \subseteq history'[i]
         /\ db[i] = None /\ history[i] # {} => db'[i] = None
         /\ db'[i] # None => db'[i] \in history'[i]
<1> USE DEF IInv, TypeOK, StoreType, Committed
<1>1. ASSUME NEW r \in Request, Writable(r), Commit(r)
      PROVE  /\ history[i] \subseteq history'[i]
             /\ db[i] = None /\ history[i] # {} => db'[i] = None
             /\ db'[i] # None => db'[i] \in history'[i]
  <2>1. CASE i = IdOf[r.key]
    <3>1. /\ history'[i] = history[i] \cup {commits'}
          /\ db'[i] = IF r.op = "delete" THEN None ELSE commits'
          /\ db[i] = None => history[i] = {}
      <4>1. /\ history' = [history EXCEPT ![i] = @ \cup {commits'}]
            /\ db' = [db EXCEPT ![i] =
                        IF r.op = "delete" THEN None ELSE commits']
            /\ db[i] = None => history[i] = {}
        BY <1>1, <2>1, CommitEffect
      <4> QED BY <4>1
    <3> QED BY <3>1
  <2>2. CASE i # IdOf[r.key]
    BY <1>1, <2>2, CommitEffect
  <2> QED BY <2>1, <2>2
<1>2. CASE UNCHANGED <<db, history>>
  BY <1>2
<1> QED BY <1>1, <1>2, OnlyWritesCommit

(* What an entry is filled with: a create's own commit, the document of a   *)
(* flight, or that of a late copy.                                          *)
Fills(k, v) ==
  \/ \E t \in Thread : pc[t] = "cache" /\ k = req[t].key /\ v = ver[t]
  \/ flight[k].at = "fill" /\ v = flight[k].val
  \/ [key |-> k, val |-> v] \in late

LEMMA OnlyFills ==
  ASSUME TypeOK, [Next]_vars, NEW k \in Key
  PROVE  cache'[k] \in {cache[k], None} \/ Fills(k, cache'[k])
<1> USE DEF TypeOK, RedisType
<1>1. ASSUME NEW j \in Key, Remove(j)
      PROVE  cache'[k] \in {cache[k], None}
  BY <1>1 DEF Remove
<1>2. ASSUME NEW j \in Key, NEW v \in Nat, Set(j, v)
      PROVE  cache'[k] = cache[k] \/ (k = j /\ cache'[k] = v)
  <2>1. cache' = [cache EXCEPT ![j] = v]
    BY <1>2 DEF Set
  <2> QED BY <2>1
<1>3. ASSUME NEW t \in Thread, CacheWrite(t)
      PROVE  cache'[k] \in {cache[k], None} \/ Fills(k, cache'[k])
  <2>1. req[t].key \in Key /\ ver[t] \in Nat /\ pc[t] = "cache"
    BY <1>3, RequestKey DEF CacheWrite, Goto, CallType
  <2>2. CASE Set(req[t].key, ver[t])
    BY <1>2, <2>1, <2>2 DEF Fills
  <2>3. CASE Remove(req[t].key)
    BY <1>1, <2>1, <2>3
  <2>4. CASE UNCHANGED cache
    BY <2>4
  <2> QED BY <1>3, <2>2, <2>3, <2>4 DEF CacheWrite, TouchCache
<1>4. ASSUME NEW j \in Key, FlightFill(j)
      PROVE  cache'[k] \in {cache[k], None} \/ Fills(k, cache'[k])
  <2>1. flight[j].val \in Nat /\ flight[j].at = "fill"
    BY <1>4 DEF FlightFill, Flights
  <2>2. CASE Set(j, flight[j].val)
    BY <1>2, <2>1, <2>2 DEF Fills
  <2>3. CASE UNCHANGED cache
    BY <2>3
  <2> QED BY <1>4, <2>2, <2>3 DEF FlightFill
<1>5. ASSUME NEW c \in late, LateCommand(c)
      PROVE  cache'[k] \in {cache[k], None} \/ Fills(k, cache'[k])
  <2>1. c = [key |-> c.key, val |-> c.val] /\ c.key \in Key /\ c.val \in Nat
    OBVIOUS
  <2>2. CASE Set(c.key, c.val)
    BY <1>2, <2>1, <2>2 DEF Fills
  <2>3. CASE Remove(c.key)
    BY <1>1, <2>1, <2>3
  <2>4. CASE UNCHANGED cache
    BY <2>4
  <2> QED BY <1>5, <2>2, <2>3, <2>4 DEF LateCommand
<1>6. ASSUME NEW j \in Key, Expire(j)
      PROVE  cache'[k] \in {cache[k], None}
  BY <1>1, <1>6 DEF Expire
<1>7. CASE UNCHANGED cache
  BY <1>7
<1> QED BY <1>3, <1>4, <1>5, <1>6, <1>7
        DEF Next, Write, Local, Load, Begin, MongoWrite, MongoUnacknowledged,
            MongoFails, Publish, CacheGet, CacheGetJSON, DoChan, Receive,
            GiveUp, Return, Cancel, FlightFind, FlightDeliver, StrayWrite,
            Crash, redis, vars

(* What a copy that stays behind would fill an entry with.                  *)
LEMMA OnlyLingers ==
  ASSUME TypeOK, [Next]_vars, NEW c \in late'
  PROVE  c \in late \/ c.val = None \/ Fills(c.key, c.val)
<1>1. ASSUME NEW t \in Thread, CacheWrite(t)
      PROVE  c \in late \/ c.val = None \/ Fills(c.key, c.val)
  BY <1>1 DEF CacheWrite, MayLinger, CacheValue, Goto, Fills
<1>2. ASSUME NEW j \in Key, FlightFill(j)
      PROVE  c \in late \/ Fills(c.key, c.val)
  BY <1>2 DEF FlightFill, MayLinger, Fills
<1> QED BY <1>1, <1>2
        DEF Next, Write, Local, Load, Begin, MongoWrite, MongoUnacknowledged,
            MongoFails, Publish, CacheGet, CacheGetJSON, DoChan, Receive,
            GiveUp, Return, Cancel, FlightFind, FlightDeliver, Expire,
            LateCommand, StrayWrite, Crash, redis, vars

(* Committed: entries, late copies and documents were committed.            *)
LEMMA CommittedStep ==
  ASSUME IInv, TypeOK', [Next]_vars
  PROVE  Committed'
<1> USE DEF IInv, TypeOK
<1>1. \A i \in Id : db'[i] # None => db'[i] \in history'[i]
  BY StoreStep
<1>2. ASSUME NEW k \in Key, NEW v, Fills(k, v), v # None
      PROVE  v \in history[IdOf[k]]
  BY <1>2 DEF Fills, KnownUser, UserId, FlightTruthful, CarriesTruth, Committed
<1>3. \A k \in Key : cache'[k] # None => cache'[k] \in history[IdOf[k]]
  BY <1>2, OnlyFills DEF Committed
<1>4. \A c \in late' : c.key \in Key
  BY DEF RedisType
<1>5. \A c \in late' : c.val # None => c.val \in history[IdOf[c.key]]
  BY <1>2, <1>4, OnlyLingers DEF Committed
<1>6. \A k \in Key : history[IdOf[k]] \subseteq history'[IdOf[k]]
  BY StoreStep
<1> QED BY <1>1, <1>3, <1>4, <1>5, <1>6 DEF Committed

(* Shape: control points, requests and results.                             *)
LEMMA ShapeStep ==
  ASSUME IInv, TypeOK', [Next]_vars
  PROVE  Shape'
<1> USE DEF IInv, TypeOK, CallType, Shape, Goto, Finish, Result, Pending, OK,
            Error, NotFound, Blank, Found, NoReq
<1>1. ASSUME NEW t \in Thread, NEW r \in Request, Begin(t, r)
      PROVE  Shape'
  BY <1>1 DEF Begin
<1>2. ASSUME NEW t \in Thread,
             \/ MongoWrite(t) \/ MongoUnacknowledged(t)
      PROVE  Shape'
  BY <1>2 DEF MongoWrite, MongoUnacknowledged, Commit
<1>3. ASSUME NEW t \in Thread,
             \/ MongoFails(t) \/ CacheWrite(t) \/ Publish(t)
      PROVE  Shape'
  BY <1>3 DEF MongoFails, CacheWrite, Publish
<1>4. ASSUME NEW t \in Thread,
             \/ CacheGet(t) \/ CacheGetJSON(t)
      PROVE  Shape'
  BY <1>4 DEF CacheGet, CacheGetJSON
<1>5. ASSUME NEW t \in Thread,
             \/ DoChan(t) \/ Receive(t) \/ GiveUp(t)
      PROVE  Shape'
  BY <1>5 DEF DoChan, Receive, GiveUp
<1>6. ASSUME NEW t \in Thread, Return(t)
      PROVE  Shape'
  BY <1>6 DEF Return
<1>7. ASSUME NEW t \in Thread, Cancel(t)
      PROVE  Shape'
  BY <1>7 DEF Cancel, client
<1>8. ASSUME NEW k \in Key,
             \/ FlightFind(k) \/ FlightFill(k) \/ Expire(k)
      PROVE  Shape'
  BY <1>8 DEF FlightFind, FlightFill, Expire, client
<1>l. ASSUME \/ \E c \in late : LateCommand(c)
             \/ \E r \in stray : StrayWrite(r)
      PROVE  Shape'
  BY <1>l DEF LateCommand, StrayWrite, client
<1>9. ASSUME NEW k \in Key, FlightDeliver(k)
      PROVE  Shape'
  BY <1>9
     DEF FlightDeliver, Recipients, FlightMembership, FlightTruthful,
         CarriesTruth
<1>10. ASSUME Crash
      PROVE  Shape'
  BY <1>10 DEF Crash
<1>11. ASSUME UNCHANGED vars
      PROVE  Shape'
  BY <1>11 DEF vars, client
<1> QED BY <1>l, <1>1, <1>2, <1>3, <1>4, <1>5, <1>6, <1>7, <1>8, <1>9, <1>10,
           <1>11
        DEF Next, Write, Local, Load

(* KnownUser: a user in a call has a commit, but for a create at its insert. *)
\* A goroutine keeps its request and moves past MongoDB and Redis, or stops.
Onward(t) ==
  \/ pc'[t] = "idle"
  \/ /\ req'[t] = req[t] /\ ver'[t] = ver[t]
     /\ \/ pc'[t] = pc[t]
        \/ pc[t] # "idle" /\ pc'[t] \notin {"mongo", "cache"}

(* KnownUser survives when no call begins and no document is written.       *)
LEMMA KnownUserFrame ==
  ASSUME KnownUser, history' = history, \A t \in Thread : Onward(t)
  PROVE  KnownUser'
<1> SUFFICES ASSUME NEW t \in Thread, pc'[t] # "idle"
             PROVE  /\ req'[t].op # "create" => history'[UserId(t)'] # {}
                    /\ pc'[t] = "mongo" /\ req'[t].op = "create" =>
                         /\ history'[UserId(t)'] = {}
                         /\ \A u \in Thread \ {t} : pc'[u] # "idle" =>
                              UserId(u)' # UserId(t)'
                    /\ pc'[t] = "cache" => ver'[t] \in history'[UserId(t)']
  BY DEF KnownUser
<1>1. /\ req'[t] = req[t] /\ ver'[t] = ver[t]
      /\ UserId(t)' = UserId(t) /\ pc[t] # "idle"
  BY DEF Onward, UserId
<1>2. pc'[t] \in {"mongo", "cache"} => pc'[t] = pc[t]
  BY DEF Onward
<1>3. \A u \in Thread :
        pc'[u] # "idle" => UserId(u)' = UserId(u) /\ pc[u] # "idle"
  BY DEF Onward, UserId
<1> QED BY <1>1, <1>2, <1>3 DEF KnownUser

(* KnownUser: the user of a call has existed, or is being created.          *)
LEMMA KnownUserStep ==
  ASSUME IInv, TypeOK', [Next]_vars
  PROVE  KnownUser'
<1> USE DEF IInv, TypeOK, CallType, Goto, Finish
<1>w. ASSUME NEW t \in Thread, pc[t] = "mongo", Commit(req[t]),
             pc' = [pc EXCEPT ![t] = "cache"] \/ pc' = [pc EXCEPT ![t] = "done"],
             ver' = [ver EXCEPT ![t] = commits'], req' = req
      PROVE  KnownUser'
  <2>1. /\ UserId(t) \in Id /\ req[t] \in Request
        /\ history' = [history EXCEPT ![UserId(t)] = @ \cup {commits'}]
    BY <1>w, RequestKey, CommitEffect DEF Writable, UserId
  <2> QED BY <1>w, <2>1, RequestKey DEF StoreType, KnownUser, UserId
<1>s. ASSUME NEW r \in stray, StrayWrite(r)
      PROVE  KnownUser'
  <2>1. UNCHANGED <<pc, req, ver>>
    BY <1>s DEF StrayWrite, client
  <2>2. CASE Commit(r)
    <3>1. /\ r \in Request /\ IdOf[r.key] \in Id
          /\ history' = [history EXCEPT ![IdOf[r.key]] = @ \cup {commits'}]
      BY <2>2, CommitEffect DEF Writable, StoreType
    <3>2. \A t \in Thread : pc[t] = "mongo" /\ req[t].op = "create" =>
                               UserId(t) # IdOf[r.key]
      BY DEF KnownUser, StrayKnown
    <3> QED BY <2>1, <3>1, <3>2, RequestKey DEF StoreType, KnownUser, UserId
  <2>3. CASE UNCHANGED store
    BY <2>1, <2>3, KnownUserFrame DEF Onward
  <2> QED BY <1>s, <2>2, <2>3 DEF StrayWrite
<1>b. ASSUME NEW t \in Thread, NEW r \in Request, Begin(t, r)
      PROVE  KnownUser'
  <2>1. /\ UserId(t)' = IdOf[r.key] /\ req'[t] = r
        /\ pc'[t] \in {"get", "mongo"} /\ pc[t] = "idle"
    BY <1>b DEF Begin, UserId
  <2>2. \A u \in Thread \ {t} : /\ pc'[u] = pc[u] /\ req'[u] = req[u]
                                /\ ver'[u] = ver[u] /\ UserId(u)' = UserId(u)
    BY <1>b DEF Begin, UserId
  <2>3. history' = history
    BY <1>b DEF Begin, mongo
  <2>4. r.op # "create" => history[IdOf[r.key]] # {}
    BY <1>b DEF Begin
  <2>5. r.op = "create" => Fresh(r.key)
    BY <1>b DEF Begin
  <2>6. ASSUME NEW u \in Thread \ {t}, pc[u] = "mongo", req[u].op = "create"
        PROVE  UserId(u) # UserId(t)'
    <3>1. CASE r.op = "create"
      BY <2>1, <2>5, <2>6, <3>1 DEF Fresh
    <3>2. CASE r.op # "create"
      BY <2>1, <2>4, <2>6, <3>2 DEF KnownUser
    <3> QED BY <3>1, <3>2
  <2>7. ASSUME NEW u \in Thread \ {t}
        PROVE  /\ pc'[u] # "idle" /\ req'[u].op # "create" =>
                    history'[UserId(u)'] # {}
               /\ pc'[u] = "mongo" /\ req'[u].op = "create" =>
                    /\ history'[UserId(u)'] = {}
                    /\ \A w \in Thread \ {u} : pc'[w] # "idle" =>
                         UserId(w)' # UserId(u)'
               /\ pc'[u] = "cache" => ver'[u] \in history'[UserId(u)']
    BY <2>2, <2>3, <2>6 DEF KnownUser
  <2>8. /\ req'[t].op # "create" => history'[UserId(t)'] # {}
        /\ req'[t].op = "create" =>
             /\ history'[UserId(t)'] = {}
             /\ \A w \in Thread \ {t} : pc'[w] # "idle" =>
                  UserId(w)' # UserId(t)'
    BY <2>1, <2>2, <2>3, <2>4, <2>5 DEF Fresh
  <2> QED BY <2>1, <2>7, <2>8 DEF KnownUser
<1>1. ASSUME NEW t \in Thread,
             \/ MongoWrite(t) \/ MongoUnacknowledged(t)
      PROVE  KnownUser'
  BY <1>1, <1>w DEF MongoWrite, MongoUnacknowledged
<1>l. ASSUME NEW c \in late, LateCommand(c)
      PROVE  KnownUser'
  BY <1>l, KnownUserFrame DEF LateCommand, mongo, client, Onward
<1>2. ASSUME NEW t \in Thread,
             \/ MongoFails(t) \/ CacheWrite(t) \/ Publish(t)
      PROVE  KnownUser'
  BY <1>2, KnownUserFrame DEF MongoFails, CacheWrite, Publish, mongo, Onward
<1>3. ASSUME NEW t \in Thread,
             \/ CacheGet(t) \/ CacheGetJSON(t) \/ DoChan(t)
      PROVE  KnownUser'
  BY <1>3, KnownUserFrame DEF CacheGet, CacheGetJSON, DoChan, mongo, Onward
<1>4. ASSUME NEW t \in Thread,
             \/ Receive(t) \/ GiveUp(t) \/ Cancel(t)
      PROVE  KnownUser'
  BY <1>4, KnownUserFrame DEF Receive, GiveUp, Cancel, mongo, client, Onward
<1>5. ASSUME NEW t \in Thread, Return(t)
      PROVE  KnownUser'
  BY <1>5, KnownUserFrame DEF Return, mongo, Onward
<1>6. ASSUME NEW k \in Key,
             \/ FlightFind(k) \/ FlightFill(k) \/ FlightDeliver(k)
             \/ Expire(k)
      PROVE  KnownUser'
  BY <1>6, KnownUserFrame
     DEF FlightFind, FlightFill, FlightDeliver, Expire, mongo, client, Onward
<1>7. ASSUME Crash
      PROVE  KnownUser'
  BY <1>7, KnownUserFrame DEF Crash, mongo, Onward
<1>8. ASSUME UNCHANGED vars
      PROVE  KnownUser'
  BY <1>8, KnownUserFrame DEF vars, client, mongo, Onward
<1> QED BY <1>b, <1>l, <1>s, <1>1, <1>2, <1>3, <1>4, <1>5, <1>6, <1>7, <1>8
        DEF Next, Write, Local, Load

(* StrayKnown: nobody learns of a user whose insert was given up.           *)
LEMMA StrayKnownStep ==
  ASSUME IInv, TypeOK', [Next]_vars
  PROVE  StrayKnown'
<1> USE DEF IInv, TypeOK, CallType, StoreType, StrayKnown
\* A given-up write stays known as long as no goroutine begins on its user
\* and no commit is made to it.
<1>f. ASSUME NEW r \in stray,
             history'[IdOf[r.key]] = history[IdOf[r.key]],
             \A t \in Thread : pc'[t] \notin {"idle", "done"} =>
               /\ pc[t] \notin {"idle", "done"} /\ req'[t] = req[t]
      PROVE  /\ r.op # "create" => history'[IdOf[r.key]] # {}
             /\ r.op = "create" =>
                  /\ history'[IdOf[r.key]] = {}
                  /\ \A t \in Thread : pc'[t] \notin {"idle", "done"} =>
                                       UserId(t)' # IdOf[r.key]
  BY <1>f DEF UserId
<1>1. ASSUME NEW t \in Thread, NEW r \in Request, Begin(t, r)
      PROVE  StrayKnown'
  <2>1. /\ stray' = stray /\ history' = history /\ UserId(t)' = IdOf[r.key]
        /\ \A u \in Thread \ {t} : pc'[u] = pc[u] /\ UserId(u)' = UserId(u)
    BY <1>1 DEF Begin, Goto, mongo, UserId
  <2>2. \A q \in stray : q.op = "create" => IdOf[r.key] # IdOf[q.key]
    <3>1. CASE r.op = "create"
      BY <1>1, <3>1 DEF Begin, Fresh
    <3>2. CASE r.op # "create"
      BY <1>1, <3>2 DEF Begin
    <3> QED BY <3>1, <3>2
  <2>3. ASSUME NEW q \in stray
        PROVE  /\ q.op # "create" => history'[IdOf[q.key]] # {}
               /\ q.op = "create" =>
                    /\ history'[IdOf[q.key]] = {}
                    /\ \A u \in Thread : pc'[u] \notin {"idle", "done"} =>
                                         UserId(u)' # IdOf[q.key]
    <3>1. q.op # "create" => history'[IdOf[q.key]] # {}
      BY <2>1
    <3>2. ASSUME q.op = "create", NEW u \in Thread,
                 pc'[u] \notin {"idle", "done"}
          PROVE  UserId(u)' # IdOf[q.key]
      <4>1. CASE u = t
        BY <2>1, <2>2, <3>2, <4>1
      <4>2. CASE u # t
        BY <2>1, <3>2, <4>2
      <4> QED BY <4>1, <4>2
    <3>3. q.op = "create" => history'[IdOf[q.key]] = {}
      BY <2>1
    <3> QED BY <3>1, <3>2, <3>3
  <2> QED BY <2>1, <2>3
<1>2. ASSUME NEW t \in Thread, MongoWrite(t) \/ MongoUnacknowledged(t)
      PROVE  StrayKnown'
  <2>1. /\ stray' = stray /\ pc[t] = "mongo" /\ Commit(req[t]) /\ req' = req
        /\ \A u \in Thread : pc'[u] \notin {"idle", "done"} =>
                              pc[u] \notin {"idle", "done"}
    BY <1>2 DEF MongoWrite, MongoUnacknowledged, Goto, Finish
  <2>2. /\ req[t] \in Request
        /\ history' = [history EXCEPT ![UserId(t)] = @ \cup {commits'}]
    BY <2>1, RequestKey, CommitEffect DEF Writable, UserId
  <2>3. ASSUME NEW r \in stray
        PROVE  /\ r.op # "create" => history'[IdOf[r.key]] # {}
               /\ r.op = "create" =>
                    /\ history'[IdOf[r.key]] = {}
                    /\ \A u \in Thread : pc'[u] \notin {"idle", "done"} =>
                                         UserId(u)' # IdOf[r.key]
    <3>1. IdOf[r.key] \in Id
      BY DEF Request
    <3>2. r.op = "create" => IdOf[r.key] # UserId(t)
      BY <2>1
    <3>3. IdOf[r.key] # UserId(t) => history'[IdOf[r.key]] = history[IdOf[r.key]]
      BY <2>2, <3>1
    <3>4. history[IdOf[r.key]] \subseteq history'[IdOf[r.key]]
      BY <3>1, StoreStep
    <3> QED BY <1>f, <2>1, <3>2, <3>3, <3>4
  <2> QED BY <2>1, <2>3
<1>3. ASSUME NEW t \in Thread, MongoFails(t)
      PROVE  StrayKnown'
  <2>1. /\ history' = history /\ pc[t] = "mongo" /\ req' = req
        /\ pc' = [pc EXCEPT ![t] = "done"]
        /\ stray' \subseteq stray \cup {req[t]}
    BY <1>3 DEF MongoFails, Goto, Finish
  <2>2. /\ req[t].op # "create" => history'[IdOf[req[t].key]] # {}
        /\ req[t].op = "create" =>
             /\ history'[IdOf[req[t].key]] = {}
             /\ \A u \in Thread : pc'[u] \notin {"idle", "done"} =>
                                  UserId(u)' # IdOf[req[t].key]
    <3>1. \A u \in Thread : pc'[u] \notin {"idle", "done"} =>
                              u # t /\ pc[u] # "idle" /\ req'[u] = req[u]
      BY <2>1
    <3>2. /\ req[t].op # "create" => history[UserId(t)] # {}
          /\ req[t].op = "create" =>
               /\ history[UserId(t)] = {}
               /\ \A u \in Thread \ {t} : pc[u] # "idle" =>
                                           UserId(u) # UserId(t)
      BY <2>1 DEF KnownUser
    <3> QED BY <2>1, <3>1, <3>2 DEF UserId
  <2> QED BY <1>f, <2>1, <2>2
<1>4. ASSUME NEW r \in stray, StrayWrite(r)
      PROVE  StrayKnown'
  <2>1. stray' = stray \ {r} /\ UNCHANGED <<pc, req>>
    BY <1>4 DEF StrayWrite, client
  <2>2. CASE UNCHANGED store
    BY <1>f, <2>1, <2>2
  <2>3. CASE Commit(r)
    <3>1. /\ r \in Request /\ IdOf[r.key] \in Id
          /\ history' = [history EXCEPT ![IdOf[r.key]] = @ \cup {commits'}]
          /\ r.op = "create" => history[IdOf[r.key]] = {}
      BY <2>3, CommitEffect DEF Writable
    <3>2. ASSUME NEW q \in stray', IdOf[q.key] = IdOf[r.key]
          PROVE  q.op # "create" /\ history'[IdOf[q.key]] # {}
      <4>1. q \in stray /\ q # r /\ q \in Request
        BY <2>1
      <4>2. q.op = "create" => r.op = "create"
        BY <3>2, <4>1
      <4>3. q.op = "create" /\ r.op = "create" => q = r
        BY <3>1, <3>2, <4>1 DEF Request
      <4>4. q.op # "create"
        BY <4>1, <4>2, <4>3
      <4>5. history'[IdOf[q.key]] = history[IdOf[r.key]] \cup {commits'}
        BY <3>1, <3>2
      <4> QED BY <4>4, <4>5
    <3>3. ASSUME NEW q \in stray', IdOf[q.key] # IdOf[r.key]
          PROVE  history'[IdOf[q.key]] = history[IdOf[q.key]] /\ q \in stray
      <4>1. q \in stray /\ IdOf[q.key] \in Id
        BY <2>1 DEF Request
      <4> QED BY <3>1, <3>3, <4>1
    <3> QED BY <1>f, <2>1, <3>2, <3>3
  <2> QED BY <1>4, <2>2, <2>3 DEF StrayWrite
<1>5. ASSUME stray' = stray, history' = history,
             \A t \in Thread : pc'[t] \notin {"idle", "done"} =>
               /\ pc[t] \notin {"idle", "done"} /\ req'[t] = req[t]
      PROVE  StrayKnown'
  BY <1>f, <1>5
<1>6. ASSUME NEW t \in Thread,
             \/ CacheWrite(t) \/ Publish(t) \/ CacheGet(t) \/ CacheGetJSON(t)
      PROVE  StrayKnown'
  <2>1. /\ UNCHANGED <<stray, history, req>> /\ pc[t] \notin {"idle", "done"}
        /\ \E to : pc' = [pc EXCEPT ![t] = to]
    BY <1>6 DEF CacheWrite, Publish, CacheGet, CacheGetJSON, Goto, Finish,
                mongo
  <2> QED BY <1>5, <2>1
<1>8. ASSUME NEW t \in Thread,
             \/ DoChan(t) \/ Receive(t) \/ GiveUp(t) \/ Return(t) \/ Cancel(t)
      PROVE  StrayKnown'
  BY <1>5, <1>8 DEF DoChan, Receive, GiveUp, Return, Cancel, Goto, Finish,
                    mongo, client
<1>7. ASSUME \/ \E k \in Key : \/ FlightFind(k) \/ FlightFill(k)
                               \/ FlightDeliver(k) \/ Expire(k)
             \/ \E c \in late : LateCommand(c)
             \/ Crash \/ UNCHANGED vars
      PROVE  StrayKnown'
  BY <1>5, <1>7 DEF FlightFind, FlightFill, FlightDeliver, Expire, LateCommand,
                    Crash, mongo, client, vars
<1> QED BY <1>1, <1>2, <1>3, <1>4, <1>6, <1>7, <1>8
        DEF Next, Write, Local, Load

(* FlightMembership: waiters and waiting readers.                           *)
LEMMA MembershipStep ==
  ASSUME IInv, TypeOK', [Next]_vars
  PROVE  FlightMembership'
<1> USE DEF IInv, TypeOK, CallType, Goto, Finish, Shape, FlightMembership,
            GroupKey, Flights
<1>f. ASSUME NEW k \in Key, FlightFind(k) \/ FlightFill(k)
      PROVE  \A j \in Key : flight'[j].waiters = flight[j].waiters
  <2>1. CASE FlightFill(k)
    BY <2>1 DEF FlightFill
  <2>2. /\ LoadError(k).waiters = flight[k].waiters
        /\ Loaded(k, db[IdOf[k]]).waiters = flight[k].waiters
    BY DEF LoadError, Loaded
  <2>3. CASE flight' = [flight EXCEPT ![k] = LoadError(k)]
    BY <2>2, <2>3
  <2>4. CASE flight' = [flight EXCEPT ![k] = Loaded(k, db[IdOf[k]])]
    BY <2>2, <2>4
  <2> QED BY <1>f, <2>1, <2>3, <2>4 DEF FlightFind
<1>1. ASSUME NEW t \in Thread, NEW r \in Request, Begin(t, r)
      PROVE  FlightMembership'
  BY <1>1 DEF Begin
<1>2. ASSUME NEW t \in Thread,
             \/ MongoWrite(t) \/ MongoUnacknowledged(t)
      PROVE  FlightMembership'
  BY <1>2 DEF MongoWrite, MongoUnacknowledged
<1>3. ASSUME NEW t \in Thread,
             \/ MongoFails(t) \/ CacheWrite(t) \/ Publish(t)
      PROVE  FlightMembership'
  BY <1>3 DEF MongoFails, CacheWrite, Publish
<1>4. ASSUME NEW t \in Thread,
             \/ CacheGet(t) \/ CacheGetJSON(t)
      PROVE  FlightMembership'
  BY <1>4 DEF CacheGet, CacheGetJSON
<1>5. ASSUME NEW t \in Thread, DoChan(t)
      PROVE  FlightMembership'
  BY <1>5, RequestKey
     DEF DoChan, Started, Joined, FlightTruthful, CarriesTruth, NoFlight
<1>6. ASSUME NEW t \in Thread, Receive(t)
      PROVE  FlightMembership'
  BY <1>6 DEF Receive
<1>7. ASSUME NEW t \in Thread, GiveUp(t)
      PROVE  FlightMembership'
  BY <1>7 DEF GiveUp, Pending, Error, Result
<1>8. ASSUME NEW t \in Thread, Cancel(t)
      PROVE  FlightMembership'
  BY <1>8 DEF Cancel, client
<1>9. ASSUME NEW t \in Thread, Return(t)
      PROVE  FlightMembership'
  BY <1>9 DEF Return
<1>10. ASSUME NEW k \in Key, Expire(k)
      PROVE  FlightMembership'
  BY <1>10 DEF Expire, client
<1>11. ASSUME NEW k \in Key, FlightDeliver(k)
      PROVE  FlightMembership'
  BY <1>11
     DEF FlightDeliver, Recipients, Forgotten, NoFlight, FlightTruthful,
         CarriesTruth
<1>12. ASSUME Crash
      PROVE  FlightMembership'
  BY <1>12 DEF Crash, NoFlight
<1>13. ASSUME UNCHANGED vars
      PROVE  FlightMembership'
  BY <1>13 DEF vars, client
<1>g. ASSUME NEW k \in Key, FlightFind(k) \/ FlightFill(k)
      PROVE  FlightMembership'
  <2>1. \A j \in Key : flight'[j].waiters = flight[j].waiters
    BY <1>f, <1>g
  <2>2. UNCHANGED <<pc, req, res>>
    BY <1>g DEF FlightFind, FlightFill, client
  <2> QED BY <2>1, <2>2
<1>l. ASSUME \/ \E c \in late : LateCommand(c)
             \/ \E r \in stray : StrayWrite(r)
      PROVE  FlightMembership'
  BY <1>l DEF LateCommand, StrayWrite, client
<1> QED BY <1>g, <1>l, <1>1, <1>2, <1>3, <1>4, <1>5, <1>6, <1>7, <1>8, <1>9,
           <1>10, <1>11, <1>12, <1>13
        DEF Next, Write, Local, Load

(* FlightTruthful: what a flight carries.                                   *)
LEMMA FlightStep ==
  ASSUME IInv, TypeOK', [Next]_vars
  PROVE  FlightTruthful'
<1> USE DEF IInv, TypeOK, Goto, Finish, Flights
<1> SUFFICES ASSUME NEW k \in Key
             PROVE  CarriesTruth(k)'
  BY DEF FlightTruthful
<1>0. /\ history[IdOf[k]] \subseteq history'[IdOf[k]]
      /\ db[IdOf[k]] = None /\ history[IdOf[k]] # {} => db'[IdOf[k]] = None
      /\ CarriesTruth(k)
  BY StoreStep DEF FlightTruthful
<1>1. ASSUME \/ flight'[k] = flight[k]
             \/ /\ flight'[k].at = flight[k].at /\ flight'[k].val = flight[k].val
                /\ flight'[k].out = flight[k].out
                /\ flight[k].at = "none" => flight'[k].waiters = {}
      PROVE  CarriesTruth(k)'
  BY <1>0, <1>1 DEF CarriesTruth
<1>2. ASSUME flight'[k] = NoFlight
      PROVE  CarriesTruth(k)'
  BY <1>2 DEF CarriesTruth, NoFlight
<1>3. ASSUME NEW t \in Thread, DoChan(t)
      PROVE  CarriesTruth(k)'
  <2>1. req[t].key \in Key /\ history[UserId(t)] # {} /\ UNCHANGED history
    BY <1>3, RequestKey DEF DoChan, Shape, KnownUser, mongo, CallType
  <2>2. CASE k # req[t].key
    BY <1>1, <1>3, <2>2 DEF DoChan, GroupKey
  <2>3. CASE k = req[t].key /\ flight[k].at # "none"
    <3>1. flight'[k] = Joined(k, t)
      BY <1>3, <2>3 DEF DoChan, GroupKey
    <3> QED BY <1>1, <2>3, <3>1 DEF Joined
  <2>4. CASE k = req[t].key /\ flight[k].at = "none"
    <3>1. flight'[k] = Started(t)
      BY <1>3, <2>4 DEF DoChan, GroupKey
    <3>2. /\ flight'[k].at = "find" /\ flight'[k].out = Pending
      BY <3>1 DEF Started, NoFlight
    <3> QED BY <2>1, <2>4, <3>2 DEF CarriesTruth, UserId, Pending, Result
  <2> QED BY <2>2, <2>3, <2>4
<1>4. ASSUME NEW t \in Thread, GiveUp(t) \/ Cancel(t)
      PROVE  CarriesTruth(k)'
  <2>1. /\ flight'[k].at = flight[k].at /\ flight'[k].val = flight[k].val
        /\ flight'[k].out = flight[k].out
        /\ flight'[k].waiters \subseteq flight[k].waiters
    BY <1>4 DEF GiveUp, Cancel
  <2> QED BY <1>0, <1>1, <2>1 DEF CarriesTruth
<1>5. ASSUME NEW j \in Key, FlightFind(j) \/ FlightFill(j) \/ FlightDeliver(j)
      PROVE  CarriesTruth(k)'
  <2>1. CASE j # k
    BY <1>1, <1>5, <2>1 DEF FlightFind, FlightFill, FlightDeliver
  <2>2. CASE j = k /\ FlightFind(k)
    <3>1. UNCHANGED <<db, history>> /\ flight[k].at = "find"
      BY <2>2 DEF FlightFind, mongo
    <3>2. CASE flight'[k] = LoadError(k)
      <4>1. flight'[k].at = "deliver" /\ flight'[k].out = Error
        BY <3>2 DEF LoadError
      <4> QED BY <1>0, <3>1, <4>1 DEF CarriesTruth, Error, Pending, Result
    <3>3. CASE flight'[k] = Loaded(k, db[IdOf[k]])
      <4>1. CASE db[IdOf[k]] = None
        <5>1. flight'[k].at = "deliver" /\ flight'[k].out = NotFound
          BY <3>3, <4>1 DEF Loaded
        <5> QED BY <1>0, <3>1, <4>1, <5>1
                DEF CarriesTruth, NotFound, Pending, Result
      <4>2. CASE db[IdOf[k]] # None
        <5>1. /\ flight'[k].at = "fill" /\ flight'[k].val = db[IdOf[k]]
              /\ flight'[k].out = Found(db[IdOf[k]])
          BY <3>3, <4>2 DEF Loaded
        <5>2. db[IdOf[k]] \in history[IdOf[k]]
          BY <4>2 DEF Committed
        <5> QED BY <1>0, <3>1, <5>1, <5>2
                DEF CarriesTruth, Found, Pending, Result
      <4> QED BY <4>1, <4>2
    <3> QED BY <2>2, <3>2, <3>3 DEF FlightFind
  <2>3. CASE j = k /\ FlightFill(k)
    <3>1. /\ flight[k].at = "fill" /\ flight'[k].at = "deliver"
          /\ flight'[k].out = flight[k].out /\ UNCHANGED <<db, history>>
      BY <2>3 DEF FlightFill, mongo
    <3> QED BY <1>0, <3>1 DEF CarriesTruth
  <2>4. CASE j = k /\ FlightDeliver(k)
    BY <1>2, <2>4 DEF FlightDeliver, Forgotten
  <2> QED BY <1>5, <2>1, <2>2, <2>3, <2>4
<1>6. CASE Crash
  BY <1>2, <1>6 DEF Crash
<1>7. CASE UNCHANGED flight
  BY <1>1, <1>7
<1> QED BY <1>3, <1>4, <1>5, <1>6, <1>7
        DEF Next, Write, Local, Load, Begin, MongoWrite, MongoUnacknowledged,
            MongoFails, CacheWrite, Publish, CacheGet, CacheGetJSON, Receive,
            Return, Expire, LateCommand, StrayWrite, vars

(* AnswersTruthful: what a call returns.                                    *)
LEMMA AnswersStep ==
  ASSUME IInv, TypeOK', [Next]_vars
  PROVE  AnswersTruthful'
<1> USE StoreStep, RequestKey
    DEF IInv, TypeOK, CallType, Goto, Finish, AnswersTruthful, UserId, Shape,
        KnownUser, NoReq
<1>1. ASSUME NEW t \in Thread, NEW r \in Request, Begin(t, r)
      PROVE  AnswersTruthful'
  BY <1>1 DEF Begin
<1>2. ASSUME NEW t \in Thread,
             \/ MongoWrite(t) \/ MongoUnacknowledged(t) \/ MongoFails(t)
      PROVE  AnswersTruthful'
  BY <1>2 DEF MongoWrite, MongoUnacknowledged, MongoFails, Result, Error
<1>3. ASSUME NEW t \in Thread,
             \/ CacheWrite(t) \/ Publish(t)
      PROVE  AnswersTruthful'
  BY <1>3 DEF CacheWrite, Publish, Result, OK
<1>4. ASSUME NEW t \in Thread, CacheGetJSON(t)
      PROVE  AnswersTruthful'
  BY <1>4 DEF CacheGetJSON, Committed, Result, Found, Blank
<1>5. ASSUME NEW t \in Thread,
             \/ CacheGet(t) \/ DoChan(t) \/ Receive(t)
      PROVE  AnswersTruthful'
  BY <1>5 DEF CacheGet, DoChan, Receive
<1>6. ASSUME NEW t \in Thread, GiveUp(t)
      PROVE  AnswersTruthful'
  BY <1>6 DEF GiveUp, Error, Result
<1>7. ASSUME NEW t \in Thread, Cancel(t)
      PROVE  AnswersTruthful'
  BY <1>7 DEF Cancel, client
<1>8. ASSUME NEW t \in Thread, Return(t)
      PROVE  AnswersTruthful'
  BY <1>8 DEF Return, Pending, Result
<1>9. ASSUME NEW k \in Key,
             \/ FlightFind(k) \/ FlightFill(k) \/ Expire(k)
      PROVE  AnswersTruthful'
  BY <1>9 DEF FlightFind, FlightFill, Expire, client
<1>10. ASSUME NEW k \in Key, FlightDeliver(k)
      PROVE  AnswersTruthful'
  BY <1>10
     DEF FlightDeliver, Recipients, FlightMembership, FlightTruthful,
         CarriesTruth, GroupKey
<1>11. ASSUME Crash
      PROVE  AnswersTruthful'
  BY <1>11 DEF Crash, Pending, Result
<1>12. ASSUME UNCHANGED vars
      PROVE  AnswersTruthful'
  BY <1>12 DEF vars, client
<1>13. ASSUME \/ \E c \in late : LateCommand(c)
              \/ \E r \in stray : StrayWrite(r)
      PROVE  AnswersTruthful'
  BY <1>13 DEF LateCommand, StrayWrite, client
<1> QED BY <1>1, <1>2, <1>3, <1>4, <1>5, <1>6, <1>7, <1>8, <1>9, <1>10, <1>11,
           <1>12, <1>13
        DEF Next, Write, Local, Load

(* StaleOnlyExplained: why an entry is not MongoDB's document.              *)
\* No write that still has to remove an entry stops short of it.
StillInvalidating ==
  \A t \in Thread : Invalidating(t) => Invalidating(t)' /\ req'[t] = req[t]

(* An entry that no step touches keeps its explanation.                     *)
LEMMA StaleFrame ==
  ASSUME StaleOnlyExplained, StillInvalidating, NEW k \in Key,
         cache'[k] = cache[k], cause'[k] = cause[k], db'[IdOf[k]] = db[IdOf[k]],
         Stale(k)', cause'[k] = "none"
  PROVE  \E t \in Thread : Invalidating(t)' /\ req'[t].key = k
BY DEF StaleOnlyExplained, Stale, StillInvalidating

(* StaleOnlyExplained, step by step.                                        *)
LEMMA StaleStep ==
  ASSUME IInv, TypeOK', [Next]_vars
  PROVE  StaleOnlyExplained'
<1> USE DEF IInv, TypeOK, CallType, Goto, Finish
<1> SUFFICES ASSUME NEW k \in Key, Stale(k)', cause'[k] = "none"
             PROVE  \E t \in Thread : Invalidating(t)' /\ req'[t].key = k
  BY DEF StaleOnlyExplained
<1>1. ASSUME StillInvalidating, UNCHANGED <<cache, cause, db>>
      PROVE  \E t \in Thread : Invalidating(t)' /\ req'[t].key = k
  BY <1>1, StaleFrame
<1>2. ASSUME NEW t \in Thread, NEW r \in Request, Begin(t, r)
      PROVE  StillInvalidating /\ UNCHANGED <<cache, cause, db>>
  BY <1>2 DEF Begin, mongo, redis, StillInvalidating, Invalidating
<1>3. ASSUME NEW t \in Thread,
             \/ MongoFails(t) \/ Publish(t) \/ CacheGet(t) \/ CacheGetJSON(t)
             \/ DoChan(t) \/ Receive(t) \/ GiveUp(t) \/ Return(t) \/ Cancel(t)
      PROVE  StillInvalidating /\ UNCHANGED <<cache, cause, db>>
  BY <1>3 DEF MongoFails, Publish, CacheGet, CacheGetJSON, DoChan, Receive,
              GiveUp, Return, Cancel, mongo, redis, client, StillInvalidating,
              Invalidating
<1>4. ASSUME NEW j \in Key, FlightFind(j) \/ FlightDeliver(j)
      PROVE  StillInvalidating /\ UNCHANGED <<cache, cause, db>>
  BY <1>4 DEF FlightFind, FlightDeliver, mongo, redis, client,
              StillInvalidating, Invalidating
<1>5. CASE UNCHANGED vars
  <2>1. StillInvalidating /\ UNCHANGED <<cache, cause, db>>
    BY <1>5 DEF vars, mongo, redis, client, StillInvalidating, Invalidating
  <2> QED BY <2>1, <1>1
<1>6. ASSUME NEW t \in Thread, MongoWrite(t)
      PROVE  \E u \in Thread : Invalidating(u)' /\ req'[u].key = k
  <2>1. StillInvalidating
    BY <1>6 DEF MongoWrite, StillInvalidating, Invalidating
  <2>2. UNCHANGED <<cache, req>> /\ pc'[t] = "cache" /\ pc[t] = "mongo"
    BY <1>6 DEF MongoWrite
  <2>3. CASE IdOf[k] # UserId(t)
    <3>1. db'[IdOf[k]] = db[IdOf[k]] /\ cause'[k] = cause[k]
      <4>1. /\ IdOf[req[t].key] # IdOf[k]
            /\ cause'[k] = cause[k]
        BY <1>6, <2>2, <2>3 DEF MongoWrite, Miss, SpellingsOf, UserId
      <4>2. \E v : db' = [db EXCEPT ![IdOf[req[t].key]] = v]
        BY <1>6 DEF MongoWrite, Commit
      <4> QED BY <4>1, <4>2 DEF StoreType
    <3> QED BY <2>1, <2>2, <3>1, StaleFrame
  <2>4. CASE IdOf[k] = UserId(t) /\ k # req[t].key
    <3>1. cause'[k] = "missed" \/ cache'[k] = None
      BY <1>6, <2>2, <2>4 DEF MongoWrite, Miss, SpellingsOf
    <3> QED BY <3>1 DEF Stale
  <2>5. CASE k = req[t].key /\ req[t].op = "create"
    <3>1. history[IdOf[k]] = {}
      BY <2>2, <2>5 DEF KnownUser, UserId
    <3>2. cache'[k] = None
      BY <2>2, <3>1 DEF Committed
    <3> QED BY <3>2 DEF Stale
  <2>6. CASE k = req[t].key /\ req[t].op # "create"
    <3>1. req[t].op \in {"update", "delete"}
      BY <2>2, <2>6, RequestKey DEF Shape, Request, AllOps
    <3> QED BY <2>2, <2>6, <3>1 DEF Invalidating
  <2> QED BY <2>3, <2>4, <2>5, <2>6
<1>7. ASSUME NEW t \in Thread, MongoUnacknowledged(t)
      PROVE  \E u \in Thread : Invalidating(u)' /\ req'[u].key = k
  <2>1. StillInvalidating
    BY <1>7 DEF MongoUnacknowledged, StillInvalidating, Invalidating
  <2>2. UNCHANGED <<cache, req>> /\ pc[t] = "mongo"
    BY <1>7 DEF MongoUnacknowledged
  <2>3. CASE IdOf[k] # UserId(t)
    <3>1. db'[IdOf[k]] = db[IdOf[k]] /\ cause'[k] = cause[k]
      <4>1. /\ IdOf[req[t].key] # IdOf[k]
            /\ cause'[k] = cause[k]
        BY <1>7, <2>2, <2>3 DEF MongoUnacknowledged, Miss, SpellingsOf, UserId
      <4>2. \E v : db' = [db EXCEPT ![IdOf[req[t].key]] = v]
        BY <1>7 DEF MongoUnacknowledged, Commit
      <4> QED BY <4>1, <4>2 DEF StoreType
    <3> QED BY <2>1, <2>2, <3>1, StaleFrame
  <2>4. CASE IdOf[k] = UserId(t)
    <3>1. cause'[k] = "missed" \/ cache'[k] = None
      BY <1>7, <2>2, <2>4 DEF MongoUnacknowledged, Miss, SpellingsOf
    <3> QED BY <3>1 DEF Stale
  <2> QED BY <2>3, <2>4
<1>8. ASSUME NEW t \in Thread, CacheWrite(t)
      PROVE  \E u \in Thread : Invalidating(u)' /\ req'[u].key = k
  <2>1. UNCHANGED <<db, req>>
    BY <1>8 DEF CacheWrite, mongo
  <2>2. \A u \in Thread : Invalidating(u) /\ u # t => Invalidating(u)'
    BY <1>8 DEF CacheWrite, Invalidating
  <2>3. CASE k = req[t].key
    <3>1. CASE TouchCache(t)
      <4>1. \/ cache'[k] = None \/ cause'[k] = "late fill"
            \/ cache'[k] = db[IdOf[k]]
        <5>1. CASE Set(req[t].key, ver[t])
          BY <2>3, <5>1 DEF Set, RedisType
        <5>2. CASE Remove(req[t].key)
          BY <2>3, <5>2 DEF Remove, RedisType
        <5> QED BY <3>1, <5>1, <5>2 DEF TouchCache
      <4> QED BY <2>1, <4>1 DEF Stale
    <3>2. CASE /\ UNCHANGED cache
               /\ Miss(IF req[t].op = "create" THEN {} ELSE {req[t].key})
      <4>1. CASE req[t].op = "create"
        <5>1. StillInvalidating
          BY <2>1, <2>2, <4>1 DEF StillInvalidating, Invalidating
        <5>2. UNCHANGED cache /\ cause'[k] = cause[k]
          BY <3>2, <4>1 DEF Miss
        <5> QED BY <2>1, <5>1, <5>2, StaleFrame
      <4>2. CASE req[t].op # "create"
        <5>1. cause'[k] = "missed" \/ cache'[k] = None
          BY <2>3, <3>2, <4>2 DEF Miss, RedisType
        <5> QED BY <5>1 DEF Stale
      <4> QED BY <4>1, <4>2
    <3> QED BY <1>8, <3>1, <3>2 DEF CacheWrite
  <2>4. CASE k # req[t].key
    <3>1. cache'[k] = cache[k] /\ cause'[k] = cause[k]
      <4>1. CASE Set(req[t].key, ver[t])
        BY <2>4, <4>1 DEF Set, RedisType
      <4>2. CASE Remove(req[t].key)
        BY <2>4, <4>2 DEF Remove, RedisType
      <4>3. CASE /\ UNCHANGED cache
                 /\ Miss(IF req[t].op = "create" THEN {} ELSE {req[t].key})
        BY <2>4, <4>3 DEF Miss
      <4> QED BY <1>8, <4>1, <4>2, <4>3 DEF CacheWrite, TouchCache
    <3>2. PICK u \in Thread : Invalidating(u) /\ req[u].key = k
      BY <2>1, <3>1 DEF StaleOnlyExplained, Stale
    <3> QED BY <2>1, <2>2, <2>4, <3>2
  <2> QED BY <2>3, <2>4
<1>9. ASSUME NEW j \in Key, FlightFill(j) \/ Expire(j)
      PROVE  \E u \in Thread : Invalidating(u)' /\ req'[u].key = k
  <2>1. StillInvalidating /\ UNCHANGED db
    BY <1>9 DEF FlightFill, Expire, mongo, client, StillInvalidating,
       Invalidating
  <2>2. \/ cache'[k] = cache[k] /\ cause'[k] = cause[k]
        \/ cache'[k] = None
        \/ cause'[k] = "none" /\ cache'[k] = db[IdOf[k]]
        \/ cause'[k] = "late fill"
    <3>1. CASE FlightFill(j) /\ UNCHANGED entries
      BY <3>1
    <3>2. CASE FlightFill(j) /\ Set(j, flight[j].val)
      BY <3>2 DEF Set, RedisType
    <3>3. CASE Expire(j)
      BY <3>3 DEF Expire, Remove, RedisType
    <3> QED BY <1>9, <3>1, <3>2, <3>3 DEF FlightFill
  <2> QED BY <2>1, <2>2, StaleFrame DEF Stale
<1>10. CASE Crash
  <2>1. UNCHANGED <<db, cache>>
    BY <1>10 DEF Crash, mongo
  <2>2. ASSUME NEW u \in Thread, Invalidating(u), req[u].key = k
        PROVE  cause'[k] = "missed" \/ cache'[k] = None
    BY <1>10, <2>1, <2>2 DEF Crash, Miss
  <2>3. cause'[k] = "none" => cause[k] = "none"
    BY <1>10 DEF Crash, Miss
  <2> QED BY <2>1, <2>2, <2>3 DEF StaleOnlyExplained, Stale
<1>11. ASSUME NEW c \in late, LateCommand(c)
       PROVE  \E u \in Thread : Invalidating(u)' /\ req'[u].key = k
  <2>1. StillInvalidating /\ UNCHANGED db
    BY <1>11 DEF LateCommand, mongo, client, StillInvalidating, Invalidating
  <2>2. \/ cache'[k] = cache[k] /\ cause'[k] = cause[k]
        \/ cache'[k] = None
        \/ cause'[k] = "none" /\ cache'[k] = db[IdOf[k]]
        \/ cause'[k] = "late fill"
    <3>1. CASE UNCHANGED entries
      BY <3>1
    <3>2. CASE Set(c.key, c.val)
      BY <3>2 DEF Set, RedisType
    <3>3. CASE Remove(c.key)
      BY <3>3 DEF Remove, RedisType
    <3> QED BY <1>11, <3>1, <3>2, <3>3 DEF LateCommand
  <2> QED BY <2>1, <2>2, StaleFrame DEF Stale
<1>12. ASSUME NEW r \in stray, StrayWrite(r)
       PROVE  \E u \in Thread : Invalidating(u)' /\ req'[u].key = k
  <2>1. StillInvalidating /\ UNCHANGED cache
    BY <1>12 DEF StrayWrite, client, StillInvalidating, Invalidating
  <2>2. CASE UNCHANGED <<store, cause>>
    BY <1>1, <2>1, <2>2
  <2>3. CASE Commit(r) /\ Miss(SpellingsOf(IdOf[r.key]))
    <3>1. CASE IdOf[k] = IdOf[r.key]
      <4>1. cause'[k] = "missed" \/ cache'[k] = None
        BY <2>1, <2>3, <3>1 DEF Miss, SpellingsOf
      <4> QED BY <4>1 DEF Stale
    <3>2. CASE IdOf[k] # IdOf[r.key]
      <4>1. cause'[k] = cause[k] /\ \E v : db' = [db EXCEPT ![IdOf[r.key]] = v]
        BY <2>3, <3>2 DEF Miss, SpellingsOf, Commit
      <4>2. db'[IdOf[k]] = db[IdOf[k]]
        BY <3>2, <4>1 DEF StoreType
      <4> QED BY <2>1, <4>1, <4>2, StaleFrame
    <3> QED BY <3>1, <3>2
  <2> QED BY <1>12, <2>2, <2>3 DEF StrayWrite
<1> QED BY <1>1, <1>2, <1>3, <1>4, <1>5, <1>6, <1>7, <1>8, <1>9, <1>10, <1>11,
           <1>12
        DEF Next, Write, Local, Load

(* The initial state.                                                       *)
LEMMA InitIInv == Init => IInv
<1> SUFFICES ASSUME Init PROVE IInv
  OBVIOUS
<1>1. TypeOK
  BY ResultType, NoFlightType, NoReqType
     DEF Init, TypeOK, StoreType, RedisType, CallType, EventType, None
<1>2. Committed /\ KnownUser /\ StrayKnown /\ StaleOnlyExplained
  BY DEF Init, Committed, KnownUser, StrayKnown, StaleOnlyExplained, Stale,
         None
<1>3. Shape /\ AnswersTruthful
  BY DEF Init, Shape, AnswersTruthful, Pending, Result
<1>4. FlightTruthful /\ FlightMembership
  BY DEF Init, FlightTruthful, CarriesTruth, FlightMembership, NoFlight
<1> QED BY <1>1, <1>2, <1>3, <1>4 DEF IInv

(* The invariant holds in every reachable state.                            *)
LEMMA Inductive == Safety => []IInv
<1>1. IInv /\ TypeOK' /\ [Next]_vars => IInv'
  BY CommittedStep, ShapeStep, KnownUserStep, StrayKnownStep, FlightStep,
     MembershipStep, AnswersStep, StaleStep DEF IInv
<1> QED BY <1>1, InitIInv, TypeCorrect, PTL DEF Safety

(* GetUser answers only what MongoDB committed for the id that was asked    *)
(* for, and "does not exist" only of a user that is gone.                   *)
THEOREM Truthful == Safety => []AnswersTruthful
<1>1. IInv => AnswersTruthful
  BY DEF IInv
<1> QED BY <1>1, Inductive, PTL

(* Every stale entry has one of the named causes.                           *)
THEOREM StaleExplained == Safety => []StaleOnlyExplained
<1>1. IInv => StaleOnlyExplained
  BY DEF IInv
<1> QED BY <1>1, Inductive, PTL

(* A flight answers exactly the readers that wait for it.                   *)
THEOREM Membership == Safety => []FlightMembership
<1>1. IInv => FlightMembership
  BY DEF IInv
<1> QED BY <1>1, Inductive, PTL
=============================================================================
