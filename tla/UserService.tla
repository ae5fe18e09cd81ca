----------------------------- MODULE UserService -----------------------------
(***************************************************************************)
(* UserService of internal/service/user_service.go with the repository it  *)
(* calls (internal/repository/user_repo.go): request goroutines that write *)
(* MongoDB, then touch the Redis cache, then publish to Kafka, and readers *)
(* that go to Redis first and load a missing user from MongoDB through a   *)
(* singleflight group.                                                     *)
(*                                                                         *)
(* A user document is the number of the MongoDB commit that wrote it; None *)
(* is "no document" and "no cache entry".  A call of FallbackCache is one  *)
(* step, in which it takes effect or is dropped; a copy of its command may *)
(* stay behind and run at any time after that, as BestEffortCache warns.   *)
(* The cache key is "user:" and the spelling of the id that the call uses, *)
(* and that spelling is also the partition key of the call's event.        *)
(***************************************************************************)
EXTENDS UserCalls, Sequences, FiniteSets

CONSTANTS
  NoThread,
  Faults,      \* what the environment does: a subset of AllFaults
  MaxCommits,  \* bound: writes to MongoDB
  MaxLate,     \* bound: Redis commands under way that nobody waits for
  MaxStray     \* bound: MongoDB writes under way that nobody waits for

AllFaults == {"expire", "redis", "mongo", "kafka", "cancel", "crash"}

ASSUME ServiceAssumption ==
  /\ NoThread \notin Thread
  /\ Faults \subseteq AllFaults
  /\ {MaxCommits, MaxLate, MaxStray} \subseteq Nat

VARIABLES
  db,         \* MongoDB: db[i], the document of user i
  commits,    \* MongoDB: commits so far
  stray,      \* MongoDB: writes it may still apply, given up by their calls
  cache,      \* Redis: cache[k]
  late,       \* Redis: copies of SETs and DELs (of None) it may still run
  topic,      \* Kafka: topic[k], the partition of message key k, by offset
  pc, req,    \* control point and request of each goroutine
  ver,        \* the commit its write made
  res,        \* what its call returns; for a waiting reader, its channel
  cancelled,  \* goroutines whose context is done
  flight,     \* the singleflight group: flight[k]
  history,    \* history: history[i], the commits made to user i
  returned,   \* history: commits whose call has returned success
  before,     \* history: before[t], `returned' when the write of t began
  cause       \* history: cause[k], how the entry under k became stale

store == <<db, commits, history>>
mongo == <<store, stray>>
entries == <<cache, cause>>
redis == <<entries, late>>
client == <<pc, req, ver, res>>
vars == <<mongo, redis, topic, client, cancelled, flight, returned, before>>

NoFlight == [at |-> "none", leader |-> NoThread, dead |-> FALSE,
             val |-> None, out |-> Pending, waiters |-> {}]

Flights == [at : {"none", "find", "fill", "deliver"},
            leader : Thread \cup {NoThread}, dead : BOOLEAN,
            val : Nat, out : Results, waiters : SUBSET Thread]

StoreType ==
  /\ commits \in Nat
  /\ db \in [Id -> Nat]
  /\ history \in [Id -> SUBSET Nat]
  /\ stray \in SUBSET Request

RedisType ==
  /\ cache \in [Key -> Nat]
  /\ cause \in [Key -> {"none", "late fill", "missed"}]
  /\ late \in SUBSET [key : Key, val : Nat]

CallType ==
  /\ pc \in [Thread -> {"idle", "get", "getJSON", "join", "wait", "mongo",
                        "cache", "publish", "done"}]
  /\ req \in [Thread -> Request \cup {NoReq}]
  /\ \A t \in Thread : req[t] = NoReq <=> pc[t] = "idle"
  /\ ver \in [Thread -> Nat]
  /\ res \in [Thread -> Results]
  /\ cancelled \in SUBSET Thread

EventType ==
  /\ topic \in [Key -> Seq([ver : Nat, before : SUBSET Nat])]
  /\ returned \in SUBSET Nat
  /\ before \in [Thread -> SUBSET Nat]

TypeOK ==
  /\ StoreType
  /\ RedisType
  /\ CallType
  /\ EventType
  /\ flight \in [Key -> Flights]

Init ==
  /\ db = [i \in Id |-> None]
  /\ commits = 0
  /\ stray = {}
  /\ cache = [k \in Key |-> None]
  /\ late = {}
  /\ topic = [k \in Key |-> <<>>]
  /\ pc = [t \in Thread |-> "idle"]
  /\ req = [t \in Thread |-> NoReq]
  /\ ver = [t \in Thread |-> None]
  /\ res = [t \in Thread |-> Pending]
  /\ cancelled = {}
  /\ flight = [k \in Key |-> NoFlight]
  /\ history = [i \in Id |-> {}]
  /\ returned = {}
  /\ before = [t \in Thread |-> {}]
  /\ cause = [k \in Key |-> "none"]

-----------------------------------------------------------------------------
(* Calls and the two stores.                                               *)
Goto(t, from, to) ==
  /\ pc[t] = from
  /\ pc' = [pc EXCEPT ![t] = to]

Finish(t, from, r) ==
  /\ Goto(t, from, "done")
  /\ res' = [res EXCEPT ![t] = r]

UserId(t) == IdOf[req[t].key]

\* A user can be asked for once MongoDB holds it (ListUsers shows its id);
\* CreateUser uses an id nobody has.
Fresh(k) ==
  /\ history[IdOf[k]] = {}
  /\ \A u \in Thread : pc[u] # "idle" => UserId(u) # IdOf[k]
  /\ \A r \in stray : IdOf[r.key] # IdOf[k]

Writing == {u \in Thread : pc[u] = "mongo"}

Begin(t, r) ==
  /\ IF r.op = "create" THEN Fresh(r.key) ELSE history[IdOf[r.key]] # {}
  /\ \/ r.op = "get"
     \/ commits + Cardinality(Writing) + Cardinality(stray) < MaxCommits
     \/ r.op # "create" /\ db[IdOf[r.key]] = None   \* commits nothing
  /\ Goto(t, "idle", IF r.op = "get" THEN "get" ELSE "mongo")
  /\ req' = [req EXCEPT ![t] = r]
  /\ before' = [before EXCEPT ![t] = IF r.op = "get" THEN {} ELSE returned]
  /\ UNCHANGED <<mongo, redis, topic, ver, res, cancelled, flight, returned>>

Return(t) ==
  /\ Goto(t, "done", "idle")
  /\ returned' = IF res[t] = OK THEN returned \cup {ver[t]} ELSE returned
  /\ req' = [req EXCEPT ![t] = NoReq]
  /\ ver' = [ver EXCEPT ![t] = None]
  /\ res' = [res EXCEPT ![t] = Pending]
  /\ before' = [before EXCEPT ![t] = {}]
  /\ cancelled' = cancelled \ {t}
  /\ UNCHANGED <<mongo, redis, topic, flight>>

\* A command is lost when its context is done or its server fails.
LostBy(server, ctxDone) == ctxDone \/ server \in Faults
Lost(t, server) == LostBy(server, t \in cancelled)

Stale(k) == cache[k] \notin {None, db[IdOf[k]]}

Set(k, v) ==
  /\ cache' = [cache EXCEPT ![k] = v]
  /\ cause' = [cause EXCEPT ![k] =
                 IF v = db[IdOf[k]] THEN "none" ELSE "late fill"]

Remove(k) ==
  /\ cache' = [cache EXCEPT ![k] = None]
  /\ cause' = [cause EXCEPT ![k] = "none"]

\* The client missed a reply: a copy of the command may still run, whether or
\* not a later attempt was answered.
MayLinger(k, v) ==
  \/ UNCHANGED late
  \/ /\ "redis" \in Faults /\ Cardinality(late) < MaxLate
     /\ late' = late \cup {[key |-> k, val |-> v]}

\* The entries under keys K outlive a write to their user.
Miss(K) ==
  cause' = [k \in Key |-> IF k \in K /\ cache[k] # None THEN "missed"
                                                        ELSE cause[k]]

-----------------------------------------------------------------------------
(* CreateUser, UpdateUser, DeleteUser: MongoDB -> Redis -> Kafka.          *)
\* userRepo.Update and userRepo.Delete report a user MongoDB does not hold.
AnyMatches(r) == TRUE                    \* mutant: MatchedCount not looked at
Matches(r) == r.op = "create" \/ db[IdOf[r.key]] # None

Commit(r) ==
  /\ Matches(r)
  /\ commits' = commits + 1
  /\ db' = [db EXCEPT ![IdOf[r.key]] =
              IF r.op = "delete" THEN None ELSE commits']
  /\ history' = [history EXCEPT ![IdOf[r.key]] = @ \cup {commits'}]

SpellingsOf(i) == {k \in Key : IdOf[k] = i}

MongoWrite(t) ==
  /\ t \notin cancelled
  /\ Goto(t, "mongo", "cache")
  /\ Commit(req[t])
  /\ ver' = [ver EXCEPT ![t] = commits']
  /\ Miss(SpellingsOf(UserId(t)) \ {req[t].key})
  /\ UNCHANGED <<stray, cache, late, topic, req, res, cancelled, flight,
                 returned, before>>

\* The write is applied, but its acknowledgement is not received: the call
\* returns the error and leaves the cache alone.
MongoUnacknowledged(t) ==
  /\ Lost(t, "mongo")
  /\ Finish(t, "mongo", Error)
  /\ Commit(req[t])
  /\ ver' = [ver EXCEPT ![t] = commits']
  /\ Miss(SpellingsOf(UserId(t)))
  /\ UNCHANGED <<stray, cache, late, topic, req, cancelled, flight, returned,
                 before>>

\* The write has not been applied when its call returns the error; one that
\* was sent may be applied later.
MongoFails(t) ==
  /\ Finish(t, "mongo", Error)
  /\ \/ /\ Lost(t, "mongo") \/ ~Matches(req[t])
        /\ UNCHANGED stray
     \/ /\ Lost(t, "mongo") /\ Cardinality(stray) < MaxStray
        /\ stray' = stray \cup {req[t]}
  /\ UNCHANGED <<store, redis, topic, req, ver, cancelled, flight, returned,
                 before>>

\* SetWithFallback after a create, DeleteWithFallback after the others.
NoInvalidation(t) ==                     \* mutant: the old entry is kept
  /\ UNCHANGED cache
  /\ Miss({})
CacheValue(t) == IF req[t].op = "create" THEN ver[t] ELSE None
TouchCache(t) ==
  IF req[t].op = "create" THEN Set(req[t].key, ver[t]) ELSE Remove(req[t].key)

CacheWrite(t) ==
  /\ Goto(t, "cache", "publish")
  /\ \/ t \notin cancelled /\ TouchCache(t)
     \/ /\ Lost(t, "redis")
        /\ UNCHANGED cache
        /\ Miss(IF req[t].op = "create" THEN {} ELSE {req[t].key})
  /\ MayLinger(req[t].key, CacheValue(t))
  /\ UNCHANGED <<mongo, topic, req, ver, res, cancelled, flight, returned,
                 before>>

\* PublishUserEvent waits for the broker; its error is only logged.  The
\* message key is the id as the call spells it: the caller's own spelling in
\* DeleteUser, the canonical one in the others.  A key has one partition.
EnqueueUnkeyed(k, e) == [topic EXCEPT ![k] = <<e>> \o @]  \* mutant: overtakes
Enqueue(k, e) == [topic EXCEPT ![k] = Append(@, e)]

Publish(t) ==
  /\ Finish(t, "publish", OK)
  /\ \/ topic' = Enqueue(req[t].key, [ver |-> ver[t], before |-> before[t]])
     \/ "kafka" \in Faults /\ UNCHANGED topic
  /\ UNCHANGED <<mongo, redis, req, ver, cancelled, flight, returned, before>>

-----------------------------------------------------------------------------
(* GetUser.                                                                *)
CacheGet(t) ==
  /\ pc[t] = "get"
  /\ \/ /\ t \notin cancelled /\ cache[req[t].key] # None
        /\ Goto(t, "get", "getJSON")
     \/ /\ Lost(t, "redis") \/ cache[req[t].key] = None
        /\ Goto(t, "get", "join")
  /\ UNCHANGED <<mongo, redis, topic, req, ver, res, cancelled, flight,
                 returned, before>>

\* GetCache().GetJSON reads the key again.  A key that is gone is no error:
\* the user stays the zero value, and its ID.Hex() is not empty.
CacheGetJSON(t) ==
  /\ pc[t] = "getJSON"
  /\ \/ /\ t \notin cancelled
        /\ Finish(t, "getJSON", IF cache[req[t].key] = None
                                THEN Blank ELSE Found(cache[req[t].key]))
     \/ /\ Lost(t, "redis")
        /\ Goto(t, "getJSON", "join")
        /\ UNCHANGED res
  /\ UNCHANGED <<mongo, redis, topic, req, ver, cancelled, flight, returned,
                 before>>

\* The key of the singleflight call.
OneGroupKey(k) == CHOOSE g \in Key : TRUE   \* mutant: all users share a call
GroupKey(k) == k

\* group.DoChan: start a call under this goroutine's context, or join.
Started(t) == [NoFlight EXCEPT !.at = "find", !.leader = t,
                 !.dead = t \in cancelled, !.waiters = {t}]
Joined(g, t) == [flight[g] EXCEPT !.waiters = @ \cup {t}]

DoChan(t) ==
  /\ Goto(t, "join", "wait")
  /\ \E g \in {GroupKey(req[t].key)} :
       flight' = [flight EXCEPT ![g] = IF flight[g].at = "none" THEN Started(t)
                                                             ELSE Joined(g, t)]
  /\ UNCHANGED <<mongo, redis, topic, req, ver, res, cancelled, returned,
                 before>>

\* select: the result, or ctx.Done.
Receive(t) ==
  /\ res[t] # Pending
  /\ Goto(t, "wait", "done")
  /\ UNCHANGED <<mongo, redis, topic, req, ver, res, cancelled, flight,
                 returned, before>>

DeafSelect(t) == FALSE                      \* mutant: no case <-ctx.Done()
CtxDone(t) == t \in cancelled

GiveUp(t) ==
  /\ CtxDone(t)
  /\ Finish(t, "wait", Error)
  /\ flight' = [k \in Key |-> [flight[k] EXCEPT !.waiters = @ \ {t}]]
  /\ UNCHANGED <<mongo, redis, topic, req, ver, cancelled, returned, before>>

\* The singleflight function: GetByID, SetWithFallback, and the result.
Loaded(k, v) ==
  IF v = None THEN [flight[k] EXCEPT !.at = "deliver", !.out = NotFound]
              ELSE [flight[k] EXCEPT !.at = "fill", !.val = v, !.out = Found(v)]
LoadError(k) == [flight[k] EXCEPT !.at = "deliver", !.out = Error]

FlightFind(k) ==
  /\ flight[k].at = "find"
  /\ \/ /\ ~flight[k].dead
        /\ flight' = [flight EXCEPT ![k] = Loaded(k, db[IdOf[k]])]
     \/ /\ LostBy("mongo", flight[k].dead)
        /\ flight' = [flight EXCEPT ![k] = LoadError(k)]
  /\ UNCHANGED <<mongo, redis, topic, client, cancelled, returned, before>>

FlightFill(k) ==
  /\ flight[k].at = "fill"
  /\ flight' = [flight EXCEPT ![k].at = "deliver"]
  /\ \/ ~flight[k].dead /\ Set(k, flight[k].val)
     \/ LostBy("redis", flight[k].dead) /\ UNCHANGED entries
  /\ MayLinger(k, flight[k].val)
  /\ UNCHANGED <<mongo, topic, client, cancelled, returned, before>>

\* doCall sends the result on the channel of every caller that joined, and
\* takes the call out of the group.
KeptInGroup == [NoFlight EXCEPT !.at = "done"]               \* mutant
Forgotten == NoFlight
LeaderOnly(k) == flight[k].waiters \cap {flight[k].leader}   \* mutant: Do
Recipients(k) == flight[k].waiters

FlightDeliver(k) ==
  /\ flight[k].at = "deliver"
  /\ res' = [t \in Thread |-> IF t \in Recipients(k) THEN flight[k].out
                                                     ELSE res[t]]
  /\ flight' = [flight EXCEPT ![k] = Forgotten]
  /\ UNCHANGED <<mongo, redis, topic, pc, req, ver, cancelled, returned,
                 before>>

-----------------------------------------------------------------------------
(* Environment.                                                            *)
\* A caller goes away: its context, and the flight it leads, are cancelled.
Cancel(t) ==
  /\ "cancel" \in Faults
  /\ pc[t] \notin {"idle", "done"}
  /\ cancelled' = cancelled \cup {t}
  /\ flight' = [k \in Key |-> IF flight[k].leader = t
                              THEN [flight[k] EXCEPT !.dead = TRUE]
                              ELSE flight[k]]
  /\ UNCHANGED <<mongo, redis, topic, client, returned, before>>

\* Every entry is written with a TTL of ten minutes.
NoTTL == FALSE                              \* mutant: Set without expiry
CarriesTTL == TRUE

Expire(k) ==
  /\ "expire" \in Faults /\ CarriesTTL
  /\ cache[k] # None
  /\ Remove(k)
  /\ UNCHANGED <<mongo, late, topic, client, cancelled, flight, returned, before>>

\* A copy left behind runs, or is lost; so does a write given up.
LateCommand(c) ==
  /\ late' = late \ {c}
  /\ \/ c.val # None /\ Set(c.key, c.val)
     \/ c.val = None /\ Remove(c.key)
     \/ UNCHANGED entries
  /\ UNCHANGED <<mongo, topic, client, cancelled, flight, returned, before>>

StrayWrite(r) ==
  /\ stray' = stray \ {r}
  /\ \/ Commit(r) /\ Miss(SpellingsOf(IdOf[r.key]))
     \/ UNCHANGED <<store, cause>>
  /\ UNCHANGED <<cache, late, topic, client, cancelled, flight, returned,
                 before>>

\* The process dies and is started again.  What it left under way is what
\* calls that failed just before have left.
Invalidating(t) == pc[t] = "cache" /\ req[t].op \in {"update", "delete"}

Crash ==
  /\ "crash" \in Faults
  /\ \E t \in Thread : pc[t] # "idle"
  /\ Miss({req[t].key : t \in {u \in Thread : Invalidating(u)}})
  /\ pc' = [t \in Thread |-> "idle"]
  /\ req' = [t \in Thread |-> NoReq]
  /\ ver' = [t \in Thread |-> None]
  /\ res' = [t \in Thread |-> Pending]
  /\ before' = [t \in Thread |-> {}]
  /\ cancelled' = {}
  /\ flight' = [k \in Key |-> NoFlight]
  /\ UNCHANGED <<mongo, cache, late, topic, returned>>

-----------------------------------------------------------------------------
Write(t) ==
  \/ MongoWrite(t)
  \/ MongoUnacknowledged(t)
  \/ MongoFails(t)

Local(t) ==
  \/ CacheWrite(t)
  \/ Publish(t)
  \/ CacheGet(t)
  \/ CacheGetJSON(t)
  \/ DoChan(t)
  \/ Receive(t)
  \/ GiveUp(t)
  \/ Return(t)

Load(k) == FlightFill(k) \/ FlightDeliver(k)

Next ==
  \/ \E t \in Thread : \/ \E r \in Request : Begin(t, r)
                       \/ Write(t)
                       \/ Local(t)
                       \/ Cancel(t)
  \/ \E k \in Key : FlightFind(k) \/ Load(k) \/ Expire(k)
  \/ \E c \in late : LateCommand(c)
  \/ \E r \in stray : StrayWrite(r)
  \/ Crash

Safety == Init /\ [][Next]_vars

(* Goroutines are scheduled, and go-redis and the Kafka client bound every  *)
(* command by timeouts of their own.  MongoDB need not answer.              *)
Spec ==
  /\ Safety
  /\ \A t \in Thread : WF_vars(Local(t))
  /\ \A k \in Key : WF_vars(Load(k))

(* MongoDB answers every command; every entry meets its TTL.                *)
MongoAnswers ==
  /\ \A t \in Thread : WF_vars(Write(t))
  /\ \A k \in Key : WF_vars(FlightFind(k))
EntriesExpire == \A k \in Key : WF_vars(Expire(k))

-----------------------------------------------------------------------------
(* A user that GetUser returns is one MongoDB committed for that id, be it  *)
(* from the cache, from a flight of its own or from one it joined; and      *)
(* "does not exist" is said only of a user MongoDB no longer holds.         *)
AnswersTruthful ==
  \A t \in Thread :
    /\ res[t].kind = "user" => res[t].ver \in history[UserId(t)]
    /\ res[t].kind = "notFound" => db[UserId(t)] = None

(* A cache entry that is not MongoDB's document has one of three causes:    *)
(* the write that superseded it has not reached its cache step yet; a fill  *)
(* carried an older document past that write (GetUser's flight and          *)
(* CreateUser hold no lock between MongoDB and Redis, and a copy of a SET   *)
(* may run late); or the write never removed the entry (lost command,       *)
(* unacknowledged or stray write, crash, other spelling).                   *)
StaleOnlyExplained ==
  \A k \in Key :
    Stale(k) => \/ cause[k] # "none"
                \/ \E t \in Thread : Invalidating(t) /\ req[t].key = k

(* The callers a flight will answer are exactly the readers that wait for   *)
(* its key: none is forgotten (each call that joins through DoChan has its  *)
(* own channel), and none that has left gets a result meant for an earlier  *)
(* call.                                                                    *)
FlightMembership ==
  \A t \in Thread, k \in Key :
    t \in flight[k].waiters <=> /\ pc[t] = "wait" /\ res[t] = Pending
                                /\ GroupKey(req[t].key) = k

(* PublishUserEvent returns after the broker has the event: if one write    *)
(* call returned before another began, and both spell the user's id alike,  *)
(* their events stand in that order in one partition.  (Nothing orders a    *)
(* delete that spells the id otherwise against the user's other events.)    *)
EventsInCallOrder ==
  \A k \in Key : \A m, n \in DOMAIN topic[k] :
    m < n => topic[k][n].ver \notin topic[k][m].before

(* Once writes stop, no entry stays stale: whatever made it stale, its TTL  *)
(* ends, and a later fill reads the document that is there.                 *)
EventuallyCoherent ==
  MongoAnswers /\ EntriesExpire => \A k \in Key : <>[]~Stale(k)

(* Every call returns, in a crash at the latest: no goroutine stays in one. *)
CallsReturn ==
  MongoAnswers => \A t \in Thread : []<>(pc[t] = "idle")

(* A reader whose context is done does not stay in its wait, even if        *)
(* MongoDB never answers the flight it joined (the select of GetUser).      *)
CancelledReturns ==
  \A t \in Thread : []<>~(pc[t] = "wait" /\ t \in cancelled)

(* user_service.go:67 reads Redis, then MongoDB, and line 77 returns only   *)
(* what the cache held: no caller gets a zero user with a nil error.        *)
NoBlankUser == \A t \in Thread : res[t] # Blank

(* UserService implements UserStore: `answer' is the result of a call that  *)
(* has made up its mind, not one still in a singleflight channel.           *)
Store == INSTANCE UserStore WITH
  answer <- [t \in Thread |-> IF pc[t] = "done" THEN res[t] ELSE Pending]

ImplementsStore == Store!Safety
=============================================================================
