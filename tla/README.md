# TLA+ models of go-gateway

The repository holds a Gin gateway (HTTP and WebSocket) and a gRPC backend
that keeps users in MongoDB, caches them in Redis and announces changes on
Kafka. These modules model both programs: in the backend the user service with
its cache, the degradation protocol of the cache, batch creation, listing, the
Kafka consumer, the health check and the life of the process; in the gateway
its configuration, the middlewares, the HTTP call and the WebSocket chat that
is relayed to the backend. TLC checks small instances; TLAPS proves the main
safety properties for every value of the constants.

## 1. Inventory

| Component | State it keeps | Operations | Interacts with | What is hard |
|---|---|---|---|---|
| `internal/redis/fallback.go` FallbackCache | `degraded`, `lastCheck`, `checkMu` | Get/Set/DeleteWithFallback, IsDegraded | called by every request goroutine; PINGs Redis | double-checked lock, a clock, Redis flapping |
| `internal/redis/cache.go`, `client.go` | none (a connection pool) | Get, Set, Delete, GetJSON, Pipeline, HealthCheck | Redis | lost commands, missing keys |
| `internal/service/user_service.go` UserService | a singleflight group | CreateUser, GetUser, UpdateUser, DeleteUser, ListUsers, BatchCreateUsers | repository, FallbackCache, producer | MongoDB, Redis and Kafka are written one after the other without a transaction |
| `internal/repository/user_repo.go` | MongoDB's collection | Create, GetByID, GetByName, Update, Delete, List, BatchCreate | MongoDB | unacknowledged writes, ordered bulk writes |
| `internal/kafka/producer.go` | sarama SyncProducer | PublishUserEvent, PublishLogEvent, HealthCheck, Close | Kafka | keys and order, errors only logged |
| `internal/kafka/consumer.go` | the `ready` channel, marked offsets | Start, Setup, Cleanup, ConsumeClaim, Close | Kafka group, a message handler | rebalances, crashes, offsets, a channel replaced while it is read |
| `cmd/server/main.go` | client pointers, gRPC server | start, SayHello, ChatStream, HealthCheck, shutdown | all of the above | degraded start, parallel checks, shutdown order |
| `internal/handler/hello_ws.go` | two goroutines per socket | ChatStream | WebSocket, gRPC stream | back-pressure, half-closed streams |
| `internal/handler/hello_http.go`, `internal/client` | one connection | SayHello, dialling | gRPC | no deadline: only the caller's context ends a call |
| `internal/middleware`, `internal/router` | none | CORS, Auth, origin check, Recovery, Logger | Gin | an order of aborts, two readings of one list |
| `cmd/gateway`, `internal/config` | configuration | Load, start | viper, the backend | precedence of file and environment; no shutdown |
| `api/` | generated code | stubs and handlers of HelloService | gRPC | - |

What makes each component correct:

* **FallbackCache.** A call never fails, and its command runs no more often than the
  client sends it; at most one probe per `checkInterval`; no call acts on an older
  verdict; the mode follows Redis.
* **UserService.** A reader gets a document of the user it asked for; a stale
  cache entry has an explanation, and goes away; singleflight answers those who
  wait; calls that do not overlap, and spell the id alike, announce their changes in order.
* **BatchCreateUsers.** A bounded number of publishers, none left behind,
  whatever fails or panics; nothing is announced that is not stored.
* **Consumer.** A message is marked only after it was handled; nothing blocks
  the partition; Start ends when its context does.
* **Server.** The health answer is true of the components, also while the process
  goes down; clients are closed after the handlers and the goroutines that use
  them; a signal ends the process.
* **ListUsers.** Whoever walks through the pages misses nobody, while others write.
* **Chat relay.** What the peer sends is acknowledged once and in order, however
  little the seven buffers on the way hold; a gateway handler that ends frees the
  backend's.
* **Gateway.** No handler starts and no socket opens for a request the policy refuses; a
  request its client has abandoned is answered and logged, with the exceptions it names.

The hazards of the code, each at its line, are in `PROJECT.json`.

## 2. Modules

```
BestEffortCache  <- refined by -  FallbackCache     - MCFallbackCache, FallbackCacheProofs
UserCalls  <-  UserStore  <- refined by -  UserService  - MCUserService
                                  UserServiceProofs <- UserServiceRefinement
BatchCreate  - BatchCreateProofs          Directory  - MCDirectory
EventConsumer + ConsumerStart  -> Consumer  - MCConsumer, MCEventConsumer, ConsumerProofs
Server + HealthCheck           -> Backend   - MCBackend, MCServer, BackendProofs
ChatRelay + RequestPolicy + Configuration  -> Gateway  - MCGateway, GatewayProofs
```

**BestEffortCache** is what FallbackCache promises, and it is little: a call sends
its command `MaxRetries + 1` times at most; each copy runs once at most, not before the
call, but a copy of a write may run between the commands of two other calls or after the
call has returned; a get answers what Redis held during the call, or nothing; an error of
Redis never reaches the caller; every call returns.

**FallbackCache** is `fallback.go`, a control point per goroutine. A section
under `RLock` reads one field, so it is a single step that needs the write lock
to be free; the write lock is held across the second check, the PING and the
update of `degraded` and `lastCheck`. The clock is `sinceCheck`, saturated just
above `CheckInterval`, the only value it is compared with. A command is a sequence of
attempts: `client.go:23` leaves go-redis' `MaxRetries` at its default of three, so a SET or
DEL whose reply is missed is sent again (`Attempt`), though the first copy has run or
stays under way (`late`) and runs when others have gone on (`LateCommand`). `GiveUp` ends
it with an error that is swallowed: the attempts are used up, or the context is over.

**UserStore** is what UserService promises: a write takes effect once at most
and reports success only if it did, before it returns; one that reports an error may have
taken effect or may take effect later. A read answers some committed document of
that user, though maybe an old one, or the zero user.

**UserService** composes the service with the repository, the cache, the
singleflight group and the event partitions. A document is the number of the
commit that wrote it. A goroutine's `pc` follows `user_service.go`:

| Source | Actions |
|---|---|
| CreateUser, UpdateUser, DeleteUser: repository call | `MongoWrite`, `MongoUnacknowledged`, `MongoFails` |
| Set/DeleteWithFallback after it | `CacheWrite` |
| PublishUserEvent | `Publish` |
| GetUser lines 72 and 80 | `CacheGet`, `CacheGetJSON` |
| DoChan and the select of lines 87 to 116 | `DoChan`, `Receive`, `GiveUp` |
| the function in the flight, and singleflight's doCall | `FlightFind`, `FlightFill`, `FlightDeliver` |
| a context that is done; TTL; process restart | `Cancel`, `Expire`, `Crash` |
| a command or a write that nobody waits for any more | `LateCommand`, `StrayWrite` |

A cache call is a single step here, as FallbackCache is proved to implement
BestEffortCache: it takes effect or not, and may leave a copy in `late` that runs at any
time, also when an attempt of the call succeeded (`MayLinger`). A write that MongoDB has
not applied when its call gives up stays in `stray`. Equal copies, and equal stray writes,
count as one.

Both spellings of an id are in the model: `ObjectIDFromHex` accepts more than
`ObjectID.Hex` writes. A spelling is a cache key, a singleflight key and the key of a
Kafka message (`producer.go:70`), so `topic` has a partition for each: DeleteUser passes on
its caller's spelling (line 159), CreateUser and UpdateUser the canonical one.
`Faults` says which faults the environment has. A flight runs under its
leader's context (`dead`), so a cancelled leader fails its followers; that is
allowed by UserStore, for a read may report an error.

**BatchCreate** is `BatchCreateUsers` with `BatchCreate` of the repository: the
caller, and a goroutine per user. `sem` and `wg` are `len(sem)` and the
WaitGroup's counter. Each call makes its own semaphore, so the bound is one
call's, and a second concurrent call shares nothing with it. The pipeline goes
past the degraded check, so an error of it is possible in any mode. Its writes are all
SETs of the same documents: that one of them is repeated makes no difference there.

**EventConsumer** is `ConsumeClaim` of each member of a group on one partition.
sarama is external and modelled by what the loop sees: messages in offset order
from the committed offset, or from the end of the log if there is none
(`Offsets.Initial` is left at `OffsetNewest`); `MarkMessage` leads to a commit only
with auto-commit, which `NewConsumer` turns off; a member may fetch on after the
group gave its partition away, and takes what its channel holds after its session ended.
`overlap` records that two members worked at once.

**ConsumerStart** is `Start`: the waiting goroutine and the loop that calls
`Consume`, with the channels numbered in the order in which they are made.

**Consumer** puts both together: `Self`, one member of the group, joins and leaves by
the steps of its Start loop, the other members as they like. Consume returns
when its session is over and ConsumeClaim has returned, and Close waits for the
lock that Consume holds (`CloseWaits`); that is sarama's part.

**HealthCheck** is the RPC of that name: three goroutines, a channel of capacity
three, results collected by name while components fail and recover.

**Server** is `main`: the connections, nil clients, Serve, the signal goroutine,
the 30 second timer, the closes, and the SayHello and ChatStream handlers. grpc-go
is modelled by what main sees: GracefulStop waits for handlers, Stop cancels
them and does not wait, Serve returns once a stop is complete; until then a stream may
begin on a connection that has not seen the last GOAWAY (`Arrive`). `CloseWithContext`
ignores its context, so a close is one step that may take any time and ends.
A UserService made without Redis holds a nil cache, of which `GetUserOfNil` is the call.

**Backend** is the whole process: Server, with the request `Checker` taken by
HealthCheck. They share the clients: a check pings those main made, a close makes
the ping fail (`Closes`), and a forced Stop cancels the check's context.

**Directory** is ListUsers with `List` of the repository, a caller that walks through
the pages, and writers. A user is its `created_at`; ties are ordered anew by each
query, for `SetSort` names no other field. `Skip` is an int64, of which `MaxInt` is the largest. The
history variable `base` holds the users a walk may be asked for: those of its
start, less those a deletion has moved up a page. No RPC calls ListUsers yet, so the
caller is the contract's own: it stops at an empty page, or by the total.

**ChatRelay** is one chat: the peer, `ChatStream` of the gateway with its reader
(`hello_ws.go:106`) and its writer (`hello_ws.go:73`), and `ChatStream` of the backend.
The four legs between them are bounded FIFOs, and each of the three goroutines holds one
message at most. TCP and gRPC are external: a full leg blocks its sender, a
closed send side ends the other's Recv after what was sent before, a lost
connection (`Sever`) drops what was on its way, and a connection closed before all was read
may lose what it had still to deliver (`Reset`).

**RequestPolicy** has what CORS, Auth, the origin check and the routes decide of
one request; **Configuration** what Load makes of a file and the environment, for the two
keys that decide whether the gateway starts.

**Gateway** composes the three: `main`, then a request through Recovery, Logger, CORS and
Auth to its handler, by Gin's rule that an abort skips what is further in. A request with an
"open" body is one whose sender has not finished it: net/http learns that a client has gone
only after the body was read to its end.

| Source | Actions |
|---|---|
| cmd/gateway/main.go | `LoadConfig`, `NewHelloClient`, `Run` |
| CORSWithConfig, Auth | `CORS`, `Authenticate` |
| Logger after c.Next, Recovery | `Log`, `Panic` |
| /health, no route | `Health`, `NotFound` |
| HelloHTTPHandler.SayHello | `BindFails`, `Bind`, `CallAnswered`, `CallFails`, `CallCancelled` |
| HelloWSHandler.ChatStream | `UpgradeFails`, `Upgrade`, `Open`, ChatRelay's `Reader` and `Writer`, `RelayReturns` |

`Open` is client.ChatStream, which fails without a connection to the backend or under a
context that is over. A lost connection (`Disconnect`) ends a call and severs a chat's stream.
A panic is answered by Recovery and not logged, for logging.go defers nothing. The gateway
handles no signal: `Terminate` cuts off what is under way.

## 3. Runs

A run carries the name of its cfg. All end in two minutes with two workers.

| Run | Instance | What it shows |
|---|---|---|
| FallbackCache | 2 goroutines, 1 key, 1 retry, 1 late copy of each command | no probe too soon; no call acts on an old verdict; the mode follows Redis; BestEffortCache is implemented, with its liveness |
| UserService | 2 goroutines, 2 users of which one has two spellings, 2 commits, 1 stray write; Redis, MongoDB and Kafka fail, the process crashes | answers are of the right user, stale entries have a cause, events of one spelling are in call order, UserStore is implemented |
| UserServiceLive | 2 goroutines, 1 user of one spelling, no deletes; lost and late Redis commands (1), late MongoDB writes (1), TTLs, callers that leave | a flight answers exactly its readers; a cancelled reader leaves; calls return and entries become coherent |
| BatchCreate | 4 users, 2 slots, one call after the other | publishers are bounded and none is left by a call that returns; what is announced is stored; calls return |
| Directory | 4 users, 3 times, pages of 1 to 3, 5-bit integers, walks from three pages | a walk from the first page is complete, with the exceptions it names; a page holds what was asked for |
| Consumer | a consumer and another member, 2 messages, 2 attempts to join, cancellation at any time | marks follow the handler; at most once; nothing blocks the partition; no channel is closed twice; no handler after Start; the loop ends |
| Backend | every set of clients; a health check and another request; failures and a signal at any time | the answer is true; clients are closed after who uses them; a check is answered; a signal ends the process |
| Gateway | three configurations of the router and as many files, every kind of request, a chat of 5 messages over legs of 1 | the chat loses nothing and is answered; handlers and sockets are admitted by the policy; an abandoned request is answered and logged; the backend's handler ends |

Runs with `expect: violation` each show that one statement of a comment does not
hold of the code (`findings` in `PROJECT.json` quote it):

| Run | What TLC shows |
|---|---|
| UserServiceBlank | GetUser returns a zero user and no error when the key goes between its two reads of the cache (user_service.go:72, 80) |
| EventConsumerRetry | a message whose handler failed is never tried again (consumer.go:194) |
| ConsumerStartStuck | Start waits on a channel that nobody will close, though its context is cancelled (consumer.go:101) |
| ServerPanic | started with MongoDB and without Redis, the first SayHello ends the process (main.go:278) |

### Divergences that have no run of their own

The models contain these behaviours. Their properties are stated so that they
hold nevertheless, and a reader should not take them for more than they say.

* A read that begins after UpdateUser returned may answer the replaced document:
  the delete of user_service.go:126 can be lost, or overtaken by a fill of GetUser
  or CreateUser. Line 127 deletes the canonical key only, while GetUser
  (line 69) uses the caller's spelling of the id, so the entry of another
  spelling stays until its TTL. `StaleOnlyExplained` lists these causes, and
  `EventuallyCoherent` rests on the TTL; its run has one spelling, so that it says
  nothing of the other.
* A DEL or SET may run a second time, or after its call reported success or timed out, for the
  client repeats it (client.go:23). Such a DEL removes a newer entry, such a SET brings an
  older one back (a "late fill").
* DeleteUser announces the user under its caller's spelling (user_service.go:159), CreateUser and
  UpdateUser under the canonical one. The spelling is the message key (producer.go:70), so
  a consumer may see a deletion before the update that it followed. producer.go:69
  promises no more than that the ID is the partition key; `EventsInCallOrder` is about one spelling.
* Users given to BatchCreateUsers without an ID are cached and announced under the
  zero ObjectID (user_service.go:193, 219): the repository lets the driver add
  the ids (user_repo.go:209-215) and, unlike Create (line 63), does not put them in
  the structs. BatchCreate tells users apart by their position, not by their id.
* A message that was handled is marked but its offset is never committed
  (consumer.go:31, 197): a new session starts at the end of the log.
  `AtMostOnce` is what remains.
* The Kafka check answers nil for every producer that exists (producer.go:126-134),
  so `Truthful` claims of Kafka only that there is a client.
* An abandoned request hangs in four ways that `RequestEnds` names instead of excluding, each
  only if it lasts for ever: with both
  windows full when the peer goes away, Send blocks for ever, for the goroutine that would
  read the stream is gone (`Jammed`, hello_ws.go:120); a silent peer is not told that the backend
  is lost (`Unaware`, hello_ws.go:107); a peer that does not read blocks WriteJSON
  (`Blocked`, hello_ws.go:98); and a call does not learn that its client has gone while the
  request's body is still open (`Unnoticed`, hello_http.go:38). No deadline or ping ends them.
* A request that panics is answered but not logged: Logger writes its line after `c.Next`
  without a defer (logging.go), and Recovery is outside of it. `RequestEnds` names that, too.
* A caller that stops by the total of ListUsers misses users that were inserted
  between the count and the find (user_repo.go:175, 186), ties may be repeated or
  skipped, and a deletion moves users up a page: the exceptions of `WalkIsComplete`. A page
  far enough out wraps around (user_repo.go:172).
* router.go:23 (and docs/plans/2026-06-16-001-feat-requirement-management-system-plan.md:748) says
  that an empty list of origins allows localhost: so the WebSocket check reads it, while CORS
  (cors.go:36) lets every origin in. `Admitted` states the documented policy
  (`AllowedOrigin`) with this exception by name (`LetsAllIn`); for a socket there is none.
* config.go:91 and DOCKER_SETUP.md name variables that have no effect: there is none for
  one element of a list (`GATEWAY_KAFKA_BROKERS_0`), none for a key the file does
  not have, and `GATEWAY_CONFIG_PATH` is read by nobody. So are `server.mode`, `grpc.timeout`,
  `mongodb.socket_timeout` and `kafka.consumer.auto_commit`.
* configs/config.yaml:40 offers `required_acks` of 1 and 0; with them NewProducer fails, for an idempotent
  producer (producer.go:33) needs -1, and the server starts without Kafka: one of the failures of
  `Connect` in Server.
* The unique index on email is sparse (user_repo.go:34), but the field is always stored,
  so that a second user without an email is a duplicate.
* GracefulStop lets Serve return (main.go:369) and main end while the signal goroutine
  still closes the clients: `ServeReturns` of Server. `DrainedBeforeClose`
  is about the order of the closes, not that they all happen.

### Bounds, and why they suffice

* Two goroutines. The properties relate two calls, or a call and a flight. A
  flight lives on without its leader (`GiveUp`), and UserService keeps what a call
  left in Redis, so the effects of earlier calls interfere with two live ones. In
  FallbackCache two goroutines are a prober and one at every point of the double
  check. The theorems hold for any number. `SYMMETRY` is used only in runs that
  check safety.
* `MaxCommits = 2` bounds writes: a stale entry needs an old and a new document. A
  write is begun only while its commit fits the bound, so no call is stuck by it, or
  when its user is gone for good, for then it commits nothing.
* `MaxRetries = 1` and `MaxLate = 1` in FallbackCache: a command runs twice, with another's
  between, or has run and runs again after its return (the client's default is 3 retries). In
  UserService `MaxStray = 1` leaves one write to take effect after its call, for the other goroutine to
  meet; late Redis commands are in UserServiceLive only, whose writes bring entries back that then
  must go. The theorems hold for any of these numbers.
* `CheckInterval = 1` gives a fresh and an expired verdict; the clock is saturated.
* `MaxBatch = 4` with two slots: two goroutines wait for a slot (the code has 10).
* Four users and pages of one to three: a walk has several pages, with a batch of two,
  an update and a deletion between or within its calls. Of 5 bits, the pages that MCDirectory
  names wrap to a small skip and to a negative one.
* `MaxLog = 2` and `Attempts = 2` in Consumer: one message is in hand or failed while the other
  is marked, and a session follows a failed or a lost one; the last attempt's session lasts
  until the context is done. EventConsumerRetry has the messages, ConsumerStartStuck the attempts to itself.
* Two requests in Backend: the check and one unary call or chat; either may be
  the one that is under way as the server drains. BackendProofs has any number.
* `MaxSent = 5`, `Window = 1`: four legs and three hands hold seven messages at most; the jam
  needs four of them beyond the writer, and a fifth on its way behind them.
* One request in Gateway: requests share the configuration and the connection only.

`CHECK_DEADLOCK FALSE` stands where the system really stops: Start and its loop
end (Consumer, ConsumerStartStuck), a process ends (Backend, ServerPanic, Gateway).

### Fairness

* FallbackCache: strong fairness of each goroutine, for it competes for the
  RWMutex, which starves neither readers nor writers; the clock goes on. That
  Redis settles is the premise of `ModeConverges`.
* UserService: weak fairness of the steps a goroutine takes by itself, of the
  cache and of the producer, whose clients bound every command by timeouts.
  `Spec` does not assume that MongoDB answers: the service sets no deadline.
  `MongoAnswers`, and `EntriesExpire` (every entry has a TTL of ten minutes),
  are premises of the properties that need them; `CancelledReturns` needs neither.
* BatchCreate: weak fairness of the caller and of each goroutine; sarama's SendMessage
  ends by its own timeouts.
* EventConsumer: a member's steps (ConsumeClaim gives the handler thirty seconds)
  and the start of some session. Rebalances, crashes and producers are not fair.
* Consumer: that of EventConsumer, and both goroutines of Start; Consume returns when its
  context is done.
* Backend: main, the signal goroutine with its timer and closes, unary handlers, the
  goroutines of a check, whose pings end by timeouts of the drivers.
  That a chat ends or that a signal comes is not assumed.
* Gateway: main, the middlewares and handlers, the goroutines of the chat; a peer that reads, though
  not all of the time, takes what is there (strong). That the backend answers, a peer speaks or a caller
  leaves is not assumed.
* Directory has no fairness: its properties are of safety.

## 4. Proofs

TLAPS checks every theorem for all values of the constants, from the named
assumptions of the modules only:

| Assumption | What it says, and why the code justifies it |
|---|---|
| `ConstantsOK`, `ServiceAssumption`, `ConsumerAssumption` | nobody and nothing are names of their own; bounds and intervals are numbers |
| `CallsAssumption` | an id has one canonical spelling, that of `ObjectID.Hex` |
| `BatchAssumption`, `RelayAssumption` | there is a slot in the semaphore (10, line 202), and room for a frame in a leg |
| `StartAssumption`, `CheckerAssumption` | the consumer is one of its group, the health check one of the server's requests |
| `PolicyAssumption` | "*" and the empty string are no localhost origin (auth.go:106-133) |
| `RequestAssumption` | what an upgrade leaves of a request (`Stripped`: its origin and header are not read again) is a request |
| `DirectoryAssumption` | the default page size is within its limits (user_repo.go:168), a clock is a number, and an int64 can count the users |

* **FallbackCacheProofs.** `TypeCorrect`; `Safe` (mutual exclusion, mode, fresh
  verdict); `Spacing`; `Refines` (the safety part of BestEffortCache: attempts, their late copies and the
  swallowed error, for any number of retries). FreshVerdict is not
  inductive: the invariant adds that a probe is under way only for an expired
  verdict and that a call not yet covered by a probe faces an expired one.
* **UserServiceProofs.** `TypeCorrect`, `Truthful`, `StaleExplained`,
  `Membership`, from one inductive invariant. AnswersTruthful needs to know that the cache and
  the flights hold committed documents of their own user (`Committed`,
  `FlightTruthful`), that a call knows only users that were created
  (`KnownUser`), and which control points a request can be at (`Shape`).
* **UserServiceRefinement.** `EventOrder`, for each message key: a commit number belongs to one call,
  and is not among the returned ones until that call returns. `Refines`: each step
  of UserService is a step of UserStore or a stutter, with `answer` the result of
  a call that has reached "done", and a stray write one of UserStore's own.
* **BatchCreateProofs.** `TypeCorrect`, `Bounded`, `Settled`, `Stored`. The
  invariant says what the counters count: `sem` the goroutines with a slot, `wg`
  the goroutines alive and the one about to start, by lemmas on cardinalities.
* **BackendProofs.** Of Server: `TypeCorrect`, `ClosedAfterHandlers`: a stop that is complete
  without force means that no handler is left, and none arrives after a stop is complete, and the closes
  begin only after a complete stop. `BackendIsAServer` takes both to the process, for each of its
  steps is one of the server's or leaves the server alone (`BackendClosesAfterHandlers`). Of the
  health check inside it: `BackendTypeCorrect`, `AnswersTruthfully`, `NothingPingsAfterClose`. The
  invariant counts results: one is expected of each component that is not launched, is
  probed, or has its result on the channel (`CountInv`), so the handler returns after the last
  goroutine has sent; and it follows what may be said of a component from the ping over
  the channel to `status` (`ToldInv`). Clients change only before Serve and are closed only after the
  stop, and the handler of a check holds the stop off (`HandlerInv`).
* **ConsumerProofs.** Of the group: `GroupTypeCorrect`, `MarkedIsHandled`, `NothingIsCommitted`,
  `HandledAtMostOnce`. Without a commit every session starts at the end of the log, so the member
  that works alone is ahead of each message a handler has had (`Ahead`). The composition is a
  behaviour of the group (`ConsumerIsAMember`) and of ConsumerStart (`ConsumerRunsStart`), which gives
  `ConsumerTypeCorrect`, `ConsumerMarksHandled`, `ConsumerHandlesOnce` and, for channels are closed in
  the order they are made (`ChannelInv`), `ClosedOnce`. `HandlerStopsWithStart` needs both parts: the
  claim lives inside Consume, and Close waits for Consume (`SessionInv`).
* **GatewayProofs.** `AdmitsOnlyThePolicy`: Admitted is about the step that starts a handler or
  opens a socket. What CORS and the upgrader decide is the documented policy, with the one exception
  (`CorsAdmits`, `SocketAdmits`), and the invariant adds that a request on its way to Auth has
  passed CORS (`Admits`). The steps of the chat and of
  `main` leave what the middlewares read alone (`Elsewhere`). `GatewayTypeCorrect`, `RelaysEveryMessage`:
  the seven places a message can be at form one line (`Line`), which the peer lengthens at
  one end and shortens at the other, while a goroutine only moves a message from one place
  to the next, and the concatenation is the same (`HandedOn`). While the peer is there and the
  stream lives the three goroutines end in the order of the line, each with nothing left behind it
  (`RelayInv`), so that none of them drops a message; what was lost otherwise stays named
  (`WholeBefore`).
* **DirectoryProofs.** `DirectoryTypeCorrect`, `WalkMissesNobody`. A user that the walk still owes
  (`Owed`) has at least as many users before it (`Newer`) as the walk has passed. An insertion adds to
  them, an update leaves `created_at`, and a deletion that could take one away takes the user out of
  `base`. In every order by `created_at` a user without ties stands right behind its newer ones
  (`Place`), so the page that reaches it holds it. Within MaxInt no multiplication that
  matters wraps (`WrapSmall`): a page beyond it would have passed more users than there are.

Every invariant of a passing run is proved, and of the others the action properties `ProbeSpacing`,
`DrainedBeforeClose` and `Admitted` and the refinement `ImplementsStore`. MutualExclusion and ModeIsLastProbe of
FallbackCache are proved (`Safe`) and no longer part of a run.

Model-checked only: all liveness (`ModeConverges`, `CallsReturn`, `EventuallyCoherent`,
`CancelledReturns`, `Terminates`, `NeverBlocked`, `LoopStops`, `HealthAnswered`, `SignalledEnds`,
`MessagesAnswered`, `RequestEnds`, `BackendFreed`, and the liveness of BestEffortCache in
`ImplementsCache`), because fairness and ENABLED are out of the prover's reach; and the four runs
that expect a violation.

## 5. What is not modelled

* PublishLogEvent, GetByName, the cache's Exists and the pipeline's Get have no caller.
* What a log line says: sanitizeQuery rewrites the query in it. That there is a line is `logged`.
* The retries inside sarama's producer, the resubscription of its consumer, go-redis' and
  the driver's pools: external, seen by their outcomes. (go-redis' retries are modelled.)
* The messages of `api/` are generated accessors, and the requirement service has neither
  client nor server here; `docs/plans` describes a requirement system the repository does not contain.
* The fixed id "demo_user_id" of SayHello is no ObjectID, so its GetUser never
  reaches MongoDB; Server therefore models of it only the cache read.
* CreateUser is modelled with an id nobody has; callers that set an ID
  themselves are not.
* Payloads, names, JSON and latencies; the indexes of the collection, of which a duplicate is an
  insert that fails.

## 6. Plan

Every safety property of a passing run is proved. What is left is breadth:

1. UserService in degraded mode over FallbackCache's own actions, in place of the abstract cache
   steps, with the refinement proved by way of `FallbackCacheProofs!Refines`.
2. The whole consumer path, from PublishUserEvent to the handler: an event of UserService's partition
   is handled at most once (`EventOrder` with `HandledAtMostOnce`).
