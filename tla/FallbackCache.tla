---------------------------- MODULE FallbackCache ----------------------------
(***************************************************************************)
(* FallbackCache of internal/redis/fallback.go: a cache wrapper shared by  *)
(* all request goroutines.  It probes Redis at most once per checkInterval *)
(* (double-checked under a RWMutex), keeps the verdict in `degraded', and  *)
(* while degraded answers every call without touching Redis.               *)
(*                                                                         *)
(* A section under RLock reads one field and is one atomic step that needs *)
(* the write lock to be free; the write lock is held across several steps, *)
(* the PING among them.  The clock is kept only as time.Since(lastCheck),  *)
(* saturated just above checkInterval, the only bound it is compared with. *)
(*                                                                         *)
(* The client (client.go) leaves go-redis' MaxRetries as it is: a command  *)
(* whose reply is missed is sent again, and one nobody waits for any more  *)
(* may still run.                                                          *)
(***************************************************************************)
EXTENDS Naturals

CONSTANTS Thread, Key, Value, Nil,
          NoThread,       \* the write lock is free
          CheckInterval,  \* checkInterval, in ticks of the clock
          MaxRetries,     \* MaxRetries of the client, go-redis' default
          MaxLate         \* bound: late copies of one command

ASSUME ConstantsOK ==
  /\ Nil \notin Value
  /\ Nil # "pending"
  /\ "pending" \notin Value
  /\ NoThread \notin Thread
  /\ CheckInterval \in Nat
  /\ MaxRetries \in Nat

VARIABLES
  mu,          \* holder of checkMu.Lock, or NoThread
  degraded,    \* f.degraded
  sinceCheck,  \* time.Since(f.lastCheck), saturated
  pc,          \* control point of each goroutine
  call,        \* the call a goroutine is executing
  sent,        \* attempts its Redis command has had
  answer,      \* what that call will return
  available,   \* local of checkDegraded: the PING's outcome
  redisUp,     \* environment: does Redis answer
  store,       \* environment: contents of Redis
  late,        \* environment: copies of commands that may still run
  lastProbe,   \* history: outcome of the last completed probe
  covered      \* history: see FreshVerdict

probe == <<mu, degraded, sinceCheck, lastProbe>>
redis == <<redisUp, store, late>>
local == <<pc, call, sent, answer, available, covered>>
vars == <<mu, degraded, sinceCheck, pc, call, sent, answer, available,
          redisUp, store, late, lastProbe, covered>>

Cache == INSTANCE BestEffortCache

Stale == CheckInterval + 1
Expired == sinceCheck > CheckInterval

PC == {"idle", "should", "lock", "recheck", "ping", "update",
       "read", "command", "done"}

TypeOK ==
  /\ Cache!TypeOK
  /\ mu \in Thread \cup {NoThread}
  /\ degraded \in BOOLEAN
  /\ sinceCheck \in 0 .. Stale
  /\ pc \in [Thread -> PC]
  /\ available \in [Thread -> BOOLEAN]
  /\ redisUp \in BOOLEAN
  /\ lastProbe \in {"none", "up", "down"}
  /\ covered \in [Thread -> BOOLEAN]

\* lastCheck is the zero time: the first call finds the interval elapsed.
Init ==
  /\ Cache!Init
  /\ mu = NoThread
  /\ degraded = FALSE
  /\ sinceCheck = Stale
  /\ pc = [t \in Thread |-> "idle"]
  /\ available = [t \in Thread |-> FALSE]
  /\ redisUp \in BOOLEAN
  /\ lastProbe = "none"
  /\ covered = [t \in Thread |-> FALSE]

Goto(t, from, to) ==
  /\ pc[t] = from
  /\ pc' = [pc EXCEPT ![t] = to]

\* GetWithFallback, SetWithFallback, DeleteWithFallback or IsDegraded starts.
Invoke(t, c) ==
  /\ Goto(t, "idle", "should")
  /\ call' = [call EXCEPT ![t] = c]
  /\ covered' = [covered EXCEPT ![t] = ~Expired]
  /\ UNCHANGED <<probe, redis, sent, answer, available>>

\* shouldCheckDegraded, under RLock
CheckDueInNormalMode == Expired /\ ~degraded   \* mutant: degraded is forever
CheckDue == Expired

ShouldCheckDegraded(t) ==
  /\ mu = NoThread
  /\ Goto(t, "should", IF CheckDue THEN "lock" ELSE "read")
  /\ UNCHANGED <<probe, redis, call, sent, answer, available, covered>>

\* checkDegraded: Lock
CanLock == mu = NoThread

LockCheck(t) ==
  /\ CanLock
  /\ Goto(t, "lock", "recheck")
  /\ mu' = t
  /\ UNCHANGED <<degraded, sinceCheck, lastProbe, redis, call, sent, answer,
                 available, covered>>

\* checkDegraded: the second check, and the early return with its Unlock
NoSecondCheck == TRUE                          \* mutant: no double check
StillDue == Expired

Recheck(t) ==
  /\ Goto(t, "recheck", IF StillDue THEN "ping" ELSE "read")
  /\ mu' = IF StillDue THEN mu ELSE NoThread
  /\ UNCHANGED <<degraded, sinceCheck, lastProbe, redis, call, sent, answer,
                 available, covered>>

\* client.IsAvailable: a PING bounded by its own two seconds
Ping(t) ==
  /\ Goto(t, "ping", "update")
  /\ available' = [available EXCEPT ![t] = redisUp]
  /\ UNCHANGED <<probe, redis, call, sent, answer, covered>>

\* checkDegraded: the mode switch, lastCheck = now, Unlock
NeverRecovers(t) == degraded \/ ~available[t]  \* mutant: no way back
NextMode(t) ==
  CASE available[t] /\ degraded   -> FALSE
    [] ~available[t] /\ ~degraded -> TRUE
    [] OTHER                      -> degraded

UpdateDegraded(t) ==
  /\ Goto(t, "update", "read")
  /\ degraded' = NextMode(t)
  /\ sinceCheck' = 0
  /\ mu' = NoThread
  /\ lastProbe' = IF available[t] THEN "up" ELSE "down"
  /\ covered' = [u \in Thread |-> TRUE]
  /\ available' = [available EXCEPT ![t] = FALSE]   \* out of scope
  /\ UNCHANGED <<redis, call, sent, answer>>

\* The snapshot of `degraded' under RLock.  IsDegraded returns it; the other
\* calls return at once when it is set.
Bypass(t) == degraded \/ call[t].op = "isDegraded"

ReadDegraded(t) ==
  /\ mu = NoThread
  /\ Goto(t, "read", IF Bypass(t) THEN "done" ELSE "command")
  /\ answer' = IF Bypass(t) THEN [answer EXCEPT ![t] = Nil] ELSE answer
  /\ UNCHANGED <<probe, redis, call, sent, available, covered>>

(***************************************************************************)
(* f.cache.Get/Set/Delete.  The client tries the command: it runs and is   *)
(* answered, it runs and the reply is missed, it is still under way when   *)
(* the client stops waiting, or it is not sent.  A failed attempt is       *)
(* repeated up to MaxRetries times, or the command fails at once (the      *)
(* caller's ctx is over); the error is logged and swallowed.  A read under *)
(* way that nobody waits for is of no interest.                            *)
(***************************************************************************)
MayTry(t) == sent[t] <= MaxRetries

Attempt(t) ==
  /\ pc[t] = "command"
  /\ MayTry(t)
  /\ sent' = [sent EXCEPT ![t] = @ + 1]
  /\ \/ /\ redisUp
        /\ store' = Cache!Effect(call[t])
        /\ \/ /\ answer' = [answer EXCEPT ![t] = Cache!Reply(call[t])]
              /\ pc' = [pc EXCEPT ![t] = "done"]
           \/ UNCHANGED <<pc, answer>>
        /\ UNCHANGED late
     \/ /\ call[t] \in Cache!WriteCall
        /\ late[call[t]] < MaxLate
        /\ late' = [late EXCEPT ![call[t]] = @ + 1]
        /\ UNCHANGED <<pc, store, answer>>
     \/ UNCHANGED <<pc, store, late, answer>>
  /\ UNCHANGED <<probe, redisUp, call, available, covered>>

ErrorReturned == "error"                       \* mutant: return val, err
Swallowed == Nil

GiveUp(t) ==
  /\ Goto(t, "command", "done")
  /\ answer' = [answer EXCEPT ![t] = Swallowed]
  /\ UNCHANGED <<probe, redis, call, sent, available, covered>>

Return(t) ==
  /\ Goto(t, "done", "idle")
  /\ call' = [call EXCEPT ![t] = Cache!NoCall]
  /\ sent' = [sent EXCEPT ![t] = 0]
  /\ answer' = [answer EXCEPT ![t] = Cache!Pending]
  /\ covered' = [covered EXCEPT ![t] = FALSE]
  /\ UNCHANGED <<probe, redis, available>>

-----------------------------------------------------------------------------
(* Environment: the clock, Redis going up and down, late copies of         *)
(* commands, and TTLs.                                                     *)
Tick ==
  /\ sinceCheck < Stale
  /\ sinceCheck' = sinceCheck + 1
  /\ UNCHANGED <<mu, degraded, lastProbe, local, redis>>

ToggleRedis ==
  /\ redisUp' = ~redisUp
  /\ UNCHANGED <<probe, local, store, late>>

\* Redis runs a copy it has in its buffers, or the copy's connection ends.
LateCommand(c) ==
  /\ late[c] > 0
  /\ late' = [late EXCEPT ![c] = @ - 1]
  /\ \/ redisUp /\ store' = Cache!Effect(c)
     \/ UNCHANGED store
  /\ UNCHANGED <<probe, local, redisUp>>

Expire(k) ==
  /\ store[k] # Nil
  /\ store' = [store EXCEPT ![k] = Nil]
  /\ UNCHANGED <<probe, local, redisUp, late>>

Step(t) ==
  \/ ShouldCheckDegraded(t)
  \/ LockCheck(t)
  \/ Recheck(t)
  \/ Ping(t)
  \/ UpdateDegraded(t)
  \/ ReadDegraded(t)
  \/ Attempt(t)
  \/ GiveUp(t)
  \/ Return(t)

Next ==
  \/ \E t \in Thread : (\E c \in Cache!Call : Invoke(t, c)) \/ Step(t)
  \/ Tick
  \/ ToggleRedis
  \/ \E c \in Cache!WriteCall : LateCommand(c)
  \/ \E k \in Key : Expire(k)

(***************************************************************************)
(* Goroutines keep running (every blocking command has a timeout), and     *)
(* sync.RWMutex starves neither readers nor writers: a goroutine waiting   *)
(* for the lock gets it if the lock is free infinitely often.  Nothing     *)
(* makes a caller call, Redis recover, a late copy run or a key expire.    *)
(***************************************************************************)
Fairness ==
  /\ WF_vars(Tick)
  /\ \A t \in Thread : SF_vars(Step(t))

Spec == Init /\ [][Next]_vars /\ Fairness

-----------------------------------------------------------------------------
(* The checkMu write section has one goroutine in it, and it is the one the *)
(* lock names (checkDegraded holds the lock across its PING).               *)
LockHeld(t) == pc[t] \in {"recheck", "ping", "update"}

MutualExclusion == \A t \in Thread : LockHeld(t) <=> mu = t

(* Only an expired verdict is replaced: however many goroutines find the    *)
(* interval elapsed together, the double check lets one of them probe, so   *)
(* two completed probes are more than checkInterval apart.                  *)
ProbeSpacing == [][sinceCheck' < sinceCheck => Expired]_vars

(* The mode is the outcome of the last completed probe; before the first    *)
(* one the cache is not degraded.                                           *)
ModeIsLastProbe == degraded <=> lastProbe = "down"

(* covered[t]: when the current call of t began the verdict was no older    *)
(* than checkInterval, or a probe has completed since.  Every call that     *)
(* has passed the check, on whichever of its three paths, decides on such a *)
(* verdict, so a stale `degraded' is never acted upon.                      *)
Decided(t) == pc[t] \in {"read", "command", "done"}

FreshVerdict == \A t \in Thread : Decided(t) => covered[t]

(* If Redis stays up (down) from some time on and callers keep calling, the *)
(* cache eventually stays in normal (degraded) mode.                        *)
Calls == \E t \in Thread : pc[t] = "should"

ModeConverges ==
  /\ (<>[]redisUp /\ []<>Calls) => <>[]~degraded
  /\ (<>[]~redisUp /\ []<>Calls) => <>[]degraded

(* FallbackCache implements the best-effort cache: a call takes effect at   *)
(* most MaxRetries + 1 times, possibly after its return, a get answers what *)
(* Redis held during the call or nothing, no error reaches the caller, and  *)
(* every call returns.                                                      *)
ImplementsCache == Cache!Spec
=============================================================================
