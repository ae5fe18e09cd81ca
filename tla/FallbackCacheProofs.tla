------------------------- MODULE FallbackCacheProofs -------------------------
(***************************************************************************)
(* Proofs about FallbackCache, for any set of goroutines, keys and values, *)
(* any check interval, any number of retries and of late copies.           *)
(***************************************************************************)
EXTENDS FallbackCache, TLAPS

(* A probe is under way only for an expired verdict.                        *)
ProbeOnlyExpired ==
  \A t \in Thread : pc[t] \in {"ping", "update"} => Expired

(* A call not yet covered by a probe faces an expired verdict.              *)
UncoveredExpired ==
  \A t \in Thread : pc[t] # "idle" /\ ~covered[t] => Expired

(* The interface state follows the control point.                           *)
Shape ==
  \A t \in Thread : /\ pc[t] = "idle" <=> call[t] = Cache!NoCall
                    /\ pc[t] = "done" <=> answer[t] # Cache!Pending

IInv ==
  /\ TypeOK
  /\ MutualExclusion
  /\ ModeIsLastProbe
  /\ ProbeOnlyExpired
  /\ UncoveredExpired
  /\ FreshVerdict

(* A call is never the placeholder of an idle goroutine.                    *)
LEMMA CallIsNotNoCall == \A c \in Cache!Call : c # Cache!NoCall
  BY DEF Cache!Call, Cache!GetCall, Cache!SetCall, Cache!DelCall,
         Cache!WriteCall, Cache!IsDegradedCall, Cache!NoCall

(* What a Redis command leaves in the store and may answer, by its kind.    *)
LEMMA EffectType ==
  ASSUME TypeOK, NEW c \in Cache!Call
  PROVE  /\ Cache!Effect(c) \in [Key -> Value \cup {Nil}]
         /\ Cache!Reply(c) \in Value \cup {Nil}
<1> USE DEF TypeOK, Cache!TypeOK, Cache!Effect, Cache!Reply
<1>1. CASE c \in Cache!GetCall
  BY <1>1 DEF Cache!GetCall
<1>2. CASE c \in Cache!SetCall
  BY <1>2 DEF Cache!SetCall
<1>3. CASE c \in Cache!DelCall
  BY <1>3 DEF Cache!DelCall
<1>4. CASE c \in Cache!IsDegradedCall
  BY <1>4 DEF Cache!IsDegradedCall
<1> QED BY <1>1, <1>2, <1>3, <1>4 DEF Cache!Call, Cache!WriteCall

(* A command that writes is a call's command.                               *)
LEMMA WritesAreCalls == Cache!WriteCall \subseteq Cache!Call
  BY DEF Cache!Call

(* The initial state is well typed.                                         *)
LEMMA InitType == Init => TypeOK
<1> USE ConstantsOK DEF ConstantsOK, TypeOK, Cache!TypeOK, PC, Stale
<1> SUFFICES ASSUME Init PROVE TypeOK
  OBVIOUS
<1>0. 0 \in 0 .. MaxRetries + 1
  OBVIOUS
<1>1. Cache!TypeOK /\ pc \in [Thread -> PC] /\ sinceCheck \in 0 .. Stale
  BY <1>0 DEF Init, Cache!Init, Cache!NoCall, Cache!Pending
<1>2. /\ available \in [Thread -> BOOLEAN] /\ covered \in [Thread -> BOOLEAN]
      /\ degraded \in BOOLEAN /\ redisUp \in BOOLEAN
  BY Zenon DEF Init
<1> QED BY <1>1, <1>2 DEF Init

(* Type correctness of the fallback cache.                                  *)
THEOREM TypeCorrect == Spec => []TypeOK
<1> USE ConstantsOK DEF ConstantsOK, TypeOK, Cache!TypeOK, PC, Stale, Expired,
                        Goto, Cache!NoCall, Cache!Pending, Swallowed,
                        probe, redis
<1>1. Init => TypeOK
  BY InitType
<1>2. TypeOK /\ [Next]_vars => TypeOK'
  <2> SUFFICES ASSUME TypeOK, [Next]_vars
               PROVE  TypeOK'
    OBVIOUS
  <2>1. ASSUME NEW t \in Thread, NEW c \in Cache!Call, Invoke(t, c)
        PROVE  TypeOK'
    BY <2>1 DEF Invoke
  <2>2. ASSUME NEW t \in Thread, ShouldCheckDegraded(t)
        PROVE  TypeOK'
    BY <2>2 DEF ShouldCheckDegraded
  <2>3. ASSUME NEW t \in Thread, LockCheck(t)
        PROVE  TypeOK'
    BY <2>3 DEF LockCheck
  <2>4. ASSUME NEW t \in Thread, Recheck(t)
        PROVE  TypeOK'
    BY <2>4 DEF Recheck
  <2>5. ASSUME NEW t \in Thread, Ping(t)
        PROVE  TypeOK'
    BY <2>5 DEF Ping
  <2>6. ASSUME NEW t \in Thread, UpdateDegraded(t)
        PROVE  TypeOK'
    <3>1. degraded' \in BOOLEAN
      BY <2>6, Zenon DEF UpdateDegraded, NextMode
    <3>2. covered' \in [Thread -> BOOLEAN]
      BY <2>6, Zenon DEF UpdateDegraded
    <3> QED BY <2>6, <3>1, <3>2 DEF UpdateDegraded
  <2>7. ASSUME NEW t \in Thread, ReadDegraded(t)
        PROVE  TypeOK'
    BY <2>7 DEF ReadDegraded
  <2>8. ASSUME NEW t \in Thread, Attempt(t)
        PROVE  TypeOK'
    <3>1. /\ Cache!Effect(call[t]) \in [Key -> Value \cup {Nil}]
          /\ Cache!Reply(call[t]) \in Value \cup {Nil}
      <4>1. CASE call[t] \in Cache!Call
        BY <4>1, EffectType
      <4>2. CASE call[t] = Cache!NoCall
        BY <4>2 DEF Cache!Effect, Cache!Reply
      <4> QED BY <4>1, <4>2
    <3>2. sent' \in [Thread -> 0 .. MaxRetries + 1]
      BY <2>8 DEF Attempt, MayTry
    <3>3. late' \in [Cache!WriteCall -> Nat]
      BY <2>8 DEF Attempt
    <3> QED BY <2>8, <3>1, <3>2, <3>3 DEF Attempt
  <2>9. ASSUME NEW t \in Thread, GiveUp(t)
        PROVE  TypeOK'
    BY <2>9 DEF GiveUp
  <2>10. ASSUME NEW t \in Thread, Return(t)
         PROVE  TypeOK'
    BY <2>10 DEF Return
  <2>11. CASE Tick
    BY <2>11 DEF Tick, local
  <2>12. CASE ToggleRedis
    BY <2>12 DEF ToggleRedis, local
  <2>13. ASSUME NEW k \in Key, Expire(k)
         PROVE  TypeOK'
    BY <2>13 DEF Expire, local
  <2>14. ASSUME NEW c \in Cache!WriteCall, LateCommand(c)
         PROVE  TypeOK'
    <3>1. Cache!Effect(c) \in [Key -> Value \cup {Nil}]
      BY WritesAreCalls, EffectType
    <3>2. late' \in [Cache!WriteCall -> Nat]
      BY <2>14 DEF LateCommand
    <3> QED BY <2>14, <3>1, <3>2 DEF LateCommand, local
  <2>15. CASE UNCHANGED vars
    BY <2>15 DEF vars
  <2> QED
    BY <2>1, <2>2, <2>3, <2>4, <2>5, <2>6, <2>7, <2>8, <2>9, <2>10, <2>11,
       <2>12, <2>13, <2>14, <2>15 DEF Next, Step
<1> QED BY <1>1, <1>2, PTL DEF Spec
-----------------------------------------------------------------------------
(* IInv is inductive.  FreshVerdict alone is not: a call reaches `read'      *)
(* covered because an uncovered one faces an expired verdict                *)
(* (UncoveredExpired), which shouldCheckDegraded and the double check send  *)
(* to the probe; and the verdict cannot be renewed in between because the   *)
(* write lock is held (MutualExclusion).                                    *)
LEMMA Inductive == Spec => []IInv
<1> USE ConstantsOK DEF ConstantsOK, TypeOK, Cache!TypeOK, PC, Stale, Expired,
                        Goto, CheckDue, StillDue, CanLock, Swallowed,
                        probe, redis
<1>1. Init => IInv
  BY InitType DEF Init, IInv, MutualExclusion, LockHeld, ModeIsLastProbe,
                  ProbeOnlyExpired, UncoveredExpired, FreshVerdict, Decided
<1>2. IInv /\ TypeOK' /\ [Next]_vars => IInv'
  <2> SUFFICES ASSUME IInv, TypeOK', [Next]_vars
               PROVE  IInv'
    OBVIOUS
  <2> USE DEF IInv, MutualExclusion, LockHeld, ModeIsLastProbe,
              ProbeOnlyExpired, UncoveredExpired, FreshVerdict, Decided
  <2>1. ASSUME NEW t \in Thread, NEW c \in Cache!Call, Invoke(t, c)
        PROVE  IInv'
    BY <2>1 DEF Invoke
  <2>2. ASSUME NEW t \in Thread, ShouldCheckDegraded(t)
        PROVE  IInv'
    BY <2>2 DEF ShouldCheckDegraded
  <2>3. ASSUME NEW t \in Thread, LockCheck(t)
        PROVE  IInv'
    BY <2>3 DEF LockCheck
  <2>4. ASSUME NEW t \in Thread, Recheck(t)
        PROVE  IInv'
    BY <2>4 DEF Recheck
  <2>5. ASSUME NEW t \in Thread, Ping(t)
        PROVE  IInv'
    BY <2>5 DEF Ping
  <2>6. ASSUME NEW t \in Thread, UpdateDegraded(t)
        PROVE  IInv'
    <3>1. ModeIsLastProbe'
      BY <2>6 DEF UpdateDegraded, NextMode
    <3>2. \A u \in Thread : covered'[u]
      BY <2>6 DEF UpdateDegraded
    <3>3. mu = t /\ mu' = NoThread
      BY <2>6 DEF UpdateDegraded
    <3>4. \A u \in Thread : ~LockHeld(u)'
      BY <2>6, <3>3 DEF UpdateDegraded
    <3> QED BY <3>1, <3>2, <3>3, <3>4
  <2>7. ASSUME NEW t \in Thread, ReadDegraded(t)
        PROVE  IInv'
    BY <2>7 DEF ReadDegraded
  <2>8. ASSUME NEW t \in Thread, Attempt(t) \/ GiveUp(t)
        PROVE  IInv'
    BY <2>8 DEF Attempt, GiveUp
  <2>9. ASSUME NEW t \in Thread, Return(t)
        PROVE  IInv'
    BY <2>9 DEF Return
  <2>10. CASE Tick
    BY <2>10 DEF Tick, local
  <2>11. CASE ToggleRedis
    BY <2>11 DEF ToggleRedis, local
  <2>12. ASSUME NEW k \in Key, Expire(k)
         PROVE  IInv'
    BY <2>12 DEF Expire, local
  <2>13. ASSUME NEW c \in Cache!WriteCall, LateCommand(c)
         PROVE  IInv'
    BY <2>13 DEF LateCommand, local
  <2>14. CASE UNCHANGED vars
    BY <2>14 DEF vars
  <2> QED
    BY <2>1, <2>2, <2>3, <2>4, <2>5, <2>6, <2>7, <2>8, <2>9, <2>10, <2>11,
       <2>12, <2>13, <2>14 DEF Next, Step
<1> QED BY <1>1, <1>2, TypeCorrect, PTL DEF Spec

(* One goroutine in the write section of checkMu; the mode is the outcome   *)
(* of the last probe; no call acts on a verdict older than its own start    *)
(* and checkInterval.                                                       *)
THEOREM Safe == Spec => [](MutualExclusion /\ ModeIsLastProbe /\ FreshVerdict)
<1>1. IInv => MutualExclusion /\ ModeIsLastProbe /\ FreshVerdict
  BY DEF IInv
<1> QED BY <1>1, Inductive, PTL

(* checkDegraded replaces only an expired verdict.                          *)
THEOREM Spacing == Spec => ProbeSpacing
<1> USE ConstantsOK DEF ConstantsOK, TypeOK, Expired, Stale, probe, local
<1>1. IInv /\ [Next]_vars => [sinceCheck' < sinceCheck => Expired]_vars
  <2> SUFFICES ASSUME IInv, Next, sinceCheck' < sinceCheck
               PROVE  Expired
    OBVIOUS
  <2>1. \/ sinceCheck' = sinceCheck
        \/ sinceCheck' = sinceCheck + 1
        \/ \E t \in Thread : UpdateDegraded(t)
    BY DEF Next, Step, Invoke, ShouldCheckDegraded, LockCheck, Recheck, Ping,
           ReadDegraded, Attempt, GiveUp, Return, Tick, ToggleRedis,
           LateCommand, Expire
  <2>2. \E t \in Thread : UpdateDegraded(t)
    BY <2>1 DEF IInv
  <2> QED BY <2>2 DEF IInv, UpdateDegraded, Goto, ProbeOnlyExpired
<1> QED BY <1>1, Inductive, PTL DEF Spec, ProbeSpacing

(* The interface state of a call follows its control point.                 *)
LEMMA ShapeHolds == Spec => []Shape
<1> USE ConstantsOK DEF ConstantsOK, TypeOK, Cache!TypeOK, PC, Goto, Shape,
                        Swallowed, probe, redis
<1>1. Init => Shape
  BY DEF Init, Cache!Init
<1>2. TypeOK /\ Shape /\ [Next]_vars => Shape'
  <2> SUFFICES ASSUME TypeOK, Shape, [Next]_vars
               PROVE  Shape'
    OBVIOUS
  <2>1. ASSUME NEW t \in Thread, NEW c \in Cache!Call, Invoke(t, c)
        PROVE  Shape'
    BY <2>1, CallIsNotNoCall DEF Invoke
  <2>2. ASSUME NEW t \in Thread,
               \/ ShouldCheckDegraded(t) \/ LockCheck(t) \/ Recheck(t)
               \/ Ping(t) \/ UpdateDegraded(t)
        PROVE  Shape'
    BY <2>2 DEF ShouldCheckDegraded, LockCheck, Recheck, Ping, UpdateDegraded
  <2>3. ASSUME NEW t \in Thread, ReadDegraded(t)
        PROVE  Shape'
    BY <2>3 DEF ReadDegraded, Cache!Pending
  <2>4. ASSUME NEW t \in Thread, Attempt(t) \/ GiveUp(t)
        PROVE  Shape'
    <3>1. CASE Attempt(t)
      <4>1. Cache!Reply(call[t]) \in Value \cup {Nil}
        BY DEF Cache!Reply, Cache!GetCall, Cache!Call, Cache!SetCall,
               Cache!DelCall, Cache!WriteCall, Cache!IsDegradedCall,
               Cache!NoCall
      <4> QED BY <3>1, <4>1 DEF Attempt, Cache!Pending
    <3>2. CASE GiveUp(t)
      BY <3>2 DEF GiveUp, Cache!Pending
    <3> QED BY <2>4, <3>1, <3>2
  <2>5. ASSUME NEW t \in Thread, Return(t)
        PROVE  Shape'
    BY <2>5 DEF Return
  <2>6. CASE \/ Tick \/ ToggleRedis \/ \E k \in Key : Expire(k)
             \/ \E c \in Cache!WriteCall : LateCommand(c)
             \/ UNCHANGED vars
    BY <2>6 DEF Tick, ToggleRedis, Expire, LateCommand, local, vars
  <2> QED BY <2>1, <2>2, <2>3, <2>4, <2>5, <2>6 DEF Next, Step
<1> QED BY <1>1, <1>2, TypeCorrect, PTL DEF Spec

(* Every step of FallbackCache is a step of the best-effort cache or leaves *)
(* its variables unchanged: a call takes effect at most MaxRetries + 1      *)
(* times, never before it begins, a get answers what Redis held during the  *)
(* call or nothing, and no error of Redis is an answer.                     *)
THEOREM Refines == Spec => Cache!Safety
<1> USE ConstantsOK DEF ConstantsOK, Goto, Swallowed, probe, redis
<1>1. Init => Cache!Init
  BY DEF Init
<1>2. TypeOK /\ Shape /\ [Next]_vars => [Cache!Next]_(Cache!vars)
  <2> SUFFICES ASSUME TypeOK, Shape, [Next]_vars
               PROVE  Cache!Next \/ UNCHANGED Cache!vars
    OBVIOUS
  <2> USE DEF TypeOK, Cache!TypeOK, Shape
  <2>1. ASSUME NEW t \in Thread, NEW c \in Cache!Call, Invoke(t, c)
        PROVE  Cache!Invoke(t, c)
    BY <2>1 DEF Invoke, Cache!Invoke
  <2>2. ASSUME NEW t \in Thread,
               \/ ShouldCheckDegraded(t) \/ LockCheck(t) \/ Recheck(t)
               \/ Ping(t) \/ UpdateDegraded(t)
        PROVE  UNCHANGED Cache!vars
    BY <2>2 DEF ShouldCheckDegraded, LockCheck, Recheck, Ping, UpdateDegraded,
                Cache!vars
  <2>3. ASSUME NEW t \in Thread, ReadDegraded(t)
        PROVE  Cache!GiveUp(t) \/ UNCHANGED Cache!vars
    BY <2>3 DEF ReadDegraded, Cache!GiveUp, Cache!InCall, Cache!vars
  <2>4. ASSUME NEW t \in Thread, Attempt(t)
        PROVE  Cache!Try(t)
    <3>1. Cache!InCall(t)
      BY <2>4 DEF Attempt, Cache!InCall
    <3> QED BY <2>4, <3>1 DEF Attempt, MayTry, Cache!Try
  <2>5. ASSUME NEW t \in Thread, GiveUp(t)
        PROVE  Cache!GiveUp(t)
    BY <2>5 DEF GiveUp, Cache!GiveUp, Cache!InCall
  <2>6. ASSUME NEW c \in Cache!WriteCall, LateCommand(c)
        PROVE  Cache!Arrive(c)
    BY <2>6 DEF LateCommand, Cache!Arrive, local
  <2>7. ASSUME NEW t \in Thread, Return(t)
        PROVE  Cache!Return(t)
    BY <2>7 DEF Return, Cache!Return
  <2>8. ASSUME NEW k \in Key, Expire(k)
        PROVE  Cache!Expire(k)
    BY <2>8 DEF Expire, Cache!Expire, local
  <2>9. CASE Tick \/ ToggleRedis \/ UNCHANGED vars
    BY <2>9 DEF Tick, ToggleRedis, local, vars, Cache!vars
  <2> QED BY <2>1, <2>2, <2>3, <2>4, <2>5, <2>6, <2>7, <2>8, <2>9
          DEF Next, Step, Cache!Next
<1> QED BY <1>1, <1>2, TypeCorrect, ShapeHolds, PTL
        DEF Spec, Cache!Safety
=============================================================================
