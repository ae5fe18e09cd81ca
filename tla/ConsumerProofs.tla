---------------------------- MODULE ConsumerProofs ----------------------------
(***************************************************************************)
(* Proofs about EventConsumer and Consumer, for any group of members, any  *)
(* number of messages and any number of calls of Consume.                  *)
(*                                                                         *)
(* Every step of a consumer is a step of the group it is a member of, or   *)
(* leaves the group alone: what holds of the group holds of the consumer.  *)
(***************************************************************************)
EXTENDS Consumer, TLAPS

USE ConsumerAssumption, StartAssumption
    DEF ConsumerAssumption, StartAssumption

-----------------------------------------------------------------------------
(* The group.                                                              *)
Received == 1 .. Len(log)

(* A message in hand is one of the log, and came before what the channel    *)
(* yields next.                                                             *)
InHand ==
  \A m \in Member :
    pc[m] \in {"parse", "handle", "mark"} =>
      msg[m] \in Received /\ msg[m] < position[m]

GroupInv == TypeOK /\ InHand

(* What ConsumeClaim marks has been handled, or is no event.                *)
MarkInv ==
  /\ marks \subseteq Received
  /\ \A m \in Member : pc[m] = "mark" => msg[m] \in handled
  /\ MarkedWasHandled

(* Nothing is committed, and no handler has seen what is not in the log.    *)
FreshInv ==
  /\ committed = None
  /\ \A m \in Member : position[m] <= Len(log) + 1
  /\ \A o \in Offset : o > Len(log) => calls[o] = 0

(* One member works, and is ahead of every message the handler has had.     *)
Ahead(m) ==
  /\ pc[m] # "stopped" =>
       \A o \in Offset : o >= position[m] => calls[o] = 0
  /\ pc[m] \in {"parse", "handle"} => calls[msg[m]] = 0

OnceInv ==
  ~overlap =>
    /\ \A m, n \in Working : m = n
    /\ \A m \in Member : Ahead(m)
    /\ \A o \in Offset : calls[o] <= 1

-----------------------------------------------------------------------------
LEMMA ReceivedType ==
  ASSUME TypeOK
  PROVE  /\ Len(log) \in Nat
         /\ Received \subseteq Offset
         /\ \A o \in Received : log[o] \in {"event", "garbled"}
BY DEF TypeOK, Received, Offset

(* The log grows, and keeps what it has.                                    *)
LEMMA LogGrows ==
  ASSUME TypeOK, NEW kind \in {"event", "garbled"}, Produce(kind)
  PROVE  /\ log' \in Seq({"event", "garbled"})
         /\ Len(log') = Len(log) + 1
         /\ Received \subseteq Received'
         /\ \A o \in Received : log'[o] = log[o]
BY DEF TypeOK, Produce, Received

(* Members, messages and histories stay well typed, and a message in hand   *)
(* is one of the log, at every step of the group.                           *)
THEOREM GroupTypeCorrect == Safety => []GroupInv
<1>1. Init => GroupInv
  <2> SUFFICES ASSUME Init
               PROVE  GroupInv
    OBVIOUS
  <2>1. log \in Seq({"event", "garbled"}) /\ Len(log) <= MaxLog
    BY DEF Init
  <2>2. calls \in [Offset -> 0 .. 2] /\ position \in [Member -> 1 .. MaxLog + 1]
    BY DEF Init
  <2> QED BY <2>1, <2>2 DEF Init, GroupInv, TypeOK, InHand, None
<1>2. GroupInv /\ [Next]_vars => GroupInv'
  <2> SUFFICES ASSUME GroupInv, [Next]_vars
               PROVE  GroupInv'
    OBVIOUS
  <2> USE ReceivedType DEF GroupInv, Goto
  <2>1. ASSUME NEW kind \in {"event", "garbled"}, Produce(kind)
        PROVE  GroupInv'
    <3>1. InHand'
      BY <2>1, LogGrows DEF Produce, InHand
    <3> QED BY <2>1, <3>1, LogGrows DEF Produce, TypeOK, history
  <2>2. ASSUME NEW m \in Member, StartSession(m)
        PROVE  GroupInv'
    <3> DEFINE from == IF committed = None THEN FromNewest ELSE committed
    <3>1. from \in 1 .. MaxLog + 1
      <4>1. Len(log) \in 0 .. MaxLog
        BY DEF TypeOK
      <4>2. FromNewest \in 1 .. MaxLog + 1
        BY <4>1 DEF FromNewest
      <4>3. committed # None => committed \in 1 .. MaxLog + 1
        BY DEF TypeOK, None
      <4> QED BY <4>2, <4>3
    <3>2. position' \in [Member -> 1 .. MaxLog + 1]
      <4>1. position' = [position EXCEPT ![m] = from]
        BY <2>2 DEF StartSession
      <4> QED BY <3>1, <4>1 DEF TypeOK
    <3>3. overlap' \in BOOLEAN
      BY <2>2 DEF StartSession
    <3>4. TypeOK'
      BY <2>2, <3>2, <3>3 DEF StartSession, TypeOK
    <3>5. InHand'
      BY <2>2 DEF StartSession, InHand, TypeOK, Received
    <3> QED BY <3>4, <3>5
  <2>3. ASSUME NEW m \in Member, Revoke(m)
        PROVE  GroupInv'
    BY <2>3 DEF Revoke, TypeOK, InHand, Received, history
  <2>4. ASSUME NEW m \in Member, EndSession(m)
        PROVE  GroupInv'
    BY <2>4 DEF EndSession, TypeOK, InHand, Received, broker, history
  <2>5. ASSUME NEW m \in Member, Crash(m)
        PROVE  GroupInv'
    <3>1. TypeOK'
      BY <2>5 DEF Crash, Drop, Forget, TypeOK, broker, history, None
    <3>2. InHand'
      BY <2>5 DEF Crash, Drop, Forget, TypeOK, InHand, Received, broker
    <3> QED BY <3>1, <3>2
  <2>6. ASSUME NEW m \in Member, Receive(m)
        PROVE  GroupInv'
    <3>1. position[m] \in Received /\ position[m] + 1 \in 1 .. MaxLog + 1
      BY <2>6 DEF Receive, TypeOK, Received
    <3>2. TypeOK'
      BY <2>6, <3>1 DEF Receive, TypeOK, broker, history
    <3>3. InHand'
      BY <2>6, <3>1 DEF Receive, TypeOK, InHand, Received, broker
    <3> QED BY <3>2, <3>3
  <2>7. ASSUME NEW m \in Member, ChannelClosed(m)
        PROVE  GroupInv'
    BY <2>7 DEF ChannelClosed, Forget, TypeOK, InHand, Received, broker, history
  <2>8. ASSUME NEW m \in Member, Garbled(m)
        PROVE  GroupInv'
    <3>1. msg[m] \in Offset
      BY <2>8 DEF Garbled, InHand
    <3>2. TypeOK'
      BY <2>8, <3>1 DEF Garbled, MarkMessage, AutoCommit, AfterGarbled, Drop,
                        TypeOK, None
    <3>3. InHand'
      BY <2>8 DEF Garbled, AfterGarbled, Drop, TypeOK, InHand, Received
    <3> QED BY <3>2, <3>3
  <2>9. ASSUME NEW m \in Member, Parsed(m)
        PROVE  GroupInv'
    BY <2>9 DEF Parsed, TypeOK, InHand, Received, broker, history
  <2>10. ASSUME NEW m \in Member, HandlerReturns(m)
         PROVE  GroupInv'
    <3>1. msg[m] \in Offset
      BY <2>10 DEF HandlerReturns, InHand
    <3>2. TypeOK'
      BY <2>10, <3>1 DEF HandlerReturns, Call, TypeOK, broker
    <3>3. InHand'
      BY <2>10 DEF HandlerReturns, TypeOK, InHand, Received, broker
    <3> QED BY <3>2, <3>3
  <2>11. ASSUME NEW m \in Member, HandlerFails(m)
         PROVE  GroupInv'
    <3>1. msg[m] \in Offset
      BY <2>11 DEF HandlerFails, InHand
    <3>2. calls' \in [Offset -> 0 .. 2]
      BY <2>11, <3>1 DEF HandlerFails, Call, TypeOK
    <3>3. msg' \in [Member -> Offset \cup {None}]
      BY <2>11 DEF HandlerFails, Drop, TypeOK
    <3>4. TypeOK'
      BY <2>11, <3>1, <3>2, <3>3 DEF HandlerFails, AfterError, TypeOK, broker
    <3>5. InHand'
      BY <2>11 DEF HandlerFails, AfterError, Drop, TypeOK, InHand, Received,
                   broker
    <3> QED BY <3>4, <3>5
  <2>12. ASSUME NEW m \in Member, Mark(m)
         PROVE  GroupInv'
    <3>1. msg[m] \in Offset
      BY <2>12 DEF Mark, InHand
    <3>2. TypeOK'
      BY <2>12, <3>1 DEF Mark, MarkMessage, AutoCommit, Drop, TypeOK, None
    <3>3. InHand'
      BY <2>12 DEF Mark, Drop, TypeOK, InHand, Received
    <3> QED BY <3>2, <3>3
  <2>13. CASE UNCHANGED vars
    BY <2>13 DEF vars, broker, history, TypeOK, InHand, Received
  <2> QED BY <2>1, <2>2, <2>3, <2>4, <2>5, <2>6, <2>7, <2>8, <2>9, <2>10,
             <2>11, <2>12, <2>13
          DEF Next, ConsumeClaim, PublishEvent, PublishForeign
<1> QED BY <1>1, <1>2, PTL DEF Safety

-----------------------------------------------------------------------------
(* Rule K2: what is marked was handled, or is no event; in every session,   *)
(* through rebalances and crashes.                                          *)
THEOREM MarkedIsHandled == Safety => []MarkedWasHandled
<1>1. Init => MarkInv
  BY DEF Init, MarkInv, MarkedWasHandled
<1>2. GroupInv /\ MarkInv /\ [Next]_vars => MarkInv'
  <2> SUFFICES ASSUME GroupInv, MarkInv, [Next]_vars
               PROVE  MarkInv'
    OBVIOUS
  <2> USE ReceivedType DEF GroupInv, InHand, MarkInv, MarkedWasHandled, Goto
  <2>1. ASSUME NEW kind \in {"event", "garbled"}, Produce(kind)
        PROVE  MarkInv'
    <3>1. marks' = marks /\ handled' = handled /\ pc' = pc /\ msg' = msg
      BY <2>1 DEF Produce, history
    <3> QED BY <2>1, <3>1, LogGrows
  <2>2. ASSUME NEW m \in Member,
               StartSession(m) \/ Revoke(m) \/ EndSession(m) \/ Crash(m)
        PROVE  MarkInv'
    <3>1. UNCHANGED <<log, marks, handled>>
      BY <2>2 DEF StartSession, Revoke, EndSession, Crash, broker, history
    <3>2. \A n \in Member : pc'[n] = "mark" => pc[n] = "mark" /\ msg'[n] = msg[n]
      BY <2>2 DEF StartSession, Revoke, EndSession, Crash, Drop, TypeOK
    <3> QED BY <3>1, <3>2 DEF Received
  <2>3. ASSUME NEW m \in Member,
               Receive(m) \/ ChannelClosed(m) \/ Parsed(m) \/ HandlerFails(m)
        PROVE  MarkInv'
    <3>1. UNCHANGED <<log, marks, handled>>
      BY <2>3 DEF Receive, ChannelClosed, Parsed, HandlerFails, broker, history
    <3>2. \A n \in Member : pc'[n] = "mark" => pc[n] = "mark" /\ msg'[n] = msg[n]
      BY <2>3 DEF Receive, ChannelClosed, Parsed, HandlerFails, AfterError, Drop,
                  TypeOK
    <3> QED BY <3>1, <3>2 DEF Received
  <2>4. ASSUME NEW m \in Member, Garbled(m)
        PROVE  MarkInv'
    <3>1. msg[m] \in Received /\ log[msg[m]] = "garbled"
      BY <2>4 DEF Garbled, FromJSON
    <3>2. UNCHANGED <<log, handled>> /\ marks' = marks \cup {msg[m]}
      BY <2>4 DEF Garbled, MarkMessage
    <3>3. \A n \in Member : pc'[n] = "mark" => pc[n] = "mark" /\ msg'[n] = msg[n]
      BY <2>4 DEF Garbled, AfterGarbled, Drop, TypeOK
    <3> QED BY <3>1, <3>2, <3>3 DEF Received
  <2>5. ASSUME NEW m \in Member, HandlerReturns(m)
        PROVE  MarkInv'
    <3>1. UNCHANGED <<log, marks, msg>> /\ handled' = handled \cup {msg[m]}
      BY <2>5 DEF HandlerReturns, broker
    <3>2. \A n \in Member : pc'[n] = "mark" => n = m \/ pc[n] = "mark"
      BY <2>5 DEF HandlerReturns, TypeOK
    <3> QED BY <3>1, <3>2 DEF Received
  <2>6. ASSUME NEW m \in Member, Mark(m)
        PROVE  MarkInv'
    <3>1. msg[m] \in Received /\ msg[m] \in handled
      BY <2>6 DEF Mark
    <3>2. UNCHANGED <<log, handled>> /\ marks' = marks \cup {msg[m]}
      BY <2>6 DEF Mark, MarkMessage
    <3>3. \A n \in Member : pc'[n] = "mark" => pc[n] = "mark" /\ msg'[n] = msg[n]
      BY <2>6 DEF Mark, Drop, TypeOK
    <3> QED BY <3>1, <3>2, <3>3 DEF Received
  <2>7. CASE UNCHANGED vars
    BY <2>7 DEF vars, broker, history, Received
  <2> QED BY <2>1, <2>2, <2>3, <2>4, <2>5, <2>6, <2>7
          DEF Next, ConsumeClaim, PublishEvent, PublishForeign
<1>3. MarkInv => MarkedWasHandled
  BY DEF MarkInv
<1> QED BY <1>1, <1>2, <1>3, GroupTypeCorrect, PTL DEF Safety

-----------------------------------------------------------------------------
(* Nothing is ever committed: a session starts at the end of the log.       *)
THEOREM NothingIsCommitted == Safety => []FreshInv
<1>1. Init => FreshInv
  BY DEF Init, FreshInv
<1>2. GroupInv /\ FreshInv /\ [Next]_vars => FreshInv'
  <2> SUFFICES ASSUME GroupInv, FreshInv, [Next]_vars
               PROVE  FreshInv'
    OBVIOUS
  <2> USE ReceivedType DEF GroupInv, FreshInv, Goto
  <2>1. ASSUME NEW kind \in {"event", "garbled"}, Produce(kind)
        PROVE  FreshInv'
    BY <2>1, LogGrows DEF Produce, history, TypeOK, Offset
  <2>2. ASSUME NEW m \in Member, StartSession(m)
        PROVE  FreshInv'
    BY <2>2 DEF StartSession, FromNewest, TypeOK
  <2>3. ASSUME NEW m \in Member, Revoke(m) \/ EndSession(m)
        PROVE  FreshInv'
    BY <2>3 DEF Revoke, EndSession, broker, history
  <2>4. ASSUME NEW m \in Member, Crash(m) \/ ChannelClosed(m)
        PROVE  FreshInv'
    BY <2>4 DEF Crash, ChannelClosed, Forget, broker, history, TypeOK
  <2>5. ASSUME NEW m \in Member, Receive(m)
        PROVE  FreshInv'
    BY <2>5 DEF Receive, broker, history, TypeOK
  <2>6. ASSUME NEW m \in Member, Garbled(m) \/ Parsed(m) \/ Mark(m)
        PROVE  FreshInv'
    BY <2>6 DEF Garbled, Parsed, Mark, MarkMessage, AutoCommit, broker, history
  <2>7. ASSUME NEW m \in Member, HandlerReturns(m) \/ HandlerFails(m)
        PROVE  FreshInv'
    <3>1. msg[m] \in Received
      BY <2>7 DEF HandlerReturns, HandlerFails, InHand
    <3>2. UNCHANGED <<log, committed, position>> /\ Call(m)
      BY <2>7 DEF HandlerReturns, HandlerFails, broker
    <3>3. \A o \in Offset : o # msg[m] => calls'[o] = calls[o]
      BY <3>1, <3>2 DEF Call, TypeOK
    <3> QED BY <3>1, <3>2, <3>3 DEF Received
  <2>8. CASE UNCHANGED vars
    BY <2>8 DEF vars, broker, history
  <2> QED BY <2>1, <2>2, <2>3, <2>4, <2>5, <2>6, <2>7, <2>8
          DEF Next, ConsumeClaim, PublishEvent, PublishForeign
<1> QED BY <1>1, <1>2, GroupTypeCorrect, PTL DEF Safety

-----------------------------------------------------------------------------
LEMMA WorkingMember ==
  /\ \A m \in Working : m \in Member
  /\ \A m \in Member : pc[m] # "stopped" \/ m \in live => m \in Working
BY DEF Working

(* A step that lets nobody start to work leaves one member at work.         *)
LEMMA WorkingShrinks ==
  ASSUME OnceInv, ~overlap,
         \A m \in Member : m \in live' => m \in live,
         \A m \in Member : pc'[m] # "stopped" => pc[m] # "stopped"
  PROVE  \A m, n \in Working' : m = n
BY DEF OnceInv, Working

(* A message reaches the handler once at most, through rebalances and       *)
(* crashes, as long as no two members have worked at once.                  *)
THEOREM HandledAtMostOnce == Safety => []AtMostOnce
<1>1. Init => OnceInv
  BY DEF Init, OnceInv, Working, Ahead
<1>2. GroupInv /\ FreshInv /\ OnceInv /\ [Next]_vars => OnceInv'
  <2> SUFFICES ASSUME GroupInv, FreshInv, OnceInv, [Next]_vars, ~overlap'
               PROVE  OnceInv'
    BY DEF OnceInv
  <2> USE ReceivedType DEF GroupInv, Goto
  <2>1. ASSUME NEW kind \in {"event", "garbled"}, Produce(kind)
        PROVE  OnceInv'
    BY <2>1 DEF Produce, history, OnceInv, Working, Ahead
  <2>2. ASSUME NEW m \in Member, StartSession(m)
        PROVE  OnceInv'
    <3>1. ~overlap /\ Working = {}
      BY <2>2 DEF StartSession, TypeOK
    <3>2. calls' = calls /\ msg' = msg /\ position'[m] = Len(log) + 1
      BY <2>2 DEF StartSession, FreshInv, FromNewest, TypeOK
    <3>3. \A n \in Member : n # m => pc'[n] = "stopped" /\ n \notin live'
      BY <2>2, <3>1 DEF StartSession, Working, TypeOK
    <3>4. pc'[m] = "claim"
      BY <2>2 DEF StartSession, TypeOK
    <3>5. \A n \in Member : Ahead(n)'
      <4>1. \A o \in Offset : o >= position'[m] => calls'[o] = 0
        BY <3>2 DEF FreshInv, Offset
      <4> QED BY <3>3, <3>4, <4>1 DEF Ahead
    <3>6. \A n \in Working' : n = m
      BY <3>3 DEF Working
    <3> QED BY <3>1, <3>2, <3>5, <3>6 DEF OnceInv
  <2>3. ASSUME NEW m \in Member,
               Revoke(m) \/ EndSession(m) \/ Crash(m) \/ ChannelClosed(m)
        PROVE  OnceInv'
    <3>1. UNCHANGED <<calls, overlap>>
      BY <2>3 DEF Revoke, EndSession, Crash, ChannelClosed, history
    <3>2. live' \subseteq live
      BY <2>3 DEF Revoke, EndSession, Crash, ChannelClosed
    <3>3. \A n \in Member : pc'[n] # "stopped" =>
            pc'[n] = pc[n] /\ msg'[n] = msg[n] /\ position'[n] = position[n]
      BY <2>3 DEF Revoke, EndSession, Crash, ChannelClosed, Drop, Forget, TypeOK
    <3>4. \A n \in Member : Ahead(n)'
      BY <3>1, <3>3 DEF OnceInv, Ahead
    <3>5. \A n1, n2 \in Working' : n1 = n2
      BY <3>1, <3>2, <3>3, WorkingShrinks
    <3> QED BY <3>1, <3>4, <3>5 DEF OnceInv
  <2>4. ASSUME NEW m \in Member, ConsumeClaim(m), pc[m] # "claim"
        PROVE  OnceInv'
    <3>1. overlap' = overlap /\ live' = live /\ position' = position
      BY <2>4 DEF ConsumeClaim, Receive, ChannelClosed, Garbled, Parsed,
                  HandlerReturns, HandlerFails, Mark, history
    <3>2. \A n \in Member : n # m => pc'[n] = pc[n] /\ msg'[n] = msg[n]
      BY <2>4 DEF ConsumeClaim, Receive, ChannelClosed, Garbled, Parsed,
                  HandlerReturns, HandlerFails, Mark, Drop, TypeOK
    <3>3. m \in Working /\ pc[m] \in {"parse", "handle", "mark"}
      BY <2>4, WorkingMember
         DEF ConsumeClaim, Receive, ChannelClosed, Garbled, Parsed,
             HandlerReturns, HandlerFails, Mark
    <3>4. msg[m] \in Received /\ msg[m] < position[m]
      BY <3>3 DEF InHand
    <3>5. \A n \in Member : n # m => pc[n] = "stopped"
      BY <3>1, <3>3, WorkingMember DEF OnceInv
    <3>6. \A n1, n2 \in Working' : n1 = n2
      BY <3>1, <3>2, <3>3, WorkingShrinks
    <3>7. CASE Garbled(m) \/ Parsed(m) \/ Mark(m)
      <4>1. calls' = calls
        BY <3>7 DEF Garbled, Parsed, Mark, history
      <4>2. pc'[m] \in {"claim", "handle"}
        BY <3>7 DEF Garbled, AfterGarbled, Parsed, Mark, TypeOK
      <4>3. pc'[m] = "handle" => pc[m] = "parse" /\ msg'[m] = msg[m]
        BY <3>7 DEF Garbled, AfterGarbled, Parsed, Mark, TypeOK
      <4>4. Ahead(m)'
        BY <3>1, <3>3, <4>1, <4>2, <4>3 DEF OnceInv, Ahead
      <4>5. \A n \in Member : Ahead(n)'
        BY <3>2, <3>5, <4>4 DEF Ahead
      <4> QED BY <3>1, <3>6, <4>1, <4>5 DEF OnceInv
    <3>8. CASE HandlerReturns(m) \/ HandlerFails(m)
      <4>1. pc[m] = "handle" /\ Call(m) /\ pc'[m] \in {"mark", "claim"}
        BY <3>8 DEF HandlerReturns, HandlerFails, AfterError, TypeOK
      <4>2. calls[msg[m]] = 0
        BY <3>1, <4>1 DEF OnceInv, Ahead
      <4>3. calls' = [calls EXCEPT ![msg[m]] = 1]
        BY <3>4, <4>1, <4>2 DEF Call, TypeOK
      <4>4. \A o \in Offset : /\ o >= position[m] => calls'[o] = 0
                              /\ calls'[o] <= 1
        <5>1. \A o \in Offset : calls[o] \in Nat /\ calls[o] <= 1
          BY <3>1 DEF OnceInv, TypeOK
        <5>2. \A o \in Offset : o >= position[m] => calls[o] = 0 /\ o # msg[m]
          BY <3>1, <3>3, <3>4 DEF OnceInv, Ahead, TypeOK, Offset
        <5>3. \A o \in Offset : calls'[o] = IF o = msg[m] THEN 1 ELSE calls[o]
          BY <4>3 DEF TypeOK
        <5> QED BY <5>1, <5>2, <5>3
      <4>5. \A n \in Member : Ahead(n)'
        BY <3>1, <3>2, <3>5, <4>1, <4>4 DEF Ahead
      <4> QED BY <3>6, <4>4, <4>5 DEF OnceInv
    <3> QED BY <2>4, <3>7, <3>8 DEF ConsumeClaim, Receive, ChannelClosed
  <2>5. ASSUME NEW m \in Member, Receive(m)
        PROVE  OnceInv'
    <3>1. UNCHANGED <<overlap, live, calls>>
      BY <2>5 DEF Receive, history
    <3>2. \A n \in Member : n # m => /\ pc'[n] = pc[n] /\ msg'[n] = msg[n]
                                     /\ position'[n] = position[n]
      BY <2>5 DEF Receive, TypeOK
    <3>3. position[m] \in Received /\ pc[m] = "claim"
      BY <2>5 DEF Receive, TypeOK, Received
    <3>4. /\ pc'[m] = "parse" /\ msg'[m] = position[m]
          /\ position'[m] = position[m] + 1
      BY <2>5 DEF Receive, TypeOK
    <3>5. Ahead(m)'
      <4>1. \A o \in Offset : o >= position[m] => calls[o] = 0
        BY <3>1, <3>3 DEF OnceInv, Ahead
      <4>2. calls[position[m]] = 0
        BY <3>3, <4>1 DEF Offset
      <4>3. \A o \in Offset : o >= position[m] + 1 => calls[o] = 0
        BY <3>3, <4>1 DEF Offset, Received
      <4> QED BY <3>1, <3>4, <4>2, <4>3 DEF Ahead
    <3>6. \A n \in Member : Ahead(n)'
      BY <3>1, <3>2, <3>5 DEF OnceInv, Ahead
    <3>7. \A n1, n2 \in Working' : n1 = n2
      BY <3>1, <3>2, <3>3, WorkingShrinks
    <3> QED BY <3>1, <3>6, <3>7 DEF OnceInv
  <2>6. CASE UNCHANGED vars
    BY <2>6 DEF vars, broker, history, OnceInv, Working, Ahead
  <2>7. ASSUME NEW m \in Member, ConsumeClaim(m), pc[m] = "claim"
        PROVE  Receive(m) \/ ChannelClosed(m)
    BY <2>7 DEF ConsumeClaim, Garbled, Parsed, HandlerReturns, HandlerFails, Mark
  <2>8. ASSUME NEW m \in Member, ConsumeClaim(m)
        PROVE  OnceInv'
    BY <2>3, <2>4, <2>5, <2>7, <2>8
  <2>9. CASE PublishEvent \/ PublishForeign
    BY <2>1, <2>9 DEF PublishEvent, PublishForeign
  <2>10. ASSUME NEW m \in Member,
                \/ StartSession(m) \/ Revoke(m) \/ EndSession(m) \/ Crash(m)
                \/ ConsumeClaim(m)
         PROVE  OnceInv'
    BY <2>2, <2>3, <2>8, <2>10
  <2> QED BY <2>6, <2>9, <2>10 DEF Next
<1>3. OnceInv => AtMostOnce
  BY DEF OnceInv, AtMostOnce
<1> QED BY <1>1, <1>2, <1>3, GroupTypeCorrect, NothingIsCommitted, PTL DEF Safety

-----------------------------------------------------------------------------
(* The consumer.                                                           *)
(* Every step of the consumer is a step of the group, or leaves it alone.   *)
LEMMA GroupStep == [ConsumerNext]_consumerVars => [Next]_vars
<1> SUFFICES ASSUME [ConsumerNext]_consumerVars
             PROVE  [Next]_vars
  OBVIOUS
<1>1. CASE StartStep
  BY <1>1 DEF StartStep, Close
<1>2. CASE LoopStep
  BY <1>2 DEF LoopStep, Join, SessionDone, ConsumeReturns, Next
<1>3. CASE SessionDone
  BY <1>3 DEF SessionDone, Next
<1>4. ASSUME NEW m \in Member,
             \/ StartSession(m) \/ Revoke(m) \/ EndSession(m) \/ Crash(m)
             \/ ConsumeClaim(m)
      PROVE  Next
  BY <1>4 DEF Next
<1>5. CASE PublishEvent \/ PublishForeign
  BY <1>5 DEF Next
<1>6. CASE UNCHANGED consumerVars
  BY <1>6 DEF consumerVars
<1> QED BY <1>1, <1>2, <1>3, <1>4, <1>5, <1>6 DEF ConsumerNext, Others

(* A consumer, in its group, keeps what EventConsumer promises.             *)
THEOREM ConsumerIsAMember == ConsumerSpec => Safety
<1>1. ConsumerInit => Init
  BY DEF ConsumerInit
<1> QED BY <1>1, GroupStep, PTL DEF ConsumerSpec, Safety

(* ... and runs Start: each of its steps is one of ConsumerStart.           *)
THEOREM ConsumerRunsStart ==
  ConsumerSpec => Start!Init /\ [][Start!Next]_(Start!vars)
<1>1. ConsumerInit => Start!Init
  BY DEF ConsumerInit
<1>2. [ConsumerNext]_consumerVars => [Start!Next]_(Start!vars)
  BY DEF ConsumerNext, consumerVars, startVars, StartStep, LoopStep, Close, Join,
         SessionDone, ConsumeReturns, Start!Next, Start!StartStep,
         Start!LoopStep, Start!vars
<1> QED BY <1>1, <1>2, PTL DEF ConsumerSpec

(* Channels are closed in the order they are made; and the loop makes one   *)
(* more only while the group is not settled.                                *)
ChannelInv ==
  /\ Start!TypeOK
  /\ closed \subseteq 1 .. ready
  /\ NeverClosedTwice
  /\ loop = "check" => ready < Attempts \/ ctxDone
  /\ loop = "reset" => ready < Attempts

LEMMA ChannelsInOrder ==
  Start!Init /\ [][Start!Next]_(Start!vars) => []ChannelInv
<1> USE DEF Start!Channel, Start!None, NeverClosedTwice, Start!NeverClosedTwice
<1>1. Start!Init => ChannelInv
  <2> SUFFICES ASSUME Start!Init
               PROVE  ChannelInv
    OBVIOUS
  <2>1. Start!TypeOK
    <3>1. closed \in SUBSET Start!Channel /\ ctxDone \in BOOLEAN
      BY DEF Start!Init
    <3>2. 1 \in Start!Channel
      OBVIOUS
    <3> QED BY <3>1, <3>2 DEF Start!Init, Start!TypeOK
  <2> QED BY <2>1 DEF Start!Init, ChannelInv
<1>2. ChannelInv /\ [Start!Next]_(Start!vars) => ChannelInv'
  <2> SUFFICES ASSUME ChannelInv, [Start!Next]_(Start!vars)
               PROVE  ChannelInv'
    OBVIOUS
  <2> USE DEF ChannelInv, Start!TypeOK, Start!Main, Start!Loop
  <2>1. CASE Start!StartStep
    BY <2>1 DEF Start!StartStep, Start!ReadReady, Start!Ready, Start!AwaitCtx,
                Start!CloseGroup
  <2>2. CASE Start!Setup
    <3>1. closed' \in SUBSET Start!Channel /\ closed' \subseteq 1 .. ready'
      BY <2>2 DEF Start!Setup
    <3> QED BY <2>2, <3>1 DEF Start!Setup
  <2>3. CASE Start!ConsumeFails \/ Start!SessionEnds
    BY <2>3 DEF Start!ConsumeFails, Start!SessionEnds, Start!Unsettled
  <2>4. CASE Start!CheckCtx
    BY <2>4 DEF Start!CheckCtx, Start!StopLoop
  <2>5. CASE Start!ResetReady
    <3>1. ready' = ready + 1 /\ ready' \in Start!Channel /\ closed' = closed
      BY <2>5 DEF Start!ResetReady, Start!NextChannel
    <3>2. closed' \subseteq 1 .. ready' /\ ready' \notin closed'
      BY <3>1
    <3> QED BY <2>5, <3>1, <3>2 DEF Start!ResetReady
  <2>6. CASE Start!Cancel
    BY <2>6 DEF Start!Cancel
  <2>7. CASE UNCHANGED Start!vars
    BY <2>7 DEF Start!vars
  <2> QED BY <2>1, <2>2, <2>3, <2>4, <2>5, <2>6, <2>7
          DEF Start!Next, Start!LoopStep
<1> QED BY <1>1, <1>2, PTL

(* Both goroutines, the channels and the group stay well typed.             *)
THEOREM ConsumerTypeCorrect == ConsumerSpec => []ConsumerTypeOK
<1>1. GroupInv /\ ChannelInv => ConsumerTypeOK
  BY DEF GroupInv, ChannelInv, ConsumerTypeOK
<1> QED BY <1>1, ConsumerIsAMember, ConsumerRunsStart, GroupTypeCorrect,
           ChannelsInOrder, PTL

(* Setup finds a channel of its own in every session: none is closed twice. *)
THEOREM ClosedOnce == ConsumerSpec => []NeverClosedTwice
<1>1. ChannelInv => NeverClosedTwice
  BY DEF ChannelInv
<1> QED BY <1>1, ConsumerRunsStart, ChannelsInOrder, PTL

(* In a consumer, too, what is marked was handled, or is no event.          *)
THEOREM ConsumerMarksHandled == ConsumerSpec => []MarkedWasHandled
BY ConsumerIsAMember, MarkedIsHandled, PTL

(* In a consumer, too, a message reaches the handler once at most.          *)
THEOREM ConsumerHandlesOnce == ConsumerSpec => []AtMostOnce
BY ConsumerIsAMember, HandledAtMostOnce, PTL

-----------------------------------------------------------------------------
(* ConsumeClaim and the session's context live inside Consume; and Consume  *)
(* is over when Start returns.                                              *)
SessionInv ==
  /\ loop # "session" => ClaimReturned
  /\ main = "returned" => loop # "session"

(* When Start returns, the handler is not running, and will not be called.  *)
THEOREM HandlerStopsWithStart == ConsumerSpec => []HandlerDoneOnReturn
<1>1. ConsumerInit => SessionInv
  BY DEF ConsumerInit, Init, Start!Init, SessionInv, ClaimReturned
<1>2. TypeOK /\ SessionInv /\ [ConsumerNext]_consumerVars => SessionInv'
  <2> SUFFICES ASSUME TypeOK, SessionInv, [ConsumerNext]_consumerVars
               PROVE  SessionInv'
    OBVIOUS
  <2> USE DEF SessionInv, ClaimReturned, vars, Goto, Start!Main, Start!Loop
  <2>1. CASE StartStep
    BY <2>1 DEF StartStep, Close, CloseWaits, Start!ReadReady, Start!Ready,
                Start!AwaitCtx, Start!CloseGroup
  <2>2. CASE Join
    BY <2>2 DEF Join, Start!Setup
  <2>3. CASE /\ Start!ConsumeFails \/ Start!CheckCtx \/ Start!ResetReady
             /\ UNCHANGED vars
    BY <2>3 DEF Start!ConsumeFails, Start!CheckCtx, Start!ResetReady
  <2>4. CASE SessionDone
    BY <2>4 DEF SessionDone, EndSession, startVars
  <2>5. CASE ConsumeReturns
    BY <2>5 DEF ConsumeReturns, Start!SessionEnds
  <2>6. CASE Start!Cancel /\ UNCHANGED vars
    BY <2>6 DEF Start!Cancel
  <2>7. CASE (PublishEvent \/ PublishForeign) /\ UNCHANGED startVars
    BY <2>7 DEF PublishEvent, PublishForeign, Produce, startVars
  <2>8. CASE Revoke(Self) /\ UNCHANGED startVars
    BY <2>8 DEF Revoke, startVars
  <2>9. CASE ConsumeClaim(Self) /\ UNCHANGED startVars
    <3>1. pc[Self] # "stopped" \/ Self \in live
      BY <2>9 DEF ConsumeClaim, Receive, ChannelClosed, Garbled, Parsed,
                  HandlerReturns, HandlerFails, Mark
    <3> QED BY <2>9, <3>1 DEF startVars
  <2>10. ASSUME NEW m \in Others, UNCHANGED startVars,
                \/ StartSession(m) \/ Revoke(m) \/ EndSession(m) \/ Crash(m)
                \/ ConsumeClaim(m)
         PROVE  SessionInv'
    <3>1. pc'[Self] = pc[Self]
      BY <2>10 DEF Others, StartSession, Revoke, EndSession, Crash, ConsumeClaim,
                   Receive, ChannelClosed, Garbled, Parsed, HandlerReturns,
                   HandlerFails, Mark, TypeOK
    <3>2. Self \in live' <=> Self \in live
      BY <2>10 DEF Others, StartSession, Revoke, EndSession, Crash, ConsumeClaim,
                   Receive, ChannelClosed, Garbled, Parsed, HandlerReturns,
                   HandlerFails, Mark
    <3> QED BY <2>10, <3>1, <3>2 DEF startVars
  <2>11. CASE UNCHANGED consumerVars
    BY <2>11 DEF consumerVars, startVars
  <2> QED BY <2>1, <2>2, <2>3, <2>4, <2>5, <2>6, <2>7, <2>8, <2>9, <2>10, <2>11
          DEF ConsumerNext, LoopStep
<1>3. SessionInv => HandlerDoneOnReturn
  BY DEF SessionInv, HandlerDoneOnReturn, ClaimReturned
<1>4. GroupInv => TypeOK
  BY DEF GroupInv
<1> QED BY <1>1, <1>2, <1>3, <1>4, ConsumerIsAMember, GroupTypeCorrect, PTL
        DEF ConsumerSpec
===============================================================================
