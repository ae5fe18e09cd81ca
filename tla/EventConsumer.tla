---------------------------- MODULE EventConsumer ----------------------------
(***************************************************************************)
(* The consumer side of internal/kafka/consumer.go: members of a group run *)
(* ConsumeClaim on one partition, a session at a time, while messages are  *)
(* produced, the group rebalances and members crash.                       *)
(*                                                                         *)
(* sarama is modelled by what ConsumeClaim sees of it: the channel of the  *)
(* claim, MarkMessage, and the offset a session starts from.  Offsets      *)
(* count from 1.  A session may end for its member long after the group    *)
(* has given its partition away: a member cut off from the coordinator     *)
(* goes on fetching.                                                       *)
(***************************************************************************)
EXTENDS Naturals, Sequences

CONSTANTS
  Member,      \* members of the consumer group
  NoMember,
  MaxLog       \* bound: messages produced

ASSUME ConsumerAssumption ==
  /\ NoMember \notin Member
  /\ MaxLog \in Nat

VARIABLES
  log,        \* the partition: the kind of each message
  committed,  \* the group's committed offset, the next to consume; or None
  owner,      \* the member the group has assigned the partition to
  pc,         \* control point of each member's ConsumeClaim
  live,       \* members whose session context is not done
  position,   \* the next offset the claim's channel yields
  msg,        \* the offset in hand
  calls,      \* history: handler calls of each offset, saturated at 2
  handled,    \* history: offsets whose handler returned nil
  failed,     \* history: offsets whose handler returned an error or panicked
  marks,      \* history: offsets given to MarkMessage
  overlap     \* history: two members have worked on the partition at once

broker == <<log, committed, owner>>
history == <<calls, handled, failed, marks, overlap>>
vars == <<broker, pc, live, position, msg, history>>

None == 0
Offset == 1 .. MaxLog

TypeOK ==
  /\ log \in Seq({"event", "garbled"}) /\ Len(log) <= MaxLog
  /\ committed \in {None} \cup 2 .. MaxLog + 1
  /\ owner \in Member \cup {NoMember}
  /\ pc \in [Member -> {"stopped", "claim", "parse", "handle", "mark"}]
  /\ live \in SUBSET Member
  /\ position \in [Member -> 1 .. MaxLog + 1]
  /\ msg \in [Member -> Offset \cup {None}]
  /\ calls \in [Offset -> 0 .. 2]
  /\ handled \in SUBSET Offset /\ failed \in SUBSET Offset
  /\ marks \in SUBSET Offset
  /\ overlap \in BOOLEAN

Init ==
  /\ log = <<>>
  /\ committed = None
  /\ owner = NoMember
  /\ pc = [m \in Member |-> "stopped"]
  /\ live = {}
  /\ position = [m \in Member |-> 1]
  /\ msg = [m \in Member |-> None]
  /\ calls = [o \in Offset |-> 0]
  /\ handled = {} /\ failed = {} /\ marks = {}
  /\ overlap = FALSE

Goto(m, from, to) ==
  /\ pc[m] = from
  /\ pc' = [pc EXCEPT ![m] = to]

\* The message in hand, and the channel of the claim, go out of scope.
Drop(m) ==
  msg' = IF pc'[m] \in {"claim", "stopped"} THEN [msg EXCEPT ![m] = None] ELSE msg
Forget(m) == position' = [position EXCEPT ![m] = 1]

-----------------------------------------------------------------------------
(* The group.                                                              *)
Produce(kind) ==
  /\ Len(log) < MaxLog
  /\ log' = Append(log, kind)
  /\ UNCHANGED <<committed, owner, pc, live, position, msg, history>>

\* PublishEvent, from ToJSON to a SendMessage without an error: the producer
\* is idempotent, the event is there once.
PublishEvent == Produce("event")

\* Another program writes to the topic.
PublishForeign == Produce("garbled")

\* Offsets.Initial is sarama's default: a group without a committed offset
\* starts with the next message produced.
FromOldest == 1                              \* mutant: OffsetOldest
FromNewest == Len(log) + 1

Working == {m \in Member : m \in live \/ pc[m] # "stopped"}

StartSession(m) ==
  /\ owner = NoMember
  /\ Goto(m, "stopped", "claim")
  /\ owner' = m
  /\ live' = live \cup {m}
  /\ position' = [position EXCEPT ![m] =
                    IF committed = None THEN FromNewest ELSE committed]
  /\ overlap' = (overlap \/ Working # {})
  /\ UNCHANGED <<log, committed, msg, calls, handled, failed, marks>>

\* The group takes the partition back.
Revoke(m) ==
  /\ owner = m
  /\ owner' = NoMember
  /\ UNCHANGED <<log, committed, pc, live, position, msg, history>>

\* The member's session ends: its context is done, its channel closes.
EndSession(m) ==
  /\ m \in live
  /\ live' = live \ {m}
  /\ UNCHANGED <<broker, pc, position, msg, history>>

Crash(m) ==
  /\ pc[m] # "stopped"
  /\ Goto(m, pc[m], "stopped")
  /\ live' = live \ {m}
  /\ Drop(m) /\ Forget(m)
  /\ UNCHANGED <<broker, history>>

-----------------------------------------------------------------------------
(* ConsumeClaim.                                                           *)
\* for msg := range claim.Messages().  When the session has ended, sarama
\* closes the channel; what is in it by then is still received.
Receive(m) ==
  /\ position[m] <= Len(log)
  /\ Goto(m, "claim", "parse")
  /\ msg' = [msg EXCEPT ![m] = position[m]]
  /\ position' = [position EXCEPT ![m] = @ + 1]
  /\ UNCHANGED <<broker, live, history>>

ChannelClosed(m) ==
  /\ m \notin live
  /\ Goto(m, "claim", "stopped")
  /\ Forget(m)
  /\ UNCHANGED <<broker, live, msg, history>>

\* session.MarkMessage: the offset manager commits what is marked, if
\* Offsets.AutoCommit is enabled.
AutoCommit == FALSE

MarkMessage(m) ==
  /\ marks' = marks \cup {msg[m]}
  /\ committed' = IF AutoCommit /\ m \in live /\ committed <= msg[m]
                  THEN msg[m] + 1 ELSE committed

\* Any JSON object is an event to FromJSON, whatever its fields.
FromJSON(kind) == kind = "event"

\* A message that is no event is marked, and passed over.
RetryParse == "parse"                        \* mutant: waits for a fixed one
AfterGarbled == "claim"

Garbled(m) ==
  /\ pc[m] = "parse" /\ ~FromJSON(log[msg[m]])
  /\ Goto(m, "parse", AfterGarbled)
  /\ MarkMessage(m) /\ Drop(m)
  /\ UNCHANGED <<log, owner, live, position, calls, handled, failed, overlap>>

Parsed(m) ==
  /\ Goto(m, "parse", "handle")
  /\ FromJSON(log[msg[m]])
  /\ UNCHANGED <<broker, live, position, msg, history>>

\* h.handler: nil, or an error, a timeout or a recovered panic.
Call(m) == calls' = [calls EXCEPT ![msg[m]] = IF @ = 2 THEN 2 ELSE @ + 1]

HandlerReturns(m) ==
  /\ Goto(m, "handle", "mark")
  /\ Call(m)
  /\ handled' = handled \cup {msg[m]}
  /\ UNCHANGED <<broker, live, position, msg, failed, marks, overlap>>

ErrorForgotten == "mark"                     \* mutant: marks all the same
AfterError == "claim"

HandlerFails(m) ==
  /\ Goto(m, "handle", AfterError)
  /\ Call(m)
  /\ failed' = failed \cup {msg[m]}
  /\ Drop(m)
  /\ UNCHANGED <<broker, live, position, handled, marks, overlap>>

Mark(m) ==
  /\ Goto(m, "mark", "claim")
  /\ MarkMessage(m) /\ Drop(m)
  /\ UNCHANGED <<log, owner, live, position, calls, handled, failed, overlap>>

ConsumeClaim(m) ==
  \/ Receive(m)
  \/ ChannelClosed(m)
  \/ Garbled(m)
  \/ Parsed(m)
  \/ HandlerReturns(m)
  \/ HandlerFails(m)
  \/ Mark(m)

Next ==
  \/ PublishEvent \/ PublishForeign
  \/ \E m \in Member : \/ StartSession(m)
                       \/ Revoke(m)
                       \/ EndSession(m)
                       \/ Crash(m)
                       \/ ConsumeClaim(m)

Safety == Init /\ [][Next]_vars

(* A member runs, and its handler returns: ConsumeClaim gives it thirty     *)
(* seconds.  The group assigns a partition nobody has.                      *)
Spec ==
  /\ Safety
  /\ \A m \in Member : WF_vars(ConsumeClaim(m))
  /\ WF_vars(\E m \in Member : StartSession(m))

-----------------------------------------------------------------------------
(* Rule K2 of the comments (line 175): business logic first.  An event is   *)
(* marked only after its handler has returned nil, in this session or in an *)
(* earlier one; what is not an event is marked too.                         *)
MarkedWasHandled ==
  \A o \in marks : o \in handled \/ log[o] = "garbled"

(* Nothing is ever committed and a session starts at the end of the log: a  *)
(* message reaches the handler once at most, through rebalances and         *)
(* crashes, as long as no two members have worked at once.                  *)
AtMostOnce == ~overlap => \A o \in Offset : calls[o] <= 1

(* Neither a garbled message nor a handler that fails holds the partition   *)
(* up: a session that lasts works off the whole log (line 167).             *)
WorkedOff(m) == pc[m] = "claim" /\ position[m] > Len(log)

NeverBlocked == \A m \in Member : <>[](m \in live) => <>[]WorkedOff(m)

(* Lines 191 and 194: an event whose handler failed is not marked, and      *)
(* "next time" it is tried again; here, if sessions end and start for ever. *)
SessionsRecur == []<>(live = {}) /\ []<>(live # {})

FailedIsRetried ==
  SessionsRecur =>
    \A o \in Offset : o \in failed /\ o \notin handled ~> calls[o] > 1
=============================================================================
