------------------------------- MODULE Consumer -------------------------------
(***************************************************************************)
(* A consumer as a whole: Start with its loop (ConsumerStart) in one       *)
(* member, Self, of the group whose members run ConsumeClaim               *)
(* (EventConsumer).  The other members come and go, and crash, as they do  *)
(* there.                                                                  *)
(*                                                                         *)
(* What ties the two together is sarama's ConsumerGroup: Consume calls     *)
(* Setup, then ConsumeClaim if the member was given the partition; it      *)
(* returns when the session's context is done and ConsumeClaim has         *)
(* returned; and Close waits for the lock that Consume holds.              *)
(***************************************************************************)
EXTENDS EventConsumer

CONSTANTS
  Self,
  Attempts   \* bound: calls of Consume before the group settles

ASSUME StartAssumption == Self \in Member /\ Attempts \in Nat \ {0}

VARIABLES main, loop, ready, closed, waitsOn, ctxDone

startVars == <<main, loop, ready, closed, waitsOn, ctxDone>>
consumerVars == <<vars, startVars>>

Start == INSTANCE ConsumerStart

ConsumerTypeOK == TypeOK /\ Start!TypeOK

ConsumerInit == Init /\ Start!Init

-----------------------------------------------------------------------------
(* Consume.                                                                *)
\* The session has the partition, or none, when another member has it.
Join ==
  /\ Start!Setup
  /\ pc[Self] = "stopped" /\ Self \notin live
  /\ \/ StartSession(Self)
     \/ owner \notin {NoMember, Self} /\ UNCHANGED vars

\* A rebalance, a lost connection, or ctx is done.
SessionDone ==
  /\ Start!Unsettled
  /\ EndSession(Self)
  /\ UNCHANGED startVars

ClaimReturned == pc[Self] = "stopped" /\ Self \notin live

ConsumeReturns ==
  /\ ClaimReturned
  /\ Start!SessionEnds
  /\ UNCHANGED vars

\* c.Close()
NotClosed == TRUE                            \* mutant: returns without Close
CloseWaits == loop # "session"

Close ==
  /\ CloseWaits
  /\ Start!CloseGroup
  /\ UNCHANGED vars

StartStep ==
  \/ (Start!ReadReady \/ Start!Ready \/ Start!AwaitCtx) /\ UNCHANGED vars
  \/ Close

LoopStep ==
  \/ Join
  \/ (Start!ConsumeFails \/ Start!CheckCtx \/ Start!ResetReady) /\ UNCHANGED vars
  \/ ctxDone /\ SessionDone
  \/ ConsumeReturns

Others == Member \ {Self}

ConsumerNext ==
  \/ StartStep \/ LoopStep \/ SessionDone
  \/ Start!Cancel /\ UNCHANGED vars
  \/ /\ \/ PublishEvent \/ PublishForeign
        \/ Revoke(Self) \/ ConsumeClaim(Self)
        \/ \E m \in Others : \/ StartSession(m)
                             \/ Revoke(m)
                             \/ EndSession(m)
                             \/ Crash(m)
                             \/ ConsumeClaim(m)
     /\ UNCHANGED startVars

(* The goroutines are scheduled, and a handler returns: ConsumeClaim gives  *)
(* it thirty seconds.  Consume returns when ctx is done.                    *)
ConsumerSpec ==
  /\ ConsumerInit /\ [][ConsumerNext]_consumerVars
  /\ WF_consumerVars(StartStep) /\ WF_consumerVars(LoopStep)
  /\ \A m \in Member : WF_consumerVars(ConsumeClaim(m) /\ UNCHANGED startVars)

-----------------------------------------------------------------------------
(* Line 137: close of a closed channel would panic, and Consume's panic ends *)
(* the loop.  Every session finds a channel of its own, also when the       *)
(* sessions follow upon rebalances and the handler runs on in between.      *)
NeverClosedTwice == Start!NeverClosedTwice

(* Lines 104 to 108: when Start returns, the handler of its messages is not *)
(* running any more, and will not be called again.                          *)
HandlerDoneOnReturn == main = "returned" => pc[Self] = "stopped"

(* Lines 84 to 88: a cancelled context ends the loop, also with a message   *)
(* in hand, a rebalance on the way or the partition lost.                   *)
LoopStops == ctxDone ~> loop = "exited"
=============================================================================
