---------------------------- MODULE ConsumerStart ----------------------------
(***************************************************************************)
(* Consumer.Start of internal/kafka/consumer.go: the calling goroutine     *)
(* waits on the handler's `ready' channel while a second goroutine runs    *)
(* group.Consume in a loop; Setup closes the channel at the start of each  *)
(* session and the loop makes a new one after it.                          *)
(*                                                                         *)
(* Channels are numbered in the order they are made.  The field `ready' is *)
(* read by Start and written by the loop without a lock, so Start may wait *)
(* on any of them.                                                         *)
(***************************************************************************)
EXTENDS Naturals

CONSTANT Attempts   \* bound: calls of Consume before the group settles

VARIABLES
  main,      \* control point of Start
  loop,      \* control point of the loop
  ready,     \* consumerHandler.ready: the current channel
  closed,    \* channels that are closed
  waitsOn,   \* the channel Start has read from the field, or None
  ctxDone    \* ctx is done

vars == <<main, loop, ready, closed, waitsOn, ctxDone>>

None == 0
Channel == 1 .. Attempts

TypeOK ==
  /\ main \in {"begin", "ready", "ctx", "close", "returned"}
  /\ loop \in {"consume", "session", "check", "reset", "exited"}
  /\ ready \in Channel
  /\ closed \in SUBSET Channel
  /\ waitsOn \in Channel \cup {None}
  /\ ctxDone \in BOOLEAN

Init ==
  /\ main = "begin" /\ loop = "consume"
  /\ ready = 1 /\ closed = {} /\ waitsOn = None
  /\ ctxDone = FALSE

Main(from, to) == main = from /\ main' = to
Loop(from, to) == loop = from /\ loop' = to

-----------------------------------------------------------------------------
(* The calling goroutine.                                                  *)
\* <-consumerHandler.ready: the field is read, then the channel waited for.
ReadReady ==
  /\ Main("begin", "ready")
  /\ waitsOn' = ready
  /\ UNCHANGED <<loop, ready, closed, ctxDone>>

Ready ==
  /\ waitsOn \in closed
  /\ Main("ready", "ctx")
  /\ waitsOn' = None
  /\ UNCHANGED <<loop, ready, closed, ctxDone>>

AwaitCtx ==
  /\ ctxDone
  /\ Main("ctx", "close")
  /\ UNCHANGED <<loop, ready, closed, waitsOn, ctxDone>>

\* c.Close()
CloseGroup ==
  /\ Main("close", "returned")
  /\ UNCHANGED <<loop, ready, closed, waitsOn, ctxDone>>

-----------------------------------------------------------------------------
(* The loop.  Until the group settles, Consume may fail and sessions end.  *)
Unsettled == ready < Attempts \/ ctxDone

\* Consume calls Setup, which closes the channel; its session begins.
Setup ==
  /\ main # "returned"
  /\ Loop("consume", "session")
  /\ closed' = closed \cup {ready}
  /\ UNCHANGED <<main, ready, waitsOn, ctxDone>>

\* Consume returns without a session: no broker, ctx done, or group closed.
ConsumeFails ==
  /\ Unsettled
  /\ Loop("consume", "check")
  /\ UNCHANGED <<main, ready, closed, waitsOn, ctxDone>>

SessionEnds ==
  /\ Unsettled
  /\ Loop("session", "check")
  /\ UNCHANGED <<main, ready, closed, waitsOn, ctxDone>>

CtxNotChecked == FALSE                       \* mutant: no ctx.Err() check
StopLoop == ctxDone

CheckCtx ==
  /\ Loop("check", IF StopLoop THEN "exited" ELSE "reset")
  /\ UNCHANGED <<main, ready, closed, waitsOn, ctxDone>>

\* The select changes nothing; a new channel takes the place of the old one.
SameChannel == ready                         \* mutant: no new channel
NilChannel == None                           \* mutant: the field is cleared
NextChannel == IF ready < Attempts THEN ready + 1 ELSE ready

ResetReady ==
  /\ Loop("reset", "consume")
  /\ ready' = NextChannel
  /\ UNCHANGED <<main, closed, waitsOn, ctxDone>>

\* The caller of Start cancels ctx.
Cancel ==
  /\ ~ctxDone
  /\ ctxDone' = TRUE
  /\ UNCHANGED <<main, loop, ready, closed, waitsOn>>

StartStep == ReadReady \/ Ready \/ AwaitCtx \/ CloseGroup
LoopStep == Setup \/ ConsumeFails \/ SessionEnds \/ CheckCtx \/ ResetReady

Next == StartStep \/ LoopStep \/ Cancel

(* Both goroutines are scheduled; Consume returns when its ctx is done.     *)
Spec ==
  /\ Init /\ [][Next]_vars
  /\ WF_vars(StartStep)
  /\ WF_vars(LoopStep)

-----------------------------------------------------------------------------
(* Setup never closes a channel that is closed already, which would panic   *)
(* and end the loop: each session has a channel of its own (line 96).       *)
NeverClosedTwice == loop = "consume" => ready \notin closed

(* Lines 104 to 108: once ctx is cancelled, Start closes the group and      *)
(* returns.                                                                 *)
StartReturns == ctxDone ~> main = "returned"
=============================================================================
