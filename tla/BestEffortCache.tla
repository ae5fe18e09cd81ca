--------------------------- MODULE BestEffortCache ---------------------------
(***************************************************************************)
(* What FallbackCache (internal/redis/fallback.go) promises its callers,   *)
(* and it is not much.  A call sends its Redis command at most             *)
(* MaxRetries + 1 times, because the client repeats a command whose reply  *)
(* it missed; each copy runs at most once, none before the call, but a     *)
(* copy of a write may run between two others' commands and even after the *)
(* call has returned.  A Get answers what a copy of it read during the     *)
(* call, or Nil (the empty string); an error of Redis never reaches the    *)
(* caller; and every call returns.                                         *)
(***************************************************************************)
EXTENDS Naturals

CONSTANTS Thread,      \* goroutines that use the cache
          Key,         \* Redis keys
          Value,       \* cached values
          Nil,         \* no value: a missing key, or the answer ""
          MaxRetries   \* how often the client repeats a command

VARIABLES store,    \* store[k]: what Redis holds under k
          late,     \* late[c]: copies of c nobody waits for any more
          call,     \* call[t]: the call t is executing, or NoCall
          sent,     \* sent[t]: how often its command was tried
          answer    \* answer[t]: Pending, or what the call of t will return

vars == <<store, late, call, sent, answer>>

GetCall == [op : {"get"}, key : Key]
SetCall == [op : {"set"}, key : Key, val : Value]
DelCall == [op : {"del"}, key : Key]
IsDegradedCall == [op : {"isDegraded"}]
WriteCall == SetCall \cup DelCall
Call == GetCall \cup WriteCall \cup IsDegradedCall

NoCall == [op |-> "none"]
Pending == "pending"

\* The Redis command a call stands for, and its reply.
Effect(c) ==
  CASE c.op = "set" -> [store EXCEPT ![c.key] = c.val]
    [] c.op = "del" -> [store EXCEPT ![c.key] = Nil]
    [] OTHER        -> store

Reply(c) == IF c.op = "get" THEN store[c.key] ELSE Nil

TypeOK ==
  /\ store \in [Key -> Value \cup {Nil}]
  /\ late \in [WriteCall -> Nat]
  /\ call \in [Thread -> Call \cup {NoCall}]
  /\ sent \in [Thread -> 0 .. MaxRetries + 1]
  /\ answer \in [Thread -> Value \cup {Nil, Pending}]

Init ==
  /\ store = [k \in Key |-> Nil]
  /\ late = [c \in WriteCall |-> 0]
  /\ call = [t \in Thread |-> NoCall]
  /\ sent = [t \in Thread |-> 0]
  /\ answer = [t \in Thread |-> Pending]

Invoke(t, c) ==
  /\ call[t] = NoCall
  /\ call' = [call EXCEPT ![t] = c]
  /\ UNCHANGED <<store, late, sent, answer>>

InCall(t) == call[t] # NoCall /\ answer[t] = Pending

\* The command is tried once more: it runs and is answered, it runs and the
\* reply is missed, it is left to run later, or it never runs.
Try(t) ==
  /\ InCall(t)
  /\ sent[t] <= MaxRetries
  /\ sent' = [sent EXCEPT ![t] = @ + 1]
  /\ \/ /\ store' = Effect(call[t])
        /\ \E a \in {Reply(call[t]), Pending} :
             answer' = [answer EXCEPT ![t] = a]
        /\ UNCHANGED late
     \/ /\ call[t] \in WriteCall
        /\ late' = [late EXCEPT ![call[t]] = @ + 1]
        /\ UNCHANGED <<store, answer>>
     \/ UNCHANGED <<store, late, answer>>
  /\ UNCHANGED call

GiveUp(t) ==
  /\ InCall(t)
  /\ answer' = [answer EXCEPT ![t] = Nil]
  /\ UNCHANGED <<store, late, call, sent>>

Return(t) ==
  /\ call[t] # NoCall
  /\ answer[t] # Pending
  /\ call' = [call EXCEPT ![t] = NoCall]
  /\ sent' = [sent EXCEPT ![t] = 0]
  /\ answer' = [answer EXCEPT ![t] = Pending]
  /\ UNCHANGED <<store, late>>

\* A late copy of c runs after all, or is lost.
Arrive(c) ==
  /\ late[c] > 0
  /\ late' = [late EXCEPT ![c] = @ - 1]
  /\ store' \in {Effect(c), store}
  /\ UNCHANGED <<call, sent, answer>>

\* The TTL of a key runs out.
Expire(k) ==
  /\ store[k] # Nil
  /\ store' = [store EXCEPT ![k] = Nil]
  /\ UNCHANGED <<late, call, sent, answer>>

Next ==
  \/ \E t \in Thread : \/ \E c \in Call : Invoke(t, c)
                       \/ Try(t)
                       \/ GiveUp(t)
                       \/ Return(t)
  \/ \E c \in WriteCall : Arrive(c)
  \/ \E k \in Key : Expire(k)

Safety == Init /\ [][Next]_vars

Spec ==
  /\ Safety
  /\ \A t \in Thread : WF_vars(Try(t) \/ GiveUp(t)) /\ WF_vars(Return(t))
=============================================================================
