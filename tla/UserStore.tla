------------------------------ MODULE UserStore ------------------------------
(***************************************************************************)
(* What UserService promises its callers, whatever Redis and Kafka do.     *)
(*                                                                         *)
(*  - A write takes effect once at most.  When it reports success it has   *)
(*    taken effect, between its call and its return, and once MongoDB has  *)
(*    acknowledged it nothing turns it into an error.  One that reports an *)
(*    error may have taken effect, and if it has not it still may.         *)
(*  - A read answers a document MongoDB committed for that very id, though *)
(*    not always the latest one; "does not exist" is answered only for a   *)
(*    user that is gone.  It may answer the zero user (Blank).             *)
(***************************************************************************)
EXTENDS UserCalls

VARIABLES db, commits, history,   \* documents, commits, commits of each user
          stray,                  \* failed writes that may yet take effect
          req, ver, answer        \* of each call: request, its commit, answer

store == <<db, commits, history>>
vars == <<store, stray, req, ver, answer>>

UserId(t) == IdOf[req[t].key]
Open(t) == req[t] # NoReq /\ answer[t] = Pending
Reads(t) == req[t].op = "get"

Init ==
  /\ db = [i \in Id |-> None]
  /\ commits = 0
  /\ history = [i \in Id |-> {}]
  /\ stray = {}
  /\ req = [t \in Thread |-> NoReq]
  /\ ver = [t \in Thread |-> None]
  /\ answer = [t \in Thread |-> Pending]

Call(t, r) ==
  /\ req[t] = NoReq
  /\ req' = [req EXCEPT ![t] = r]
  /\ UNCHANGED <<store, stray, ver, answer>>

TakesEffect(r) ==
  /\ r.op = "create" \/ db[IdOf[r.key]] # None
  /\ commits' = commits + 1
  /\ db' = [db EXCEPT ![IdOf[r.key]] =
              IF r.op = "delete" THEN None ELSE commits']
  /\ history' = [history EXCEPT ![IdOf[r.key]] = @ \cup {commits'}]

\* The write takes effect; its caller may be told that it failed.
Commit(t) ==
  /\ Open(t) /\ ~Reads(t) /\ ver[t] = None
  /\ TakesEffect(req[t])
  /\ ver' = [ver EXCEPT ![t] = commits']
  /\ answer' \in {answer, [answer EXCEPT ![t] = Error]}
  /\ UNCHANGED <<stray, req>>

\* The write is given up, and may take effect later, once.
GiveUp(t) ==
  /\ Open(t) /\ ~Reads(t) /\ ver[t] = None
  /\ answer' = [answer EXCEPT ![t] = Error]
  /\ stray' = stray \cup {req[t]}
  /\ UNCHANGED <<store, req, ver>>

Late(r) ==
  /\ stray' = stray \ {r}
  /\ TakesEffect(r) \/ UNCHANGED store
  /\ UNCHANGED <<req, ver, answer>>

Answers(t) ==
  IF Reads(t)
  THEN {Error, Blank} \cup {Found(v) : v \in history[UserId(t)]}
         \cup (IF db[UserId(t)] = None THEN {NotFound} ELSE {})
  ELSE {IF ver[t] = None THEN Error ELSE OK}

Answer(t) ==
  /\ Open(t)
  /\ \E a \in Answers(t) : answer' = [answer EXCEPT ![t] = a]
  /\ UNCHANGED <<store, stray, req, ver>>

Return(t) ==
  /\ answer[t] # Pending
  /\ req' = [req EXCEPT ![t] = NoReq]
  /\ ver' = [ver EXCEPT ![t] = None]
  /\ answer' = [answer EXCEPT ![t] = Pending]
  /\ UNCHANGED <<store, stray>>

\* The process dies: no call returns, what MongoDB committed stays.
Crash ==
  /\ req' = [t \in Thread |-> NoReq]
  /\ ver' = [t \in Thread |-> None]
  /\ answer' = [t \in Thread |-> Pending]
  /\ UNCHANGED <<store, stray>>

Next ==
  \/ \E t \in Thread : \/ \E r \in Request : Call(t, r)
                       \/ Commit(t)
                       \/ GiveUp(t)
                       \/ Answer(t)
                       \/ Return(t)
  \/ \E r \in stray : Late(r)
  \/ Crash

Safety == Init /\ [][Next]_vars
=============================================================================
