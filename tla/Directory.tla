------------------------------- MODULE Directory -------------------------------
(***************************************************************************)
(* ListUsers of internal/service/user_service.go and List of               *)
(* internal/repository/user_repo.go: users by creation time, the newest    *)
(* first, a page at a time, while others create, update and delete users.  *)
(*                                                                         *)
(* The caller walks through the pages, one call after the other, from the  *)
(* first page on or from anywhere; it stops at an empty page or, if it     *)
(* trusts the total, after as many pages as that makes.                    *)
(*                                                                         *)
(* A user is its _id.  created_at is the clock of the process that creates *)
(* the user, in milliseconds once stored: any two users may be tied, and   *)
(* those of a batch are.  MongoDB orders the tied anew for each query.     *)
(***************************************************************************)
EXTENDS Integers, SequencesExt

CONSTANTS
  User,          \* bound: users that may ever be created
  Time,          \* bound: values of created_at
  MaxPageSize,   \* 100
  DefaultSize,   \* 10
  MaxInt,        \* the largest int64
  Page, Size     \* bounds: pages a walk starts from, sizes it asks for

ASSUME DirectoryAssumption ==
  /\ Time \subseteq Nat
  /\ MaxPageSize \in Nat \ {0} /\ DefaultSize \in 1 .. MaxPageSize
  /\ Page \subseteq Int /\ Size \subseteq Int
  /\ MaxInt \in Nat /\ IsFiniteSet(User) /\ Cardinality(User) <= MaxInt

VARIABLES
  created,   \* created_at of each user in the collection
  batch,     \* the users a writer has still to insert
  pc,        \* control point of List, or of the walk between two calls
  page, size,
  total,     \* what CountDocuments answered
  answer,    \* the users of the page
  trusting,  \* the walk stops by the total
  base,      \* history: users of the start whose place no deletion moved
  seen,      \* history: users the walk has been given
  stale      \* history: inserted between count and find

writes == <<created, batch>>
call == <<page, size, trusting>>
vars == <<writes, pc, call, total, answer, base, seen, stale>>

Wrap(n) == ((n + MaxInt + 1) % (2 * (MaxInt + 1))) - (MaxInt + 1)

Users == DOMAIN created

TypeOK ==
  /\ Users \subseteq User /\ created \in [Users -> Time]
  /\ batch \in Seq([user : User, created : Time])
  /\ pc \in {"idle", "count", "find", "page", "done"}
  /\ page \in Int /\ size \in Int /\ trusting \in BOOLEAN
  /\ total \in Nat
  /\ answer \in Seq(User) /\ Len(answer) <= MaxPageSize
  /\ base \subseteq User /\ seen \subseteq User /\ stale \in BOOLEAN

Init ==
  /\ created = [u \in {} |-> 0]
  /\ batch = <<>>
  /\ pc = "idle" /\ page = 1 /\ size = 1 /\ trusting = FALSE
  /\ total = 0 /\ answer = <<>>
  /\ base = {} /\ seen = {} /\ stale = FALSE

-----------------------------------------------------------------------------
(* The writers.                                                            *)
\* Create or BatchCreate, of users that are new, takes the time ...
Stamp(users) ==
  /\ batch = <<>>
  /\ \E now \in Time :
       batch' = [i \in DOMAIN users |-> [user |-> users[i], created |-> now]]
  /\ UNCHANGED <<created, pc, call, total, answer, base, seen, stale>>

\* ... and then inserts, one document after the other.
Insert ==
  /\ batch # <<>>
  /\ created' = [u \in Users \cup {Head(batch).user} |->
                   IF u \in Users THEN created[u] ELSE Head(batch).created]
  /\ batch' = Tail(batch)
  /\ stale' = (stale \/ pc = "find")
  /\ UNCHANGED <<pc, call, total, answer, base, seen>>

\* A duplicate, or no connection: the rest of the batch is not tried.
InsertFails ==
  /\ batch # <<>>
  /\ batch' = <<>>
  /\ UNCHANGED <<created, pc, call, total, answer, base, seen, stale>>

\* $set of all fields but created_at, of which the caller's user has none.
Rewritten(u, t) == t                         \* mutant: replaces the document
CreatedAt(u, t) == created[u]

Update(u) ==
  /\ \E t \in Time : created' = [created EXCEPT ![u] = CreatedAt(u, t)]
  /\ UNCHANGED <<batch, pc, call, total, answer, base, seen, stale>>

Delete(u) ==
  /\ created' = [v \in Users \ {u} |-> created[v]]
  /\ base' = {v \in base \cap Users : created[v] > created[u]}
  /\ UNCHANGED <<batch, pc, call, total, answer, seen, stale>>

-----------------------------------------------------------------------------
(* List.                                                                   *)
Forget ==
  /\ pc' = "idle" /\ page' = 1 /\ size' = 1 /\ trusting' = FALSE
  /\ total' = 0 /\ answer' = <<>>
  /\ base' = {} /\ seen' = {} /\ stale' = FALSE

PageNumber == IF page < 1 THEN 1 ELSE page

Unchecked == IF size < 1 THEN DefaultSize ELSE size    \* mutant: no maximum
PageSize == IF size < 1 \/ size > MaxPageSize THEN DefaultSize ELSE size

Skip == Wrap((PageNumber - 1) * PageSize)

CountDocuments ==
  /\ pc = "count" /\ pc' = "find"
  /\ total' = Cardinality(Users)
  /\ stale' = FALSE
  /\ UNCHANGED <<writes, call, answer, base, seen>>

\* SetSort(created_at: -1)
Newest(s) == \A i, j \in DOMAIN s : i < j => created[s[i]] >= created[s[j]]

\* MongoDB refuses a skip that is negative.
Find ==
  /\ pc = "find" /\ Skip >= 0
  /\ pc' = "page"
  /\ \E s \in SetToSeqs(Users) :
       /\ Newest(s)
       /\ answer' = SubSeq(s, Skip + 1, Min({Skip + PageSize, Len(s)}))
  /\ seen' = seen \cup ToSet(answer')
  /\ UNCHANGED <<writes, call, total, base, stale>>

\* Either query fails: the caller tries again, or gives up.
ListFails ==
  /\ pc \in {"count", "find"}
  /\ \/ pc' = "count" /\ UNCHANGED <<call, total, answer, base, seen, stale>>
     \/ Forget
  /\ UNCHANGED writes

-----------------------------------------------------------------------------
(* The caller.                                                             *)
Allowed == 1 .. MaxPageSize

Begin(p, n, trusts) ==
  /\ pc = "idle" /\ pc' = "count"
  /\ page' = p /\ size' = n /\ trusting' = trusts
  /\ trusts => n \in Allowed
  /\ base' = IF p <= 1 THEN Users ELSE {}
  /\ seen' = {} /\ answer' = <<>>
  /\ UNCHANGED <<writes, total, stale>>

LastPage == answer = <<>> \/ (trusting /\ page * size >= total)

NextPage ==
  /\ pc = "page" /\ ~LastPage
  /\ pc' = "count"
  /\ page' = page + 1
  /\ UNCHANGED <<writes, size, trusting, total, answer, base, seen, stale>>

Stop ==
  /\ pc = "page" /\ LastPage
  /\ pc' = "done"
  /\ UNCHANGED <<writes, call, total, answer, base, seen, stale>>

Leave == pc = "done" /\ Forget /\ UNCHANGED writes

List == CountDocuments \/ Find \/ ListFails
Walk == NextPage \/ Stop \/ Leave

New == User \ Users
Writer ==
  \/ \E u \in New : Stamp(<<u>>)
  \/ \E u, v \in New : u # v /\ Stamp(<<u, v>>)
  \/ Insert \/ InsertFails
  \/ \E u \in Users : Update(u) \/ Delete(u)

Next ==
  \/ Writer
  \/ List
  \/ Walk
  \/ \E p \in Page, n \in Size, trusts \in BOOLEAN : Begin(p, n, trusts)

Spec == Init /\ [][Next]_vars

-----------------------------------------------------------------------------
(* Lines 166 to 184 of user_repo.go: a walk through all pages misses no     *)
(* user that was there when it began, whoever creates or updates users      *)
(* meanwhile; unless the user shares its created_at with another one, or an *)
(* equally old or a newer one was deleted.  For a walk that stops by the    *)
(* total this needs that nothing was inserted between the two queries of    *)
(* its last call.                                                           *)
Tied(u) == \E v \in Users \ {u} : created[v] = created[u]

WalkIsComplete ==
  pc = "done" /\ ~(trusting /\ stale) =>
    \A u \in base : Tied(u) \/ u \in seen
=============================================================================
