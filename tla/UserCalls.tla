------------------------------ MODULE UserCalls ------------------------------
(***************************************************************************)
(* What UserService and its abstract specification UserStore share: the    *)
(* calls of internal/service/user_service.go and what they return.         *)
(*                                                                         *)
(* An id has one canonical spelling (ObjectID.Hex), but ObjectIDFromHex    *)
(* accepts others.  UpdateUser and CreateUser are given a model.User and   *)
(* use the canonical one; GetUser and DeleteUser use their caller's.       *)
(***************************************************************************)
EXTENDS Naturals

CONSTANTS
  Thread,      \* request goroutines
  Id,          \* user ids
  Key,         \* spellings of ids
  IdOf,        \* IdOf[k]: the ObjectID that spelling k parses to
  Canonical,   \* Canonical[i]: ObjectID.Hex of i
  Ops          \* the operations callers use

AllOps == {"get", "create", "update", "delete"}

ASSUME CallsAssumption ==
  /\ IdOf \in [Key -> Id]
  /\ Canonical \in [Id -> Key]
  /\ \A i \in Id : IdOf[Canonical[i]] = i
  /\ Ops \subseteq AllOps

Request == {r \in [op : Ops, key : Key] :
              r.op \in {"create", "update"} => r.key = Canonical[IdOf[r.key]]}
NoReq == [op |-> "none"]

\* A document is the number of the MongoDB commit that wrote it.
None == 0

Results == [kind : {"pending", "ok", "error", "notFound", "blank", "user"},
            ver : Nat]
Result(kind, v) == [kind |-> kind, ver |-> v]
Pending == Result("pending", None)
OK == Result("ok", None)
Error == Result("error", None)
NotFound == Result("notFound", None)
Blank == Result("blank", None)      \* a zero model.User and a nil error
Found(v) == Result("user", v)
=============================================================================
