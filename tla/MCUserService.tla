---------------------------- MODULE MCUserService ----------------------------
(* Instances of UserService for TLC: one user; or two, one of which has an *)
(* id that is spelled in two ways.                                         *)
EXTENDS UserService, TLC

CONSTANTS t1, t2, i1, i2, k1, k2, k3, none

TwoThreads == {t1, t2}

OneId == {i1}
OneKey == {k1}
OneSpelling == k1 :> i1
FirstKey == i1 :> k1

TwoIds == {i1, i2}
ThreeKeys == {k1, k2, k3}
TwoSpelledIds == k1 :> i1 @@ k2 :> i2 @@ k3 :> i1
FirstKeys == i1 :> k1 @@ i2 :> k2

NoDeletes == {"get", "create", "update"}

NoFaults == {}
ServerFaults == {"redis", "mongo", "kafka", "crash"}
CallerFaults == {"expire", "redis", "cancel"}

ThreadSymmetry == Permutations(Thread)
=============================================================================
