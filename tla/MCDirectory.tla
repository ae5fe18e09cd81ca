----------------------------- MODULE MCDirectory -----------------------------
(* An instance of Directory for TLC.  Pages of three users, integers of     *)
(* five bits: page 12 begins at 33, which wraps to 1; at the default size   *)
(* at 22, hence -10.                                                        *)
EXTENDS Directory, TLC

CONSTANTS u1, u2, u3, u4

FourUsers == {u1, u2, u3, u4}
StartPages == {0, 1, 12}
UserSymmetry == Permutations(User)
=============================================================================
