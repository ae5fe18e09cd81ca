------------------------------ MODULE MCConsumer ------------------------------
(* An instance of Consumer for TLC: a group of two members, one of them     *)
(* with its Start.                                                          *)
EXTENDS Consumer

CONSTANTS m1, m2, nobody

TwoMembers == {m1, m2}
=============================================================================
