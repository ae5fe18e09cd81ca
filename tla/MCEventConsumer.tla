--------------------------- MODULE MCEventConsumer ---------------------------
(* An instance of EventConsumer for TLC: a group of one member.            *)
EXTENDS EventConsumer

CONSTANTS m1, m2, nobody

OneMember == {m1}
=============================================================================
