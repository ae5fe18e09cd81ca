------------------------------- MODULE MCBackend -------------------------------
(* An instance of Backend for TLC: the handlers.                            *)
EXTENDS Backend

CONSTANTS r1, r2

TwoRequests == {r1, r2}
=============================================================================
