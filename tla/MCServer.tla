------------------------------- MODULE MCServer -------------------------------
(* An instance of Server for TLC: one handler.                             *)
EXTENDS Server

CONSTANT r1

OneRequest == {r1}
=============================================================================
