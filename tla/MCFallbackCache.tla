--------------------------- MODULE MCFallbackCache ---------------------------
(* An instance of FallbackCache for TLC: the constants only.               *)
EXTENDS FallbackCache

CONSTANTS t1, t2, k1, v1, nil, none

TwoThreads == {t1, t2}
OneKey == {k1}
OneValue == {v1}
=============================================================================
