----------------------------- MODULE MCSessionHub -----------------------------
(* A small instance of SessionHub for TLC: two characters, one websocket and   *)
(* one SSE request, which may be for the same character or not. The liveness   *)
(* properties rule symmetry out.                                               *)
EXTENDS SessionHub

CONSTANTS c1, c2, w1, e1, noChar

MCChars == {c1, c2}
MCWsHandlers == {w1}
MCSseHandlers == {e1}
===============================================================================
