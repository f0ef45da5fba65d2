---------------------------- MODULE MCTelnetService ----------------------------
(* A small instance of TelnetService for TLC. *)
EXTENDS TelnetService

CONSTANTS c1, c2
MCClients == {c1, c2}
===============================================================================
