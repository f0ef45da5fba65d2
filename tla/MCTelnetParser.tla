---------------------------- MODULE MCTelnetParser ----------------------------
(* A small instance of TelnetParser for TLC: whatever can be put together from *)
(* up to MaxPieces pieces of telnet, whole messages and fragments.             *)
EXTENDS TelnetParser, SequencesExt

CONSTANT MaxPieces

Pieces == {<<"x">>, <<"CR">>, <<"LF">>, <<"IAC">>, <<"IAC", "SB">>, <<"IAC", "SB", "x">>,
           <<"SE">>, <<"IAC", "SE">>, <<"WILL">>, <<"NOP">>, <<"IAC", "IAC">>}

MCWires == {FlattenSeq(pieces) : pieces \in BoundedSeq(Pieces, MaxPieces)}
===============================================================================
