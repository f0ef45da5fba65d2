--------------------------- MODULE MCTelnetOptions ---------------------------
(* A small instance of TelnetOptions for TLC. *)
EXTENDS TelnetOptions

CONSTANT other

\* The compressed streams, with texts in them; and what is asked, taken back and
\* asked again while offers cross.
Streams == [options |-> {"MCCP2", "MCCP3", "MTTS"}, changes |-> 1, texts |-> 2,
            may_end |-> TRUE]
Crossing == [options |-> {"CHARSET", "EOR", "MTTS"}, changes |-> 2, texts |-> 0,
             may_end |-> FALSE]
MCScenarios == {Streams, Crossing}
===============================================================================
