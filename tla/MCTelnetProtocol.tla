--------------------------- MODULE MCTelnetProtocol ---------------------------
(* Small instances of TelnetProtocol for TLC. *)
EXTENDS TelnetProtocol

AllMessages == {"line", "negotiate", "capability", "gmcp", "oversize"}
ParsedMessages == AllMessages \ {"oversize"}
AllItems == {"text", "gmcp", "disconnect"}
===============================================================================
