-------------------------- MODULE MCPortalConnection --------------------------
(* Small instances of PortalConnection for TLC. *)
EXTENDS PortalConnection

MCNameLength == [phelp |-> 5, mssp |-> 4, quit |-> 4, login |-> 5, register |-> 8,
                 create |-> 6, play |-> 4, python |-> 6, exit |-> 4, q |-> 1, say |-> 3]

Line(starts, length, upper, args) ==
  [starts |-> starts, length |-> length, upper |-> upper, args |-> args, markup |-> TRUE]

\* login a=b; p name, which is play or phelp; create name; quit; QUIT; ms; py; exit;
\* q; say text; [/x], which is no markup.
MCLines ==
  {Line({"login"}, 5, FALSE, TRUE), Line({"play", "phelp", "python"}, 1, FALSE, TRUE),
   Line({"create"}, 6, FALSE, TRUE), Line({"quit"}, 4, FALSE, FALSE),
   Line({"quit"}, 4, TRUE, FALSE), Line({"mssp"}, 2, FALSE, FALSE),
   Line({"python"}, 2, FALSE, FALSE), Line({"exit"}, 4, FALSE, FALSE),
   Line({"quit", "q"}, 1, FALSE, FALSE), Line({"say"}, 3, FALSE, TRUE),
   [Line({}, 4, FALSE, FALSE) EXCEPT !.markup = FALSE]}

\* Other plugins: one replaces mssp, one has commands of its own that say reaches,
\* one of them for staff.
Listing == <<[Command(3, "list", "mssp", 2, AllParsers) EXCEPT !.priority = 2]>>
Speech ==
  <<[Command(9, "speak", "say", 1, {"pc"}) EXCEPT !.priority = 1],
    [Command(8, "staff", "say", 1, {"pc"}) EXCEPT !.min_level = 11],
    [Command(10, "shout", "say", 1, {"pc"}) EXCEPT !.priority = 2]>>

MCLoadOrders == {<<CorePortalCommands, Speech, Listing>>, <<Speech, CorePortalCommands, Listing>>,
                 <<Listing, CorePortalCommands, Speech>>}
CoreOnly == {<<CorePortalCommands>>}
===============================================================================
