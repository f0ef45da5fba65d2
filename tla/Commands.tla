------------------------------- MODULE Commands -------------------------------
(***************************************************************************)
(* How a line finds its command, in the portal and in a session: the       *)
(* registries that Core fills from the plugins (core/__init__.py) and the  *)
(* look-up by parser, access and match (portal_commands/base.py,           *)
(* session_commands/base.py). No state: a registry is a function of the    *)
(* order in which the plugins were loaded.                                 *)
(*                                                                         *)
(* A plugin is the sequence of the commands it returns. A command has a    *)
(* key, a number here, ordered as the strings are; a priority; match_defs, *)
(* from names to least lengths; the parsers it is for; and a min_level.    *)
(*                                                                         *)
(* A line is a word and whether something follows it. A word is known by   *)
(* its length and the names it is the beginning of; upper says that it was *)
(* typed in capitals.                                                      *)
(***************************************************************************)
EXTENDS Integers, Sequences, FiniteSets, SequencesExt

CONSTANT NameLength   \* the names of commands and the words of sessions: their lengths

ASSUME NamesAssumption == NameLength \in [DOMAIN NameLength -> Nat]

NoCommand == [key |-> 0, priority |-> 0, match_defs |-> << >>, parsers |-> {},
              min_level |-> 0, runs |-> "nothing"]

Is(line, name) == name \in line.starts /\ line.length = NameLength[name]

AllParsers == {"auth", "user", "pc"}

Command(key, runs, name, least, parsers) ==
  [key |-> key, priority |-> 0, match_defs |-> [n \in {name} |-> least],
   parsers |-> parsers, min_level |-> 0, runs |-> runs]

\* What core itself registers, in the order of its portal_commands(); the keys are
\* core/auth/login, core/auth/register, core/mssp, core/phelp, core/quit,
\* core/user/create and core/user/play.
CorePortalCommands ==
  <<Command(4, "phelp", "phelp", 2, AllParsers),
    Command(3, "mssp", "mssp", 2, AllParsers),
    Command(5, "quit", "quit", 4, AllParsers),
    Command(1, "login", "login", 1, {"auth"}),
    Command(2, "register", "register", 1, {"auth"}),
    Command(6, "create", "create", 1, {"user"}),
    Command(7, "play", "play", 1, {"user"})>>

CoreSessionCommands ==
  <<[Command(1, "python", "python", 2, {"session"}) EXCEPT !.min_level = 10]>>

\* Definitions named <Definition>_<Bug> are mutants of the definition below them:
\* nothing uses one, each shows that some property would notice the bug.

\* Mutant: a plugin that comes later does not replace a command.
Register_Keeps(registered, command) ==
  [key \in DOMAIN registered \cup {command.key} |->
     IF key \in DOMAIN registered THEN registered[key] ELSE command]

\* registered_portal_commands[command.key] = command
Register(registered, command) ==
  [key \in DOMAIN registered \cup {command.key} |->
     IF key = command.key THEN command ELSE registered[key]]

\* Of the dictionary only its keys and values count: it is sorted before it is used.
Registered(plugins) ==
  LET all == FlattenSeq(plugins)
      registered[n \in 0 .. Len(all)] ==
        IF n = 0 THEN << >> ELSE Register(registered[n - 1], all[n])
  IN  registered[Len(all)]

\* sorted, of numbers that differ: the n-th is the one with n - 1 below it.
Ascending(numbers) ==
  [n \in 1 .. Cardinality(numbers) |->
     CHOOSE k \in numbers : Cardinality({j \in numbers : j < k}) = n - 1]

\* One list of the dictionary by priority.
WithPriority(registered, priority) ==
  LET keys == Ascending({key \in DOMAIN registered : registered[key].priority = priority})
  IN  [n \in DOMAIN keys |-> registered[keys[n]]]

Priorities(registered) == Ascending({registered[key].priority : key \in DOMAIN registered})

\* portal_commands_priority, and the order in which available_commands goes through it.
InOrder(plugins) ==
  LET registered == Registered(plugins)
      priorities == Priorities(registered)
  IN  FlattenSeq([i \in DOMAIN priorities |-> WithPriority(registered, priorities[i])])

check_parser(command, parser) == parser \in command.parsers
check_access(command, level) == level >= command.min_level

check_match(command, line) ==
  \E k \in DOMAIN command.match_defs :
    \/ Is(line, k)
    \/ line.length >= command.match_defs[k] /\ k \in line.starts

Answers(command, parser, level, line) ==
  /\ check_parser(command, parser) /\ check_access(command, level)
  /\ check_match(command, line)

\* The first of the available commands that matches, given all in their order.
Reached(commands, parser, level, line) ==
  LET found == {i \in DOMAIN commands : Answers(commands[i], parser, level, line)}
  IN IF found = {} THEN NoCommand ELSE commands[Min(found)]
===============================================================================
