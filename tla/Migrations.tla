------------------------------ MODULE Migrations ------------------------------
(***************************************************************************)
(* perform_migrations of core/__init__.py and the transaction that         *)
(* Core.setup_database runs it in, over the starts, failed starts, crashes *)
(* and plugin installations in the life of one database.                   *)
(*                                                                         *)
(* The database is what is committed (schema, plugin_migrations) and what  *)
(* the open transaction sees and would commit (txSchema,                   *)
(* tx_plugin_migrations).                                                  *)
(***************************************************************************)
EXTENDS Naturals, Sequences, SequencesExt

CONSTANTS Migrations,    \* (plugin slug, migration name) pairs
          LoadOrder,     \* them all, each once, in the order the plugins are loaded
          NoUpgrade,     \* those with neither SQL nor a function to upgrade
          MaxFailures    \* bound on crashes and failed upgrades

ASSUME LoadOrderAssumption ==
  /\ LoadOrder \in Seq(Migrations)
  /\ \A m \in Migrations : \E i \in DOMAIN LoadOrder : LoadOrder[i] = m
  /\ \A i, j \in DOMAIN LoadOrder : LoadOrder[i] = LoadOrder[j] => i = j
ASSUME NoUpgradeAssumption == NoUpgrade \subseteq Migrations
ASSUME MaxFailuresAssumption == MaxFailures \in Nat

VARIABLES
  depends,              \* depends[m]: the migrations m depends on
  installed,            \* the migrations of the plugins that are installed
  phase,                \* down, listing, resolving, applying, up
  pos,                  \* index of the loop that is running
  remaining_migrations, \* what is not resolved yet, in the load order
  idx_remove,           \* the indices in it of what this pass has resolved
  resolved,             \* resolved, as a set
  migration_order,      \* migration_order, the result of the first loop
  performing,           \* the migration upgraded but not recorded yet, if any
  txSchema,             \* upgrades the transaction sees, in order
  tx_plugin_migrations, \* rows of plugin_migrations the transaction sees
  schema,               \* committed upgrades, in order
  plugin_migrations,    \* committed rows
  failures              \* how many starts have failed so far

resolveVars == <<remaining_migrations, idx_remove, resolved, migration_order>>
txVars == <<performing, txSchema, tx_plugin_migrations>>
dbVars == <<schema, plugin_migrations>>
vars == <<depends, installed, phase, pos, resolveVars, txVars, dbVars, failures>>

Ran(s) == {s[i] : i \in DOMAIN s}

TypeOK ==
  /\ depends \in [Migrations -> SUBSET Migrations]
  /\ installed \subseteq Migrations
  /\ phase \in {"down", "listing", "resolving", "applying", "up"}
  /\ pos \in Nat \ {0}
  /\ phase = "applying" => pos <= Len(migration_order) + 1
  /\ remaining_migrations \in Seq(Migrations) /\ idx_remove \in Seq(Nat \ {0})
  /\ resolved \subseteq Migrations /\ migration_order \in Seq(Migrations)
  /\ performing \subseteq Migrations
  /\ txSchema \in Seq(Migrations) /\ tx_plugin_migrations \subseteq Migrations
  /\ schema \in Seq(Migrations) /\ plugin_migrations \subseteq Migrations
  /\ failures \in Nat

\* A new database; any dependencies, the circular and dangling ones included.
Init ==
  /\ depends \in [Migrations -> SUBSET Migrations]
  /\ installed \in SUBSET Migrations
  /\ phase = "down" /\ pos = 1
  /\ remaining_migrations = << >> /\ idx_remove = << >>
  /\ resolved = {} /\ migration_order = << >>
  /\ performing = {} /\ txSchema = << >> /\ tx_plugin_migrations = {}
  /\ schema = << >> /\ plugin_migrations = {}
  /\ failures = 0

-------------------------------------------------------------------------------
\* setup_database opens the transaction and perform_migrations begins.
Begin ==
  /\ phase = "down"
  /\ phase' = "listing" /\ pos' = 1
  /\ remaining_migrations' = << >> /\ idx_remove' = << >>
  /\ resolved' = {} /\ migration_order' = << >>
  /\ performing' = {} /\ txSchema' = schema
  /\ tx_plugin_migrations' = plugin_migrations
  /\ UNCHANGED <<depends, installed, dbVars, failures>>

\* The migrations of the plugins that are installed, in the order of the plugins.
List ==
  /\ phase = "listing" /\ pos <= Len(LoadOrder)
  /\ remaining_migrations' =
       IF LoadOrder[pos] \in installed
         THEN Append(remaining_migrations, LoadOrder[pos]) ELSE remaining_migrations
  /\ pos' = pos + 1
  /\ UNCHANGED <<depends, installed, phase, idx_remove, resolved, migration_order, txVars,
                 dbVars, failures>>

\* Definitions named <action>_<bug> are mutants of the definition below them: no
\* action uses one, each shows that some property would notice the bug.

\* The entry of the list that the for loop has come to.
Resolving == phase = "resolving" /\ pos <= Len(remaining_migrations)
Entry == remaining_migrations[pos]

Resolve(m) ==
  /\ migration_order' = Append(migration_order, m)
  /\ resolved' = resolved \cup {m}
  /\ idx_remove' = Append(idx_remove, pos)
  /\ UNCHANGED remaining_migrations

\* Mutant: a dependency only has to be installed.
Consider_AnyOrder ==
  /\ Resolving
  /\ IF depends[Entry] \subseteq installed THEN Resolve(Entry) ELSE UNCHANGED resolveVars
  /\ pos' = pos + 1
  /\ UNCHANGED <<depends, installed, phase, txVars, dbVars, failures>>

\* One turn of the for loop over remaining_migrations. An entry later in the list
\* sees what an earlier one has just resolved.
Consider ==
  /\ Resolving
  /\ IF depends[Entry] \subseteq resolved THEN Resolve(Entry) ELSE UNCHANGED resolveVars
  /\ pos' = pos + 1
  /\ UNCHANGED <<depends, installed, phase, txVars, dbVars, failures>>

Considered == phase = "resolving" /\ pos > Len(remaining_migrations)

\* Mutant: the indices are gone through as they come.
RemoveResolved_Forward ==
  /\ Considered /\ idx_remove # << >>
  /\ Head(idx_remove) \in DOMAIN remaining_migrations
  /\ remaining_migrations' = RemoveAt(remaining_migrations, Head(idx_remove))
  /\ idx_remove' = Tail(idx_remove)
  /\ UNCHANGED <<depends, installed, phase, pos, resolved, migration_order, txVars, dbVars,
                 failures>>

\* One turn of the loop that pops what was resolved, from the last index to the first.
RemoveResolved ==
  /\ Considered /\ idx_remove # << >>
  /\ remaining_migrations' = RemoveAt(remaining_migrations, Last(idx_remove))
  /\ idx_remove' = Front(idx_remove)
  /\ UNCHANGED <<depends, installed, phase, pos, resolved, migration_order, txVars, dbVars,
                 failures>>

\* The list is complete, or the for loop and its removals are done.
PassOver == \/ phase = "listing" /\ pos > Len(LoadOrder)
            \/ Considered /\ idx_remove = << >>

\* Mutant: one pass over the list is enough.
NextPass_Once ==
  /\ PassOver
  /\ phase' = IF phase = "listing" THEN "resolving" ELSE "applying"
  /\ pos' = 1
  /\ UNCHANGED <<depends, installed, resolveVars, txVars, dbVars, failures>>

\* Mutant: a pass that is not the last starts behind the first entry.
NextPass_SkipsFirst ==
  /\ PassOver
  /\ IF remaining_migrations = << >>
       THEN phase' = "applying" /\ pos' = 1
       ELSE phase' = "resolving" /\ pos' = IF phase = "listing" THEN 1 ELSE 2
  /\ UNCHANGED <<depends, installed, resolveVars, txVars, dbVars, failures>>

\* The while loop goes on for as long as anything remains, whether or not the
\* pass got any further.
NextPass ==
  /\ PassOver
  /\ phase' = IF remaining_migrations = << >> THEN "applying" ELSE "resolving"
  /\ pos' = 1
  /\ UNCHANGED <<depends, installed, resolveVars, txVars, dbVars, failures>>

Current == migration_order[pos]
Applying == phase = "applying" /\ pos <= Len(migration_order) /\ performing = {}

\* The migration is recorded already, or has no upgrade path.
Skip ==
  /\ Applying /\ (Current \in tx_plugin_migrations \/ Current \in NoUpgrade)
  /\ pos' = pos + 1
  /\ UNCHANGED <<depends, installed, phase, resolveVars, txVars, dbVars, failures>>

\* Mutant: the upgrade is committed on its own.
Perform_Autocommit ==
  /\ Applying /\ Current \notin tx_plugin_migrations /\ Current \notin NoUpgrade
  /\ performing' = {Current} /\ txSchema' = Append(txSchema, Current)
  /\ schema' = Append(schema, Current)
  /\ UNCHANGED <<depends, installed, phase, pos, resolveVars, tx_plugin_migrations,
                 plugin_migrations, failures>>

Perform ==
  /\ Applying /\ Current \notin tx_plugin_migrations /\ Current \notin NoUpgrade
  /\ performing' = {Current} /\ txSchema' = Append(txSchema, Current)
  /\ UNCHANGED <<depends, installed, phase, pos, resolveVars, tx_plugin_migrations,
                 dbVars, failures>>

\* The INSERT into plugin_migrations.
Record ==
  /\ phase = "applying" /\ performing # {}
  /\ tx_plugin_migrations' = tx_plugin_migrations \cup performing
  /\ performing' = {} /\ pos' = pos + 1
  /\ UNCHANGED <<depends, installed, phase, resolveVars, txSchema, dbVars, failures>>

\* perform_migrations returns and the transaction commits.
Commit ==
  /\ phase = "applying" /\ pos > Len(migration_order)
  /\ phase' = "up"
  /\ schema' = txSchema /\ plugin_migrations' = tx_plugin_migrations
  /\ UNCHANGED <<depends, installed, pos, resolveVars, txVars, failures>>

\* An upgrade raises, or the process or its database connection dies: the
\* transaction is rolled back and the start has failed.
Fail ==
  /\ phase \in {"listing", "resolving", "applying"} /\ failures < MaxFailures
  /\ failures' = failures + 1
  /\ phase' = "down"
  /\ UNCHANGED <<depends, installed, pos, resolveVars, txVars, dbVars>>

Stop ==
  /\ phase = "up" /\ failures < MaxFailures
  /\ failures' = failures + 1
  /\ phase' = "down"
  /\ UNCHANGED <<depends, installed, pos, resolveVars, txVars, dbVars>>

\* Between two starts a plugin is installed, or a new version of one.
Install(m) ==
  /\ phase = "down" /\ m \notin installed
  /\ installed' = installed \cup {m}
  /\ UNCHANGED <<depends, phase, pos, resolveVars, txVars, dbVars, failures>>

Startup == \/ Begin \/ List \/ Consider \/ RemoveResolved \/ NextPass
           \/ Skip \/ Perform \/ Record \/ Commit

Next == Startup \/ Fail \/ Stop \/ \E m \in Migrations : Install(m)

Spec == Init /\ [][Next]_vars

\* A process that was started keeps running until something kills it.
FairSpec == Spec /\ WF_vars(Startup)

-------------------------------------------------------------------------------
(* Properties *)

\* The installed migrations can be put in order: none waits, directly or through
\* others, for itself or for one that is not installed.
Resolvable ==
  \A S \in (SUBSET installed) \ {{}} :
    \E m \in S : depends[m] \subseteq installed \ S

\* No database has a migration twice, or before one that it depends on and that
\* has an upgrade, over any number of starts and installations.
InDependencyOrder ==
  \A i \in DOMAIN schema :
    /\ \A j \in DOMAIN schema : schema[i] = schema[j] => i = j
    /\ \A d \in depends[schema[i]] \ NoUpgrade : \E j \in 1 .. i - 1 : schema[j] = d

\* The committed schema and the rows of plugin_migrations always agree: no crash
\* leaves an upgrade that is not recorded or a record without its upgrade.
RecordsMatchSchema == plugin_migrations = Ran(schema)

\* The server is up only on a database that has every installed migration.
UpIsComplete == phase = "up" => installed \ NoUpgrade \subseteq plugin_migrations

\* No migration is performed when the dependencies cannot be met: the start does
\* not get as far as the database.
NothingIfUnresolvable == phase \in {"applying", "up"} => Resolvable

\* A start whose dependencies can be met comes to an end.
ResolutionEnds == phase = "resolving" /\ Resolvable ~> phase \in {"up", "down"}
===============================================================================
