----------------------------- MODULE MCMigrations -----------------------------
(* Small instances of Migrations for TLC: every dependency graph on three    *)
(* migrations, the second of which has no upgrade.                           *)
EXTENDS Migrations, TLC

CONSTANTS m1, m2, m3

MCMigrationSet == {m1, m2, m3}
MCLoadOrder == <<m1, m2, m3>>
===============================================================================
