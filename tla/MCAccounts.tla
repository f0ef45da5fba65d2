------------------------------ MODULE MCAccounts ------------------------------
(* Small instances of Accounts for TLC. The requests of one kind are alike,  *)
(* and so are the addresses and the names.                                   *)
EXTENDS Accounts, TLC

CONSTANTS r1, r2, r3, l1, c1, c2, e1, e2, n1, n2

MCSymmetry == Permutations(Registers) \cup Permutations(Creates)
                \cup Permutations(Emails) \cup Permutations(Names)
===============================================================================
