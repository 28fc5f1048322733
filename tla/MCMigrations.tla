---------------------------- MODULE MCMigrations ----------------------------
(* Three sets of two accounts, and two machines they may be linked to. *)
EXTENDS Migrations, TLC
CONSTANTS m1, m2
OwnerOf(t) == IF t = 3 THEN "second" ELSE "first"
=============================================================================
