---------------------------- MODULE MCMigrations ----------------------------
(* Instances of Migrations for TLC: the built-in migration and the scripts *)
(* of a later release.                                                     *)
EXTENDS Migrations

CONSTANTS r1, r2
=============================================================================
