---------------------------- MODULE MCMigration ----------------------------
(***************************************************************************)
(* The move to the second file system on its own, from every content of    *)
(* the two file systems.                                                   *)
(***************************************************************************)
EXTENDS Migration

Spec == MigrationInit /\ [][MigrationNext]_migrationVars

=============================================================================
