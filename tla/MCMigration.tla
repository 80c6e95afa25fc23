---------------------------- MODULE MCMigration ----------------------------
(***************************************************************************)
(* Small instances of MigrationRunner.                                     *)
(***************************************************************************)
EXTENDS MigrationRunner, TLC

\* Runners are interchangeable.
Symmetry == Permutations(Runners)
=============================================================================
