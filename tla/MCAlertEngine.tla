---------------------------- MODULE MCAlertEngine ----------------------------
(***************************************************************************)
(* Small instances of AlertEngine.                                         *)
(***************************************************************************)
EXTENDS AlertEngine, TLC

\* Alert identifiers are interchangeable.
Symmetry == Permutations(AlertIds)
=============================================================================
