---------------------------- MODULE MCBGPService ----------------------------
(***************************************************************************)
(* Small instances of BGPService.                                          *)
(***************************************************************************)
EXTENDS BGPService, TLC

\* Prefixes and row identifiers are interchangeable.
Symmetry == Permutations(Prefixes) \cup Permutations(Ids)
=============================================================================
