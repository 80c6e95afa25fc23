--------------------------- MODULE SchemaProgress ---------------------------
(***************************************************************************)
(* What the migrations of as-stats promise about the schema: the           *)
(* statements of the embedded files run in order, each of them once, and   *)
(* nothing runs any more once a migration has stopped half way.            *)
(***************************************************************************)
EXTENDS Integers

CONSTANTS Total,    \* the statements of all the migrations
          Levels    \* the statements an existing schema may already have had

VARIABLES level,    \* the statements that have run: the first level of them
          stuck     \* a migration stopped half way and waits for an operator

progressVars == <<level, stuck>>

ProgressInit == level \in Levels /\ stuck = FALSE

\* The next statement runs.
Advance ==
  /\ ~stuck /\ level < Total
  /\ level' = level + 1
  /\ UNCHANGED stuck

\* A migration stops half way; its last statement may or may not have run.
Stop ==
  /\ ~stuck
  /\ level' \in {level, level + 1} /\ level' <= Total
  /\ stuck' = TRUE

ProgressNext == Advance \/ Stop

ProgressSpec == ProgressInit /\ [][ProgressNext]_progressVars
=============================================================================
