SPECIFICATION Spec
CONSTANTS
  Runners = {r1, r2}
  N = 3
  Steps = 2
  Sizes = {2, 3}
  Texts = {t1, t2}
  Legacy = {2}
  AutoBaseline = TRUE
  FaultKinds = {"store", "late", "crash", "cancel"}
  MaxFaults = 2
  MaxRuns = 3
SYMMETRY Symmetry
INVARIANTS
  NoStatementTwice
CHECK_DEADLOCK FALSE
