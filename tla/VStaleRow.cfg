SPECIFICATION Spec
CONSTANTS
  Prefixes = {p1, p2}
  Ids = {r1, r2}
  MaxActive = 1
  AutoPerHour = 1
  Hour = 2
  Durations = {1}
  MaxTime = 2
  DryModes = {FALSE}
  RoutesSupported = TRUE
  Callers = {"loop"}
  MaxOrphans = 1
  FaultKinds = {"store"}
  MaxFaults = 1
SYMMETRY Symmetry
INVARIANTS
  EveryActiveRowIsTracked
