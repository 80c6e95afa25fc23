SPECIFICATION Spec
CONSTANTS
  Prefixes = {p1, p2}
  Ids = {r1, r2}
  MaxActive = 1
  AutoPerHour = 1
  Hour = 2
  Durations = {1}
  MaxTime = 2
  DryModes = {TRUE, FALSE}
  RoutesSupported = TRUE
  Callers = {"loop", "http"}
  MaxOrphans = 1
  FaultKinds = {"error", "crash", "daemon"}
  MaxFaults = 3
SYMMETRY Symmetry
INVARIANTS
  NeverUnknownRoute
  WithdrawnMeansGone
  DryRunNeverAnnounced
