SPECIFICATION FairSpec
CONSTANTS
  Prefixes = {p1}
  Ids = {r1, r2}
  MaxActive = 1
  AutoPerHour = 1
  Hour = 2
  Durations = {1}
  MaxTime = 2
  DryModes = {FALSE}
  RoutesSupported = FALSE
  Callers = {"loop"}
  MaxOrphans = 1
  FaultKinds = {"error", "timeout", "crash", "daemon"}
  MaxFaults = 2
PROPERTIES
  SessionRecoveryReannounces
