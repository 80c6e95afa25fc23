SPECIFICATION FairSpec
CONSTANTS
  Prefixes = {p1}
  Ids = {r1, r2}
  MaxActive = 1
  AutoPerHour = 1
  Hour = 2
  Durations = {1}
  MaxTime = 1
  DryModes = {FALSE}
  RoutesSupported = FALSE
  Callers = {"loop", "http"}
  MaxOrphans = 1
  FaultKinds = {"daemon"}
  MaxFaults = 2
PROPERTIES
  SessionRecoveryReannounces
