SPECIFICATION FairSpec
CONSTANTS
  Keys = {k1}
  HostKeys = {k1}
  AlertIds = {a1, a2}
  Values = {1}
  Stale = 3
  MinWindow = 1
  MaxIdle = 4
  Trust = 2
  RecentMaxAge = 4
  Rearm = 5
  Wait = 2
  MaxDown = 1
  MaxLag = 1
  MaxQueue = 3
  MaxGap = 1
  MaxTime = 8
  Verdicts = {"acknowledged", "resolved"}
  MaxVerdicts = 1
  FaultKinds = {"read", "write", "late", "lateReopen", "crash"}
  MaxFaults = 1
INVARIANTS
  TypeOK
PROPERTIES
  FiringStaysOpen
  StaleAlertsResolve
