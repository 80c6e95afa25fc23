SPECIFICATION Spec
CONSTANTS
  Keys = {k1}
  HostKeys = {k1}
  AlertIds = {a1, a2}
  Values = {1, 2}
  Stale = 3
  MinWindow = 1
  MaxIdle = 6
  Trust = 2
  RecentMaxAge = 6
  Rearm = 8
  Wait = 2
  MaxDown = 0
  MaxLag = 1
  MaxQueue = 3
  MaxGap = 1
  MaxTime = 11
  Verdicts = {"acknowledged", "resolved"}
  MaxVerdicts = 1
  FaultKinds = {"read", "write", "crash"}
  MaxFaults = 1
SYMMETRY Symmetry
INVARIANTS
  ReopensTheResolved
  OneAlertPerIncident
PROPERTIES
  NewAlertsAreNewIncidents
