SPECIFICATION OpsSpec
CONSTANTS
  Runners = {"r1", "r2"}
  N = 3
  Steps = 2
  Sizes = {2, 3}
  Texts = {"t1", "t2"}
  Legacy = {0, 1}
  AutoBaseline = TRUE
  FaultKinds = {"store", "late", "crash", "cancel"}
  MaxFaults = 3
  MaxRuns = 4
  Leaders = {"log"}
  Followers <- MCFollowers
  Present = {"log", "legacy"}
  DefaultDays <- MCDefaultDays
  FlowLog = "log"
  FlowLogDays = 0
  Candidates = 1
  EditDays = {1, 2}
  EditCold = {1}
  MaxColdMoves = 1
  FirstDay = 4
  MaxDay = 5
  MaxEdits = 1
  MaxRTFaults = 1
  HoursPerDay = 2
  DaysPerWeek = 2
  MonthStarts = {0, 2, 5}
  MaxDayOfMonth = 2
  Timings <- MCTimings
  FirstHour = 6
  PurgeDays = 1
  MaxHour = 9
  MaxRequests = 2
  MaxRSFaults = 1
  Rules = {"volume", "scan"}
  Factor <- MCFactor
  MaxSecond = 2
  MaxEditCalls = 1
  MaxRuleFaults = 2
  Connections <- MCConnections
  TrustedProxies = {"proxy"}
  maxVisitors = 2
  Rate = 1
  Burst = 2
  IdleLimit = 2
  MaxTick = 3
  MaxCalls = 5
  URIs = {"u", "v", "w"}
  Slots = {"a", "b"}
  BodySizes = {0, 3, 5}
  maxCacheEntries = 2
  maxCacheBytes = 5
  maxCacheEntryBytes = 3
  CacheTTL = 1
  MaxServed = 4
  MaxTime = 2
  Conns = {"a", "b"}
  Lifetimes = {0, 1}
  Skews <- MCSkews
  TouchInterval = 1
  MaxNow = 2
  MaxGateCalls = 3
  MaxGateFaults = 1
  W4 = 3
  W6 = 7
  MappedBlock = 1
  FloorV4 = 2
  FloorV6 = 4
  BroadV4 = 1
  BroadV6 = 2
  reservedPrefixes <- MCReserved
  labelTargetPrefix <- MCLabel
  RawSettings <- MCRawSettings
  Targets4 <- MCTargets4
  Targets6 <- MCTargets6
  Minutes <- MCMinutes
  UnitsPerMinute = 3
  DurationBits = 6
  Hour = 6
  Day = 12
  Week = 20
  MaxBlockCalls = 2
INVARIANTS
  OneRunner
  AppliedMeansRan
  NoSecondMail
  UpgradesOnlyWhatWasSeeded
  AdmissionIsBounded
  CacheCountsWhatItHolds
  RevokedIsDead
  BlocksKeepWithinThePolicy
PROPERTIES
  ImplementsProgress
  OnlyExpiredIsDropped
  RetentionConverges
  LatestOccurrenceIsSent
CHECK_DEADLOCK FALSE
