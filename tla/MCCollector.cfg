SPECIFICATION CollectorSpec
CONSTANTS
  Listeners = {"netflow", "sflow"}
  Decoders <- MCDecoders
  MaxFlows = 3
  PacketFlows = {0, 1, 2}
  MaxPackets = 2
  PacketCap = 1
  FlowCap = 1
  EnrichedCap = 1
  BatchSize = 2
  StoreFails = TRUE
  Deadline = TRUE
  Exporters <- MCExporters
  Workers = {"w1", "w2"}
  Packets <- MCPackets
  Values = {0, 40}
  MaxTemplates = 2
  MaxRates = 1
  MaxRate = 30
  Wide = 64
  Override <- MCOverride
  MaxDatagrams = 3
  V5Lengths = {23, 24, 71, 72, 1463, 1464, 1500}
  V5Counts = {0, 1, 2, 30, 31}
  Lengths = {27, 28, 39, 40, 336}
  SampleLengths = {0, 31, 32, 43, 140}
  RecordLens = {0, 15, 16, 33, 85}
  HeaderLens = {13, 14, 17, 18, 34, 38, 47, 48, 54, 58, 68, 69}
  Counts = {0, 3}
  MaxSamples = 2
  Tags = {0, 2}
  IHLs = {0, 1, 5, 15}
  IfsWritten <- MCIfsWritten
  Interfaces = {1, 2}
  LocalAS = 1
  FeatureAlerts = TRUE
  Attempts = 2
  SkewPast = 2
  SkewFuture = 1
  Times <- MCTimes
INVARIANTS
  NoSendOnClosed
  PendingNeverUnderflows
  FlowsStayWithTheirExporter
  ReadsStayInside
  EngineIsScoped
  CreditsTheExportingSide
PROPERTIES
  EveryFlowHasItsFate
  ShutdownEnds
  EveryPacketIsFinished
CHECK_DEADLOCK FALSE
