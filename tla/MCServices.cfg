SPECIFICATION Spec
CONSTANTS
  n1 = n1
  n2 = n2
  m1 = m1
  m2 = m2
  s1 = s1
  s2 = s2
  s3 = s3
  g1 = g1
  g2 = g2
  k1 = k1
  k2 = k2
  b1 = b1
  b2 = b2
  c1 = c1
  c2 = c2
  h1 = h1
  h2 = h2
  p1 = p1
  p2 = p2
  r1 = r1
  t1 = t1
  t2 = t2
  IqFlags = {"RxDone", "CrcError", "RxTimeout"}
  IqCapacity = 2
  MaxStatuses = 2
  MaxDrains = 2
  DcWindow = 4
  DcLimit = 2
  DcAirtimes = {1, 2}
  DcActive = 1
  DcSleep = 2
  DcHorizon = 9
  DlCallers = {c1, c2}
  DlAirtimes = {1, 2}
  DlHorizon = 7
  CbHorizon = 4
  Channels = 3
  AdrSamples <- MCAdrSamples
  AdrWindow = 5
  AdrNetworkSf = {6, 12}
  LbNodes = {n1, n2}
  LbMessages = {m1, m2}
  LbCache = 1
  LbChannel = 3
  CfSignatures = {s1, s2, s3}
  CfMaxSize = 2
  CfHorizon = 6
  GsMeters = {g1, g2}
  GsKeys = {k1, k2}
  GsBrokers = {b1, b2}
  GsSeed <- MCSeed
  GsSilence = 0
  GsHorizon = 2
  GsFrames = 2
  GsPushes = 2
  FsFrames <- MCFsFrames
  FsSent = 2
  FsChunks = {5, 16}
  FsFaults = 1
  MsModes <- MCModes
  MsSequences <- MCSequences
  MsMaxCycles = {2, 3}
  MsPauses = {500}
  WfMaxLength = 15
  WfGarbled = {0, 22, 16, 104, 229, 3, 9}
  WfFaults = 1
  WfFrames <- MCWiredFrames
  WfAddresses <- MCAddresses
  FcKeys = {k1, k2}
  FcDevices <- MCFcDevices
  FcLengths = {5, 16, 40}
  FcPlainCis = {114, 121}
  RwRecords <- MCRecords
  RwCount = 2
  RwFillers = {0, 1}
  RwCuts = {0, 1, 2, 5}
  WlFrames <- MCLinkFrames
  WlPayloads = {14, 20, 28, 42}
  WlTolerated = {2}
  WlFaults = 1
  SuCalls = 3
  SuFaults = 1
  SuRetries = 1
  HlDevices = {h1, h2}
  HlItems = 3
  HlCalls = 3
  BmPorts = {p1, p2}
  BmRadios = {r1}
  BmCalls = 3
  BmRates = 3
  BmReceptions = 2
  BmDigits = 3
  BmAddresses <- MCBmAddresses
  NwDevices = {h1, h2, s1}
  NwFrequencies = 2
  NwMaxDevices = 2
  RoCalls = 3
  RoFaults = 1
  RoBursts = 1
  LfDevices = {n1}
  LfPayloads <- MCPayloads
  LfPort = 1
  LfPackets = 5
  LrEntries = 2
  LrTypes = {0, 1, 103, 104, 113, 119, 120, 133, 136, 200}
  LrChannels = 3
  LrPorts = {0, 1}
  GpPins = {24, 25}
  GpWirings <- MCWirings
  GpSetups <- MCSetups
  GpCalls = 3
  GpEdges = 2
  GpFaults = 1
  GpHorizon = 2
  GpFifo = 2
  InThreads = {t1, t2}
  InDevices = {g1, g2}
  InWindow = 1
  InMaxWindows = 3
  InThreshold = 1
  InCalls = 3
  InHorizon = 3
  InSamples <- MCInSamples
  InRecords <- MCInRecords
  InFrame = 2
  VdOwn = {"KAM"}
  VdRecords <- MCVdRecords
  VdCis = {114, 160}
  VdBlocks <- MCVdBlocks
  VdDates <- MCVdDates
  VdTimes <- MCVdTimes
  VdLetters = {0, 1, 17, 26, 27}
  VdNumbers = {0, 9, 10, 99999999, 100000000, 1234567890}
  VdCalls = 3
  IbBytes = 2
  IbMoves = 2
  IbDefault = 1
  IbLimits = {1, 9}
  GmConfigs <- MCGmConfigs
  GmCapacity = 3
  GmAttempts = 0
  GmStarts = 2
  GmRounds = 1
  GmLosses = 1
  GmFaults = 1
INVARIANTS
  EventsAccounted
  
  StoreTruthful
  PayloadsKept
  StreamsWhole
  ChipsAsTold
  HandleFaithful
  
  
  LinkSettles
  
  
  FramesIntact
  CryptoSound
CHECK_DEADLOCK FALSE
