SPECIFICATION MCSpec
CONSTANTS
  BlockRequests <- MCReqs
  DiskSectors = 2
  MaxTransfer = 2
  MaxDiscard = 2
  BlockRingSize = 2
  MaxPosts = 3
  MaxBlockResets = 1
  MaxDiskErrors = 1
  BalloonReports <- MCReports
  RamHalves = 8
  RingHalves = {0, 1}
  MaxReportRanges = 2
  MaxReportHalves = 4
  SignalsPerWindow = 2
  MaxReports = 3
  MaxBalloonResets = 1
  EventBudget = 2
  WatchBudget = 2
  MaxHostChanges = 4
  MaxNodes = 2
  MaxHandles = 1
  MaxDirectories = 1
  MaxEntries = 1
  FsScripts <- MCFsScripts
  FsNames = {1,2}
  MaxActiveIo = 2
  MaxPendingIo = 3
  MaxFsResets = 1
  MaxFsEvents = 1
  MaxConnections = 3
  FlowCapacity = 1
  BytesToWrite = 6
  MaxChunk = 3
  QueuedChunks = 3
  ItemsToRead = 2
  MaxPipeConnections = 2
  PipeBytes = 2
  PipeCapacity = 1
  AgentClients = {1,2}
  MaxClientStreams = 1
  MaxDiagnostics = 1
  EventCapacity = 1
  DiagnosticCapacity = 1
INVARIANTS NoStaleCompletion WorkerLeavesNothing DevicesHold
PROPERTIES DevicesAnswer
CHECK_DEADLOCK FALSE
