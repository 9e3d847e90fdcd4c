SPECIFICATION MCSpec
CONSTANTS
  Regions <- MCRegions
  AddressTop = 16
  CopyRanges <- MCRanges
  MaxCopyRanges = 2
  MaxSingleCopy = 3
  MaxBatchCopy = 5
  MaxBatchRanges = 2
  PageSizes = {2,4}
  DiscardBytes = 8
  RingSize = 2
  IndexModulus = 4
  RingMaxPosts = 5
  ChainLimit = 2
  WalkTables <- MCTables
  EntryNames = {"a","b"}
  HostFiles = {"f1", "f2", "d1", "l1"}
  FileKind <- Kind
  NodeFirstEntries <- First
  MaxNodeRequests = 2
  NodeMaxHostChanges = 1
  OpenDirs = {1,2}
  Listing <- MCListing
  NameLength <- MCLength
  EntryLimit = 2
  PageBytes = {40}
  BatchEntries = 2
  MaxCachedEntries = 3
  MaxCacheBytes = 18
  MaxRewinds = 1
  DescriptorSlots = {1,2,3}
  OpenCalls = {1,2}
  DescriptorBudget = 3
  MaxOpens = 5
  ShareDirs = {"p","q"}
  ShareCalls = {"c1","c2"}
  LeafNames = {"a"}
  FirstPlaces <- MCPlaces
  MaxShareCalls = 2
  MaxHostRenames = 1
  DownScripts <- Downs
  UpScripts <- Ups
  MaxDatagramBytes = 2
  MaxSegments = 3
  MaxRunBytes = 5
  PathMaxEntries = 2
  MaxBatchBytes = 7
  FieldValues = {0}
  PortValues = {1}
  AddressHalves = {7}
  DatagramBytes = {9}
  MaxDatagramLength = 2
  MaxRunLength = 3
  MaxRunSegments = 2
  MaxKeepaliveSecs = 1
  MaxKeepaliveProbes = 1
  SocketErrors = {1}
  MaxFramesSent = 2
  PathParts = {"a", "", "..", "nul"}
  MaxPathParts = 2
  MaxPathLength = 1
  MaxPayloadUnits = 4
  MaxFileSize = 2
  FileSizes = {0, 3}
  NanosPerSecond = 4
  NanosStep = 2
  Nanos = {0, 3, 4}
  MaxMessages = 2
  ImageLengths = {1, 4, 5}
  ChunkBytes = 2
  MaxCompressed = 2
  WrongValues = {0, 2, 6}
  MaxReads = 3
  SourceTrees <- MCSource
  TargetTrees <- MCTarget
  FileSize <- Size
  FileChunks = 2
  CopyMaxEdits = 2
  Endpoints <- MCEndpoints
  SourceBase <- MCSourceBase
  DestBase <- MCDestBase
  SourceTreesSeen <- MCSources
  DestTreesSeen <- MCDests
  MaxSyncEntries = 3
  MaxSyncMetadata = 6
  EntryOverhead = 1
  MaxTreeChanges = 1
  DirOrder <- MCOrder
  SyncNameSets <- MCSets
  FoldedName <- Fold
  MaxProbeFaults = 1
  LinkPaths <- MCPaths
  LinkTargets <- MCTargets
  FoldName <- LinksFold
  MaxFollows = 3
  X86MaxDevices = 37
  ArmMaxDevices = 16
  Machines <- MCMachines
  CopyWords = 16
  MaxKernelWords = 60
  PrefixWords = 40
  BootMaxSegments = 2
  BootMaxVcpus = 32
  Boxes <- MCBoxes
  Memories = {"a", "b"}
  ComponentLimit = 3
  NetworkLimit = 4
  MaxPages = 5
INVARIANTS DescriptorsArePaid   BoxesAreAssembled
CHECK_DEADLOCK FALSE
