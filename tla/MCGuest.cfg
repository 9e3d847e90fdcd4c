SPECIFICATION MCSpec
CONSTANTS
  OwnedChildren = {1,2,3}
  Orphans = {4}
  Pids = {1,2}
  MaxSignals = 1
  Daemons = {1,2}
  HookCounts = {0,1}
  MaxRestarts = 1
  Streams = {1, 2}
  QueuedClients = 1
  DiagnosticQueue = 1
  MaxRecords = 2
  Terminals = {"c1","c2"}
  TermSizes = {1}
  DefaultSize = 3
  MaxOutput = 2
  TermMaxResizes = 1
  MaxControls = 1
  ExecModes = {"pty","pipes"}
  MaxChunks = 2
  RootModes = {"writable", "readonly", "overlay"}
  ImageSizes = {5, 9}
  BakedBlocks = 2
  BlockUnits = 2
  PageUnits = 4
  RemountAttempts = 2
  MaxBoots = 3
  Carriers = {1, 2, 3}
  PublishedTcp = {80}
  PublishedUdp = {53}
  NamedPorts = {80, 53}
  MaxTcpClients = 1
  MaxUdpClients = 1
  MaxCarriers = 2
  HostPeers = {1, 2, 3}
  MaxPublicationPeers = 2
  PublicationTtl = 1
  MaxHostDatagrams = 3
  MaxPublicationClock = 2
INVARIANTS ChildrenAreTheirOwners GuestHolds
 
CHECK_DEADLOCK FALSE
