SPECIFICATION MCSpec
CONSTANTS
  UpChunks = 2
  DownChunks = 1
  MaxQueuedFrames = 1
  StreamWindow = 1
  UdpBatches <- MCBatches
  UdpReceives = {3, 4}
  MaxUdpDrops = 2
  NetStreams = {1,2,3}
  NetOpens <- MCOpens
  NetListeners <- MCListeners
  MaxListeners = 3
  MaxResources = 2
  MaxDnsRequests = 2
  MaxResolvers = 1
  Gateways = {"gw"}
  Loopbacks = {"lo"}
  Floored = {"lan", "lo", "gw"}
  LearnedCapacity = 3
  LearnedTtl = 2
  MaxExpanded = 4
  MaxResolved = 2
  NetConfigs <- MCNetConfigs
  UdpAddresses = {"pub", "lan", "lo"}
  UdpPorts = {53, 80}
  UpstreamAnswers <- MCAnswers
  PeerCapacity = 2
  PeerTtl = 1
  MaxClock = 3
  MaxAnswers = 2
  DnsClients = {1, 2}
  MaxDnsQueries = 2
  MaxQuestions = 3
  ControlBytes = 2
  DnsIds = {7}
  LabelLengths = {61, 63, 64}
  MaxLabels = 4
  AddressCounts = {0, 1, 31, 300}
  QueryTypes = {1, 15}
INVARIANTS GrantsHaveOneOwner AnswersAreOwn NetworkHolds
 
CHECK_DEADLOCK FALSE
