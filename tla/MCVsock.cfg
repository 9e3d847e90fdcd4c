SPECIFICATION MCSpec
CONSTANTS
  HalfWrap = 5
  MAX_QUEUED_REPLIES = 3
  RESERVED_CONTROL_REPLY_SLOTS = 1
  MAX_PACKET_DATA_BYTES = 2
  Window = 4
  Budget = 2
  RxAlloc <- MCRxAlloc
  MaxTxBytes <- MCMaxTxBytes
  None = None
  FlowGuestPorts = {"p1"}
  PublicationHostPorts = {"h1"}
  NetworkSocketCapacity = 2
  MAX_REJECTED_RESETS = 1
  NetworkAtStart = TRUE
  MaxNumber = 7
  GuestPairs = {}
  Headers = {}
  SendLengths = {}
  ReadLengths = {}
  QueueCount = 3
  QueueMax = 2
  RamSize = 100
  WordSize = 16
  LowFeatures = {}
  HighFeatures = {"version_1"}
  HostFeatures = {"version_1"}
  IndexSize = 3
  MAX_DEVICE_STEPS = 2
  MAX_HELD_TX_COMPLETIONS = 1
  MaxReplies = 1
  MaxChores = 1
  MaxResets = 1
  DriverQueues <- OneQueue
  TxPayloads = {TRUE, FALSE}
  RxResults = {"refused", "retry", "sent", "part"}
INVARIANTS ReceiveWindowHolds DataBeforeCloseHolds SlotsAreOwned NumbersAreFresh NoLostTxKick RingsAreServed
CHECK_DEADLOCK FALSE
