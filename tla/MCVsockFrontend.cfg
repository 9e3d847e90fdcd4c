CONSTANTS
  QueueCount = 3
  QueueMax = 1
  RamSize = 100
  WordSize = 16
  LowFeatures = {}
  HighFeatures = {"version_1"}
  HostFeatures = {"version_1"}
  IndexSize = 2
  MAX_DEVICE_STEPS = 1
  MAX_HELD_TX_COMPLETIONS = 2
  MaxReplies = 0
  MaxChores = 1
  MaxResets = 0
  DriverQueues = {{1}}
  TxPayloads = {TRUE, FALSE}
  RxResults = {}
SPECIFICATION LiveSpec
PROPERTIES FrontendGoesOn
CHECK_DEADLOCK FALSE
