SPECIFICATION MCSpec
CONSTANTS
  Purposes = {"session", "exec", "setup", "list", "detach", "detachAll"}
  KeysTyped <- MCKeys
  InputCapacity = 1
  MaxOutputs = 2
  LogCap = 4
  LogLines <- MCLines
  ReadSize = 2
  TailLines <- MCTails
  MaxLogged = 6
  MaxLogBoots = 2
  Programs <- Progs
  SyscallNumber = "n"
  ReturnValue = "n"
  Arguments = {"a", "b"}
  Clobbered = {"n", "a", "b"}
  MaxDepth = 2
  MaxNesting = 3
  Wrappers = {"w1","w2"}
  NewFile = "new"
  SocketRequests = {1,2,3,4}
  UdpRequests = {1}
  MaxPendingConnects = 2
  NumCpus = 2
  Entries = {"e1","e2"}
  BadEntry = "bad"
  MaxCpuOns = 2
  ByteBits = 1
  Backends = {"hvf", "whpArm", "kvmArm", "kvmX86", "whpX86"}
  Instructions <- MCInstructions
  RegisterValues = {181}
  DeviceValues = {85, 255}
  MaxInstructions = 2
  LifeConfigs <- MCConfigs
  LifeMaxVcpus = 2
INVARIANTS ProcessesTellTheTruth 
PROPERTIES StoppedBoxIsLeft
CHECK_DEADLOCK FALSE
