SPECIFICATION MCSpec
CONSTANTS
  BoxVcpu = {v1, v2}
  FirstVcpu = v1
  Device = {"agent", "block"}
  Kind <- MCKind
  ExitCode = {7}
  box_hard_stop = FALSE
  has_deadline = FALSE
  Slot = {"fs", "vsock"}
  Pin = {5}
  Route <- MCRoute
  Vector = {31, 32}
  Reserved = {31}
  ApicVcpu = {v1, v2}
  ApicCapacity = 1
  GuestEntries <- MCEntries
  QueueCount = 1
  QueueMax = 2
  RamSize = 33
  WordSize = 16
  LowFeatures = {"ring_reset"}
  HighFeatures = {"version_1"}
  HostFeatures = {"version_1"}
  GuestWords = {0, 1}
  GuestSizes = {0, 1, 2, 3, 4}
  LineCapacity = 1
  CloseMayTimeOut = FALSE
SYMMETRY VcpuSymmetry
INVARIANTS BoxEndsWell InterruptsAreKept ReadyRingsInRam LineFollowsDevice
CHECK_DEADLOCK FALSE
