SPECIFICATION MCSpec
CONSTANTS
  Slot <- MCSlot
  Pin <- MCPin
  Route <- MCRoute
  Vector = {32}
  LineCapacity = 2
  CloseMayTimeOut = TRUE
  VcpuCount = 3
  MayTimeOut = TRUE
  BoxVcpu = {v1}
  Device = {"agent"}
  Kind <- MCKind
  ExitCode = {7}
  box_hard_stop = TRUE
  has_deadline = TRUE
  ApicVcpu = {v1}
  ApicCapacity = 1
  Reserved = {}
  GuestEntries = {}
INVARIANTS KickedThreadsAreAlive ParkedBeforeBoot JoinedMeansEnded MachineHolds
PROPERTIES MachineGoesOn
CHECK_DEADLOCK FALSE
