SPECIFICATION MCSpec
CONSTANTS
  BridgeVcpu = {v1, v2}
  BridgeSlot = {s1, s2}
  Nowhere = Nowhere
  COMMAND_CAPACITY = 2
  CONTROL_CAPACITY = 1
INVARIANTS BridgeHolds
PROPERTIES AccessIsAnswered
CHECK_DEADLOCK FALSE
