SPECIFICATION FairSpec
CONSTANTS
  VcpuCount = 2
  MayTimeOut = FALSE
PROPERTIES EveryKickedVcpuObservesStop
