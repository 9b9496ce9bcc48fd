CONSTANTS
  MaxThreads = 3
  PrioOf <- MonitorPrio
  Delays <- MonitorDelays
  Yields = {}
  TimeMod = 4
  Horizon = 9
  MinSteps = 16
  WfiBlocks = FALSE
  LateTick = FALSE
  BootTick = FALSE
  NULL = NULL
  Boot = Boot
SPECIFICATION FairSpec
PROPERTIES
  EqualsShareCPU
