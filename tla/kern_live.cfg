CONSTANTS
  MaxThreads = 2
  PrioOf <- AnyPrio
  Delays <- ShortDelays
  Yields = {1}
  TimeMod = 4
  Horizon = 9
  MinSteps = 6
  WfiBlocks = FALSE
  LateTick = FALSE
  BootTick = FALSE
  NULL = NULL
  Boot = Boot
SPECIFICATION FairSpec
PROPERTIES
  SleepersWake
  TopDispatched
  AloneRuns
  SpinnersShareCPU
