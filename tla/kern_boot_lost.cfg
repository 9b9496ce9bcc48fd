CONSTANTS
  MaxThreads = 1
  PrioOf <- OnlyPrio
  Delays <- NoDelays
  Yields = {}
  TimeMod = 4
  Horizon = 9
  MinSteps = 4
  WfiBlocks = FALSE
  LateTick = FALSE
  BootTick = TRUE
  NULL = NULL
  Boot = Boot
SPECIFICATION Spec
INVARIANTS
  BlocksResumeTheirThread
