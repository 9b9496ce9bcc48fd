CONSTANTS
  MaxThreads = 2
  PrioOf <- OnlyPrio
  Delays <- ShortDelays
  Yields = {}
  TimeMod = 4
  Horizon = 9
  MinSteps = 2
  WfiBlocks = FALSE
  LateTick = FALSE
  BootTick = FALSE
  NULL = NULL
  Boot = Boot
SPECIFICATION Spec
INVARIANTS
  SleepAtLeastTicks
