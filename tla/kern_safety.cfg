CONSTANTS
  MaxThreads = 2
  PrioOf <- AnyPrio
  Delays <- SleepersDelays
  Yields = {1}
  TimeMod = 16
  Horizon = 8
  MinSteps = 2
  WfiBlocks = FALSE
  LateTick = FALSE
  BootTick = TRUE
  NULL = NULL
  Boot = Boot
SPECIFICATION Spec
INVARIANTS
  TypeOK
  RunningIsCurrent
  StrictPriority
  SleepersDontRun
  NoMissedWake
  SleepAtLeastTicks
  TickAccounting
  IInv
PROPERTIES
  ImplementsIdeal
