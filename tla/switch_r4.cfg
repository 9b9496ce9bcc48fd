CONSTANTS
  MaxThreads = 2
  PrioOf <- OnlyPrio
  Delays <- NoDelays
  Yields = {}
  TimeMod = 4
  Horizon = 9
  MinSteps = 4
  WfiBlocks = FALSE
  LateTick = FALSE
  BootTick = FALSE
  NULL = NULL
  Boot = Boot
  Scratch = Scratch
  Nowhere = Nowhere
  StackEnd <- InARow
  StackSize <- ExactSizes
  OwnMax <- NoWords
SPECIFICATION CSSpec
INVARIANTS
  R4Intact
