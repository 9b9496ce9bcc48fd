CONSTANTS
  MaxThreads = 3
  PrioOf <- OnlyPrio
  Delays <- FirstSleeps
  Yields = {1}
  TimeMod = 16
  Horizon = 8
  MinSteps = 2
  WfiBlocks = FALSE
  LateTick = TRUE
  BootTick = FALSE
  NULL = NULL
  Boot = Boot
  Scratch = Scratch
  Nowhere = Nowhere
  StackEnd <- InARow
  StackSize <- ExactSizes
  OwnMax <- WordsPushed
SPECIFICATION CSSpec
INVARIANTS
  CSTypeOK
  HighRegistersIntact
  StackIntact
  FramesInPlace
  BootStack
  SwitchInv
  StackNeeds
  BlocksResumeTheirThread
  NoTickLost
