CONSTANTS
  MaxThreads = 2
  Thread <- Pointers
  Images <- NoneOrOneWord
  Noise = {0, 1}
  FreeWords = 3
  StackWords = 2
  Main = Main
  HeapUsers <- MainAndOne
  Increments <- GrowAndShrink
  MaxResets = 1
SPECIFICATION FairSpec
CHECK_DEADLOCK FALSE
INVARIANTS
  TypeOK
  MainStartsClean
  SchedulerSeesThreads
  TableAsTold
  HeapExact
PROPERTIES
  RestartsComplete
