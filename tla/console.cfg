CONSTANTS
  t1 = t1  t2 = t2  t3 = t3
  Thread = {t1, t2, t3}
  IntBits = 9
  Unit = 16
  Programs <- Either
  MaxCalls <- Calls
SPECIFICATION FairSpec
INVARIANTS
  TypeOK
  PrintsWhatIsMeant
  LonePrinterLosesNothing
  StreamsInOrder
PROPERTIES
  CallsReturn
CHECK_DEADLOCK FALSE
