CONSTANTS
  MaxThreads = 3
  MaxPrio = 2
  MaxTime = 1
  NULL = NULL
SPECIFICATION Spec
PROPERTIES
  LoopsMatchSets
  PassedOverIsNearer
