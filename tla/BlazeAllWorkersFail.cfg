\* Two goroutines per stage, both of one stage may fail.
CONSTANTS
  w1 = w1
  w2 = w2
  Workers <- MCWorkers
  StartBlock = 1
  BlockCount = 3
  RipeBlock = 2
  NTsChoices = {0}
  InitTorn = 0
  EmptyBlocks = {3}
  MaxFailures = 2
  TsWriteFails = TRUE

SPECIFICATION Spec

PROPERTY Termination
CHECK_DEADLOCK FALSE
