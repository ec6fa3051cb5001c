\* No goroutine fails; block 3 has no appearance.
CONSTANTS
  w1 = w1
  w2 = w2
  Workers <- MCWorkers
  StartBlock = 1
  BlockCount = 3
  RipeBlock = 2
  NTsChoices = {0}
  InitTorn = 0
  EmptyBlocks = {3}
  MaxFailures = 0
  TsWriteFails = FALSE

SPECIFICATION Spec

INVARIANT EveryBlockHasFile
