\* Two goroutines per stage, at most one failing in each stage; blocks 1-4,
\* 4 unripe and empty; ts.bin empty (block 0 a gap) or holding blocks 0-1.
CONSTANTS
  w1 = w1
  w2 = w2
  Workers <- MCWorkers
  StartBlock = 1
  BlockCount = 4
  RipeBlock = 3
  NTsChoices = {0, 2}
  InitTorn = 0
  EmptyBlocks = {4}
  MaxFailures = 1
  TsWriteFails = TRUE

SPECIFICATION Spec

INVARIANT TypeOK
INVARIANT FailureCommitsNothing
INVARIANT TsDense

INVARIANT RpcOnlyForGaps

PROPERTY Termination
PROPERTY AtomicBatch
