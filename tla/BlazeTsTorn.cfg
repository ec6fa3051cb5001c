\* ts.bin ends in the first 4 bytes of block 0's record, left by an earlier
\* write that was cut short; nothing fails during the call.
CONSTANTS
  w1 = w1
  w2 = w2
  Workers <- MCWorkers
  StartBlock = 1
  BlockCount = 2
  RipeBlock = 2
  NTsChoices = {0}
  InitTorn = 4
  EmptyBlocks = {}
  MaxFailures = 0
  TsWriteFails = FALSE

SPECIFICATION Spec

INVARIANT TsDense
