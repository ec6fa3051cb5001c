\* Two invocations on one custom and one regular name; chain queries and
\* database reads and writes may fail.
CONSTANTS
  a1 = a1
  a2 = a2
  NoToken = NoToken
  Addrs <- MCAddrs
  CustomAddrs <- MCCustomAddrs
  NameChoices <- MCNameChoices
  ChainChoices <- MCChainChoices
  QueryMayFail = TRUE
  IoMayFail = TRUE
  MaxRuns = 2

SPECIFICATION Spec

INVARIANT SavedOnlyClean
INVARIANT CleanSavesEveryChange
INVARIANT CleanSettlesInTwo
