CONSTANTS
  a1 = a1
  a2 = a2
  Addrs <- MCAddrs
  Commands <- MCCommands
  RemoveOutcomes = {"ok", "err", "quiet"}
  CacheItems = 1
  MaxCmds = 2
SYMMETRY MCSymmetry
INIT Init
NEXT Next
INVARIANT NoPanic
