CONSTANTS
  a1 = a1
  a2 = a2
  Addrs <- MCAddrs
  Commands <- MCCommands
  RemoveOutcomes = {"ok", "err"}
  CacheItems = 1
  MaxCmds = 3
SPECIFICATION Spec
SYMMETRY MCSymmetry
INVARIANT AllOrNothing
INVARIANT TableRespected
