CONSTANT Blocks <- MCBlocks
INIT Init
NEXT Next
INVARIANT DirectMatchesSpec
INVARIANT ImplicitGateWithinSpec
