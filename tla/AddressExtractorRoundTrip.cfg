CONSTANT Blocks <- MCBlocks
INIT Init
NEXT Next
INVARIANT ImplicitRoundTrip
