-------------------------- MODULE MCBlazePipeline --------------------------
(* Instantiates BlazePipeline for TLC: two goroutines per stage and the   *)
(* goroutine ids as model values.  The cfgs pick the batch and the ts.bin  *)
(* the call finds: short of StartBlock (a gap to fill) or reaching into   *)
(* the batch (the unripe blocks of the last call scraped again).           *)
EXTENDS BlazePipeline

CONSTANTS w1, w2

MCWorkers == {w1, w2}
=============================================================================
