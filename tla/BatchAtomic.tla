---------------------------- MODULE BatchAtomic ----------------------------
(***************************************************************************)
(* What one call of HandleScrapeBlaze promises (spec 4.5 and 7), with the  *)
(* pipeline's goroutines, channels and wait groups hidden: the batch       *)
(* either commits, leaving exactly the appearance file of every block      *)
(* with appearances in ripe/ or unripe/ and ts.bin extended towards the    *)
(* end of the batch, or aborts, leaving both folders empty and ts.bin as   *)
(* it was.  Nothing is observable before that one step.                    *)
(*                                                                         *)
(* TsBestEffort says whether a write to ts.bin may fall short: the code    *)
(* drops WriteTimestamps' error, so a committed batch promises only that   *)
(* ts.bin grew no further than 8 bytes per block up to the batch's end.    *)
(***************************************************************************)
EXTENDS Integers

CONSTANTS
  Batch,         \* the blocks of the call
  RipeBlock,     \* blocks above it are unripe
  EmptyBlocks,   \* blocks without appearances
  InitLens,      \* the sizes in bytes ts.bin may have when the call starts
  StopLen,       \* size of ts.bin that covers every block of the batch
  TsBestEffort   \* whether the ts.bin append may stop early

VARIABLES ripe, unripe, tsLen, result

avars == <<ripe, unripe, tsLen, result>>

Written == Batch \ EmptyBlocks

Init ==
  /\ ripe = {} /\ unripe = {}
  /\ tsLen \in InitLens
  /\ result = "none"

\* The lengths ts.bin of len bytes may have after a committed batch.
TsAfter(len) ==
  IF len >= StopLen THEN {len}
  ELSE IF TsBestEffort THEN len .. StopLen ELSE {StopLen}

Commit ==
  /\ result = "none"
  /\ ripe' = {b \in Written : b <= RipeBlock}
  /\ unripe' = {b \in Written : b > RipeBlock}
  /\ tsLen' \in TsAfter(tsLen)
  /\ result' = "ok"

Abort ==
  /\ result = "none"
  /\ result' = "err"
  /\ UNCHANGED <<ripe, unripe, tsLen>>

Next == Commit \/ Abort

Spec == Init /\ [][Next]_avars /\ WF_avars(Next)

=============================================================================
