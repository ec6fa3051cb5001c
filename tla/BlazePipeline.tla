--------------------------- MODULE BlazePipeline ---------------------------
(***************************************************************************)
(* One call of HandleScrapeBlaze (handle_scrape_blaze.go) and the Blaze    *)
(* pipeline it drives (blaze.go).                                          *)
(*                                                                         *)
(* HandleBlaze starts NChannels goroutines for each of three stages,       *)
(* connected by unbuffered Go channels:                                    *)
(*   driver --blockChannel--> fetch --appearanceChannel--> appearance      *)
(*                                  \--tsChannel---------> timestamp       *)
(* The driver sends every block of [StartBlock, StartBlock+BlockCount),    *)
(* closes blockChannel, waits on BlockWg, closes appearanceChannel, waits  *)
(* on AppearanceWg, closes tsChannel and waits on TsWg.  A worker that     *)
(* meets an error returns from its goroutine (its deferred Done runs) and  *)
(* the error is dropped.  HandleScrapeBlaze then counts the blocks of the  *)
(* range missing from ProcessedMap; if any, it cleans the temporary        *)
(* folders and returns an error, otherwise it appends to ts.bin.           *)
(*                                                                         *)
(* A send on an unbuffered channel is a rendezvous: it is one step that    *)
(* moves both the sender and a receiver blocked in its range loop.         *)
(***************************************************************************)
EXTENDS Naturals, Sequences, FiniteSets, SequencesExt

CONSTANTS
  Workers,      \* the NChannels goroutine ids of one stage
  StartBlock,   \* opts.StartBlock
  BlockCount,   \* opts.BlockCount
  RipeBlock,    \* opts.RipeBlock = head - unripeDist
  NTsChoices,   \* the numbers of whole records ts.bin may hold before the call
  InitTorn,     \* bytes of a torn record after them (a write cut short earlier)
  EmptyBlocks,  \* blocks whose traces and logs yield no appearance
  MaxFailures   \* bound on the goroutines of one stage that return an error

ASSUME Workers # {} /\ IsFiniteSet(Workers)
ASSUME StartBlock \in Nat /\ BlockCount \in Nat /\ RipeBlock \in Nat
ASSUME NTsChoices \subseteq Nat /\ InitTorn \in 0 .. 7
ASSUME MaxFailures \in Nat

\* The blocks of this call, and ts.bin's stop (exclusive).
Batch == StartBlock .. (StartBlock + BlockCount - 1)
Stop == StartBlock + BlockCount

ASSUME EmptyBlocks \subseteq Batch

VARIABLES
  drv,          \* the driver's place in HandleBlaze / HandleScrapeBlaze
  nextBlock,    \* the loop variable of the driver's send loop
  blockClosed,  \* close(blockChannel) has run
  appClosed,    \* close(appearanceChannel) has run
  tsClosed,     \* close(tsChannel) has run
  blockWg, appWg, tsWg,   \* the three sync.WaitGroup counters
  fetchPc, fetchBlk,      \* BlazeProcessBlocks goroutines
  appPc, appBlk,          \* BlazeProcessAppearances goroutines
  tsPc,                   \* BlazeProcessTimestamps goroutines
  ripe, unripe, \* blocks with a file in index/ripe/ and index/unripe/
  processed,    \* ProcessedMap: blocks whose appearances were written
  tsArray,      \* opts.TsArray: block numbers in append order
  tsFile,       \* ts.bin: a sequence of bytes [bn, off, rpc], byte off of
                \* block bn's 8-byte record, its timestamp from the RPC or not
  result,       \* what HandleScrapeBlaze returned: "none", "ok" or "err"
  tsInit        \* history: ts.bin when the call began

vars == <<drv, nextBlock, blockClosed, appClosed, tsClosed, blockWg, appWg,
          tsWg, fetchPc, fetchBlk, appPc, appBlk, tsPc, ripe, unripe,
          processed, tsArray, tsFile, result>>
hvars == <<vars, tsInit>>

NoBlock == -1

\* The 8 bytes binary.Write puts down for a tslib.Timestamp{Bn, Ts} record.
Bytes(r) == [j \in 1 .. 8 |-> [bn |-> r.bn, off |-> j - 1, rpc |-> r.rpc]]
RecordBytes(recs) == FlattenSeq([i \in DOMAIN recs |-> Bytes(recs[i])])

\* ts.bin as it may be before the call: n dense records, then the first
\* InitTorn bytes of the next one.
InitTsFile(n) ==
  RecordBytes([i \in 1 .. n |-> [bn |-> i - 1, rpc |-> TRUE]])
  \o SubSeq(Bytes([bn |-> n, rpc |-> TRUE]), 1, InitTorn)

Init ==
  /\ drv = "send"
  /\ nextBlock = StartBlock
  /\ blockClosed = FALSE /\ appClosed = FALSE /\ tsClosed = FALSE
  /\ blockWg = Cardinality(Workers)
  /\ appWg = Cardinality(Workers)
  /\ tsWg = Cardinality(Workers)
  /\ fetchPc = [w \in Workers |-> "idle"]
  /\ fetchBlk = [w \in Workers |-> NoBlock]
  /\ appPc = [w \in Workers |-> "idle"]
  /\ appBlk = [w \in Workers |-> NoBlock]
  /\ tsPc = [w \in Workers |-> "idle"]
  /\ ripe = {} /\ unripe = {}
  /\ processed = {}
  /\ tsArray = <<>>
  /\ tsFile \in {InitTsFile(n) : n \in NTsChoices}
  /\ result = "none"
  /\ tsInit = tsFile

Failed(pc) == Cardinality({w \in Workers : pc[w] = "failed"})

----------------------------------------------------------------------------
(* The driver: the send loop and the close/Wait sequence of HandleBlaze.   *)

\* Mutation of DriverSend: the send loop runs while block <= end.
DriverSendPastEnd(w) ==
  /\ drv = "send"
  /\ nextBlock <= Stop
  /\ fetchPc[w] = "idle"
  /\ fetchPc' = [fetchPc EXCEPT ![w] = "rpc"]
  /\ fetchBlk' = [fetchBlk EXCEPT ![w] = nextBlock]
  /\ nextBlock' = nextBlock + 1
  /\ UNCHANGED <<drv, blockClosed, appClosed, tsClosed, blockWg, appWg, tsWg,
                 appPc, appBlk, tsPc, ripe, unripe, processed, tsArray,
                 tsFile, result>>

\* blockChannel <- block, received by an idle fetch goroutine.
DriverSend(w) ==
  /\ drv = "send"
  /\ nextBlock < Stop
  /\ fetchPc[w] = "idle"
  /\ fetchPc' = [fetchPc EXCEPT ![w] = "rpc"]
  /\ fetchBlk' = [fetchBlk EXCEPT ![w] = nextBlock]
  /\ nextBlock' = nextBlock + 1
  /\ UNCHANGED <<drv, blockClosed, appClosed, tsClosed, blockWg, appWg, tsWg,
                 appPc, appBlk, tsPc, ripe, unripe, processed, tsArray,
                 tsFile, result>>

\* close(blockChannel) after the loop; then BlockWg.Wait().
DriverCloseBlocks ==
  /\ drv = "send"
  /\ nextBlock = Stop
  /\ blockClosed' = TRUE
  /\ drv' = "waitBlock"
  /\ UNCHANGED <<nextBlock, appClosed, tsClosed, blockWg, appWg, tsWg, fetchPc,
                 fetchBlk, appPc, appBlk, tsPc, ripe, unripe, processed,
                 tsArray, tsFile, result>>

\* BlockWg.Wait() returns; close(appearanceChannel); AppearanceWg.Wait().
DriverCloseAppearances ==
  /\ drv = "waitBlock"
  /\ blockWg = 0
  /\ appClosed' = TRUE
  /\ drv' = "waitApp"
  /\ UNCHANGED <<nextBlock, blockClosed, tsClosed, blockWg, appWg, tsWg,
                 fetchPc, fetchBlk, appPc, appBlk, tsPc, ripe, unripe,
                 processed, tsArray, tsFile, result>>

(* Mutation of DriverCloseTimestamps: tsChannel is closed without waiting  *)
(* for AppearanceWg, so HandleBlaze can return while an appearance         *)
(* goroutine is still writing.                                             *)
DriverCloseTimestampsNoWait ==
  /\ drv = "waitApp"
  /\ tsClosed' = TRUE
  /\ drv' = "waitTs"
  /\ UNCHANGED <<nextBlock, blockClosed, appClosed, blockWg, appWg, tsWg,
                 fetchPc, fetchBlk, appPc, appBlk, tsPc, ripe, unripe,
                 processed, tsArray, tsFile, result>>

\* AppearanceWg.Wait() returns; close(tsChannel); TsWg.Wait().
DriverCloseTimestamps ==
  /\ drv = "waitApp"
  /\ appWg = 0
  /\ tsClosed' = TRUE
  /\ drv' = "waitTs"
  /\ UNCHANGED <<nextBlock, blockClosed, appClosed, blockWg, appWg, tsWg,
                 fetchPc, fetchBlk, appPc, appBlk, tsPc, ripe, unripe,
                 processed, tsArray, tsFile, result>>

\* TsWg.Wait() returns and HandleBlaze returns true, nil: its goroutines
\* report no error to it.  HandleScrapeBlaze then finds a block of the
\* range missing from ProcessedMap and cleans the temporary folders.
ScrapeBlazeMissing ==
  /\ drv = "waitTs"
  /\ tsWg = 0
  /\ Batch \ processed # {}
  /\ ripe' = {} /\ unripe' = {}
  /\ result' = "err"
  /\ drv' = "done"
  /\ UNCHANGED <<nextBlock, blockClosed, appClosed, tsClosed, blockWg, appWg,
                 tsWg, fetchPc, fetchBlk, appPc, appBlk, tsPc, processed,
                 tsArray, tsFile>>

\* Mutation of TsRecords: the element at the cursor is written without
\* comparing its Bn with bn.
RECURSIVE TsRecordsNoBnCheck(_, _, _, _)
TsRecordsNoBnCheck(arr, cnt, bn, stop) ==
  IF bn >= stop THEN <<>>
  ELSE IF cnt > Len(arr)
       THEN <<[bn |-> bn, rpc |-> TRUE]>> \o TsRecordsNoBnCheck(arr, cnt + 1, bn + 1, stop)
       ELSE <<[bn |-> arr[cnt], rpc |-> FALSE]>> \o TsRecordsNoBnCheck(arr, cnt + 1, bn + 1, stop)

(* Mutation of TsRecords: an element whose Bn differs from bn is skipped  *)
(* (the cnt-- is missing), so the following blocks go to the RPC.          *)
RECURSIVE TsRecordsNoSetBack(_, _, _, _)
TsRecordsNoSetBack(arr, cnt, bn, stop) ==
  IF bn >= stop THEN <<>>
  ELSE IF cnt > Len(arr) \/ arr[cnt] # bn
       THEN <<[bn |-> bn, rpc |-> TRUE]>> \o TsRecordsNoSetBack(arr, cnt + 1, bn + 1, stop)
       ELSE <<[bn |-> arr[cnt], rpc |-> FALSE]>> \o TsRecordsNoSetBack(arr, cnt + 1, bn + 1, stop)

(* WriteTimestamps' loop over bn in [nTs, stop) with the cursor cnt into   *)
(* the sorted TsArray (1-based here): an element whose Bn is bn is         *)
(* written as it is and the cursor advances; past the end of the array     *)
(* the timestamp comes from the RPC and cnt still advances; an element     *)
(* whose Bn differs sends bn to the RPC and the cursor is set back.        *)
(* The Bn written is the one of the record written.                        *)
RECURSIVE TsRecords(_, _, _, _)
TsRecords(arr, cnt, bn, stop) ==
  IF bn >= stop THEN <<>>
  ELSE IF cnt > Len(arr)
       THEN <<[bn |-> bn, rpc |-> TRUE]>> \o TsRecords(arr, cnt + 1, bn + 1, stop)
       ELSE IF arr[cnt] # bn
            THEN <<[bn |-> bn, rpc |-> TRUE]>> \o TsRecords(arr, cnt, bn + 1, stop)
            ELSE <<[bn |-> arr[cnt], rpc |-> FALSE]>> \o TsRecords(arr, cnt + 1, bn + 1, stop)

\* sort.Slice(opts.TsArray, Bn <): every block is sent down tsChannel once.
SortedTs(arr) == SetToSortSeq(ToSet(arr), <)

(* HandleScrapeBlaze finds every block processed and calls WriteTimestamps *)
(* (tslib.NTimestamps: nTs is the size of ts.bin over 8).  When            *)
(* TsWriteFails, OpenFile or a binary.Write fails after k bytes (a disk    *)
(* that fills up cuts a record anywhere): the error is returned to         *)
(* HandleScrapeBlaze, which discards it and returns nil.                   *)
CONSTANT TsWriteFails
ASSUME TsWriteFails \in BOOLEAN

ScrapeBlazeComplete ==
  /\ drv = "waitTs"
  /\ tsWg = 0
  /\ Batch \subseteq processed
  /\ LET out == RecordBytes(TsRecords(SortedTs(tsArray), 1, Len(tsFile) \div 8, Stop))
     IN \E k \in IF TsWriteFails THEN 0 .. Len(out) ELSE {Len(out)} :
          tsFile' = tsFile \o SubSeq(out, 1, k)
  /\ result' = "ok"
  /\ drv' = "done"
  /\ UNCHANGED <<nextBlock, blockClosed, appClosed, tsClosed, blockWg, appWg,
                 tsWg, fetchPc, fetchBlk, appPc, appBlk, tsPc, ripe, unripe,
                 processed, tsArray>>

----------------------------------------------------------------------------
(* BlazeProcessBlocks: one goroutine per w.                                *)

\* The range loop ends when blockChannel is closed; the deferred Done runs.
FetchExit(w) ==
  /\ fetchPc[w] = "idle"
  /\ blockClosed
  /\ fetchPc' = [fetchPc EXCEPT ![w] = "exit"]
  /\ blockWg' = blockWg - 1
  /\ UNCHANGED <<drv, nextBlock, blockClosed, appClosed, tsClosed, appWg, tsWg,
                 fetchBlk, appPc, appBlk, tsPc, ripe, unripe, processed,
                 tsArray, tsFile, result>>

\* trace_block and eth_getLogs both answer.
FetchRpc(w) ==
  /\ fetchPc[w] = "rpc"
  /\ fetchPc' = [fetchPc EXCEPT ![w] = "sendApp"]
  /\ UNCHANGED <<drv, nextBlock, blockClosed, appClosed, tsClosed, blockWg,
                 appWg, tsWg, fetchBlk, appPc, appBlk, tsPc, ripe, unripe,
                 processed, tsArray, tsFile, result>>

(* Mutation of FetchFail: the goroutine returns without its deferred      *)
(* BlockWg.Done().                                                         *)
FetchFailNoDone(w) ==
  /\ fetchPc[w] = "rpc"
  /\ Failed(fetchPc) < MaxFailures
  /\ fetchPc' = [fetchPc EXCEPT ![w] = "failed"]
  /\ UNCHANGED <<drv, nextBlock, blockClosed, appClosed, tsClosed, blockWg,
                 appWg, tsWg, fetchBlk, appPc, appBlk, tsPc, ripe, unripe,
                 processed, tsArray, tsFile, result>>

\* trace_block or eth_getLogs fails: the goroutine returns the error
\* (nobody reads it) and its deferred BlockWg.Done() runs.
FetchFail(w) ==
  /\ fetchPc[w] = "rpc"
  /\ Failed(fetchPc) < MaxFailures
  /\ fetchPc' = [fetchPc EXCEPT ![w] = "failed"]
  /\ blockWg' = blockWg - 1
  /\ UNCHANGED <<drv, nextBlock, blockClosed, appClosed, tsClosed, appWg, tsWg,
                 fetchBlk, appPc, appBlk, tsPc, ripe, unripe, processed,
                 tsArray, tsFile, result>>

\* appearanceChannel <- ScrapedData, received by an idle appearance goroutine.
FetchSendApp(w, a) ==
  /\ fetchPc[w] = "sendApp"
  /\ appPc[a] = "idle"
  /\ fetchPc' = [fetchPc EXCEPT ![w] = "sendTs"]
  /\ appPc' = [appPc EXCEPT ![a] = "extract"]
  /\ appBlk' = [appBlk EXCEPT ![a] = fetchBlk[w]]
  /\ UNCHANGED <<drv, nextBlock, blockClosed, appClosed, tsClosed, blockWg,
                 appWg, tsWg, fetchBlk, tsPc, ripe, unripe, processed,
                 tsArray, tsFile, result>>

\* tsChannel <- {Ts, Bn}, received by an idle timestamp goroutine, which
\* appends it to opts.TsArray under blazeMutex.
FetchSendTs(w, t) ==
  /\ fetchPc[w] = "sendTs"
  /\ tsPc[t] = "idle"
  /\ tsArray' = Append(tsArray, fetchBlk[w])
  /\ fetchPc' = [fetchPc EXCEPT ![w] = "idle"]
  /\ fetchBlk' = [fetchBlk EXCEPT ![w] = NoBlock]
  /\ UNCHANGED <<drv, nextBlock, blockClosed, appClosed, tsClosed, blockWg,
                 appWg, tsWg, appPc, appBlk, tsPc, ripe, unripe, processed,
                 tsFile, result>>

----------------------------------------------------------------------------
(* BlazeProcessAppearances: one goroutine per a.                           *)

\* The range loop ends when appearanceChannel is closed.
AppExit(a) ==
  /\ appPc[a] = "idle"
  /\ appClosed
  /\ appPc' = [appPc EXCEPT ![a] = "exit"]
  /\ appWg' = appWg - 1
  /\ UNCHANGED <<drv, nextBlock, blockClosed, appClosed, tsClosed, blockWg,
                 tsWg, fetchPc, fetchBlk, appBlk, tsPc, ripe, unripe,
                 processed, tsArray, tsFile, result>>

\* Mutation of IsUnripe: the ripe block itself goes to unripe/.
IsUnripeAtRipe(bn) == bn >= RipeBlock

\* The folder WriteAppearances writes block bn's file to.
IsUnripe(bn) == bn > RipeBlock

(* WriteAppearances: the sorted keys of a non-empty addressMap go to       *)
(* ripe/<bn>.txt, or to unripe/<bn>.txt above RipeBlock; an empty map      *)
(* writes nothing.                                                         *)
WriteAppearances(bn) ==
  IF bn \in EmptyBlocks
    THEN UNCHANGED <<ripe, unripe>>
  ELSE IF IsUnripe(bn)
    THEN unripe' = unripe \cup {bn} /\ UNCHANGED ripe
    ELSE ripe' = ripe \cup {bn} /\ UNCHANGED unripe

(* BlazeExtractFromTraces and BlazeExtractFromLogs fill addressMap; then   *)
(* WriteAppearances writes the sorted keys to ripe/ or unripe/ when the    *)
(* map is not empty, and the block counts as processed.                    *)
AppWrite(a) ==
  LET bn == appBlk[a] IN
  /\ appPc[a] = "extract"
  /\ WriteAppearances(bn)
  /\ processed' = processed \cup {bn}
  /\ appPc' = [appPc EXCEPT ![a] = "idle"]
  /\ appBlk' = [appBlk EXCEPT ![a] = NoBlock]
  /\ UNCHANGED <<drv, nextBlock, blockClosed, appClosed, tsClosed, blockWg,
                 appWg, tsWg, fetchPc, fetchBlk, tsPc, tsArray, tsFile, result>>

(* Mutation of AppFail: the block is marked processed before the write's   *)
(* error is looked at.                                                     *)
AppFailMarksProcessed(a) ==
  LET bn == appBlk[a] IN
  /\ appPc[a] = "extract"
  /\ Failed(appPc) < MaxFailures
  /\ UNCHANGED <<ripe, unripe>>
  /\ processed' = processed \cup {bn}
  /\ appPc' = [appPc EXCEPT ![a] = "failed"]
  /\ appWg' = appWg - 1
  /\ UNCHANGED <<drv, nextBlock, blockClosed, appClosed, tsClosed, blockWg,
                 tsWg, fetchPc, fetchBlk, appBlk, tsPc, tsArray, tsFile, result>>

(* The goroutine returns an error (dropped) and its deferred Done runs:    *)
(* either eth_getTransactionReceipt fails for a failed contract creation   *)
(* in BlazeExtractFromTraces, leaving no file, or ioutil.WriteFile fails   *)
(* on a non-empty map, leaving the file absent or truncated.               *)
AppFail(a) ==
  LET bn == appBlk[a] IN
  /\ appPc[a] = "extract"
  /\ Failed(appPc) < MaxFailures
  /\ \/ UNCHANGED <<ripe, unripe>>
     \/ /\ bn \notin EmptyBlocks
        /\ WriteAppearances(bn)
  /\ appPc' = [appPc EXCEPT ![a] = "failed"]
  /\ appWg' = appWg - 1
  /\ UNCHANGED <<drv, nextBlock, blockClosed, appClosed, tsClosed, blockWg,
                 tsWg, fetchPc, fetchBlk, appBlk, tsPc, processed, tsArray,
                 tsFile, result>>

(* BlazeProcessTimestamps: its receive and append are in FetchSendTs; the  *)
(* range loop ends when tsChannel is closed.                               *)
TsExit(t) ==
  /\ tsPc[t] = "idle"
  /\ tsClosed
  /\ tsPc' = [tsPc EXCEPT ![t] = "exit"]
  /\ tsWg' = tsWg - 1
  /\ UNCHANGED <<drv, nextBlock, blockClosed, appClosed, tsClosed, blockWg,
                 appWg, fetchPc, fetchBlk, appPc, appBlk, ripe, unripe,
                 processed, tsArray, tsFile, result>>

\* HandleScrapeBlaze has returned: the call is over.
Returned ==
  /\ drv = "done"
  /\ UNCHANGED vars

Next ==
  /\ UNCHANGED tsInit
  /\ \/ \E w \in Workers : DriverSend(w)
     \/ DriverCloseBlocks
     \/ DriverCloseAppearances
     \/ DriverCloseTimestamps
     \/ ScrapeBlazeMissing
     \/ ScrapeBlazeComplete
     \/ \E w \in Workers : FetchExit(w) \/ FetchRpc(w) \/ FetchFail(w)
     \/ \E w, a \in Workers : FetchSendApp(w, a)
     \/ \E w, t \in Workers : FetchSendTs(w, t)
     \/ \E a \in Workers : AppExit(a) \/ AppWrite(a) \/ AppFail(a)
     \/ \E t \in Workers : TsExit(t)
     \/ Returned

(* The Go scheduler runs every runnable goroutine eventually, so no step   *)
(* that stays enabled is postponed forever.                                *)
Spec == Init /\ [][Next]_hvars /\ WF_hvars(Next)

----------------------------------------------------------------------------
(* Properties.                                                             *)

TypeOK ==
  /\ drv \in {"send", "waitBlock", "waitApp", "waitTs", "done"}
  /\ nextBlock \in StartBlock .. Stop
  /\ {blockClosed, appClosed, tsClosed} \subseteq BOOLEAN
  /\ {blockWg, appWg, tsWg} \subseteq 0 .. Cardinality(Workers)
  /\ fetchPc \in [Workers -> {"idle", "rpc", "sendApp", "sendTs", "exit", "failed"}]
  /\ fetchBlk \in [Workers -> Batch \cup {NoBlock}]
  /\ appPc \in [Workers -> {"idle", "extract", "exit", "failed"}]
  /\ appBlk \in [Workers -> Batch \cup {NoBlock}]
  /\ tsPc \in [Workers -> {"idle", "exit"}]
  /\ ripe \subseteq Batch /\ unripe \subseteq Batch /\ processed \subseteq Batch
  /\ tsArray \in Seq(Batch)
  /\ tsFile \in Seq([bn : Nat, off : 0 .. 7, rpc : BOOLEAN])
  /\ result \in {"none", "ok", "err"}

(* When HandleScrapeBlaze returns an error nothing of the batch stays:     *)
(* ripe/ and unripe/ are empty and ts.bin is as it was.  This needs the    *)
(* driver's Wait on every stage before the clean-up: a write of an         *)
(* appearance goroutine still running would land after it.                 *)
FailureCommitsNothing ==
  result = "err" => ripe = {} /\ unripe = {} /\ tsFile = tsInit

(* Spec 8.7: ts.bin stays dense and aligned: byte p (from 1) is byte      *)
(* (p - 1) % 8 of the record of block (p - 1) \div 8, whether              *)
(* WriteTimestamps took it from TsArray or from the RPC, filling the gap   *)
(* below StartBlock, and whatever ts.bin held when the call began.         *)
TsDense ==
  \A p \in DOMAIN tsFile : tsFile[p].bn = (p - 1) \div 8 /\ tsFile[p].off = (p - 1) % 8

(* Spec 4.5 and scenario S6: a record WriteTimestamps appends asks the RPC *)
(* for its timestamp exactly when its block is not in TsArray, or when the *)
(* array holds a block below nTs: the cursor, never advanced past an       *)
(* element that does not match, then stays on it to the end.  A batch that *)
(* overlaps ts.bin (the unripe blocks of the last call scraped again) thus *)
(* fetches every timestamp a second time; one that does not never does.    *)
RpcOnlyForGaps ==
  LET stalled == \E x \in ToSet(tsArray) : x < Len(tsInit) \div 8
  IN \A p \in DOMAIN tsFile :
       p > Len(tsInit) => (tsFile[p].rpc <=> (tsFile[p].bn \notin ToSet(tsArray) \/ stalled))

(* Spec 4.4 and 8.1 (Totality): every block of a successfully completed    *)
(* batch has exactly one ripe-or-unripe file, an empty one when the block  *)
(* has no appearance.  WriteAppearances writes a file only when addressMap *)
(* is not empty.                                                           *)
EveryBlockHasFile ==
  result = "ok" => \A b \in Batch : (b \in ripe) # (b \in unripe)

(* Every call of HandleScrapeBlaze returns, however its goroutines         *)
(* interleave, as long as some goroutine of every stage survives.          *)
Termination == <>(result # "none")

----------------------------------------------------------------------------
(* Refinement: the folders are unobservable until the call returns (the    *)
(* caller reads them only then), so the pipeline is mapped to BatchAtomic  *)
(* with empty folders while result is "none".                              *)
Atomic == INSTANCE BatchAtomic WITH
            ripe <- IF result = "none" THEN {} ELSE ripe,
            unripe <- IF result = "none" THEN {} ELSE unripe,
            tsLen <- Len(tsFile),
            InitLens <- {Len(InitTsFile(n)) : n \in NTsChoices},
            StopLen <- 8 * Stop,
            TsBestEffort <- TsWriteFails

(* HandleScrapeBlaze implements the all-or-nothing batch: every behaviour  *)
(* of the goroutines, whatever fails, is a behaviour of BatchAtomic.       *)
AtomicBatch == Atomic!Spec

=============================================================================
