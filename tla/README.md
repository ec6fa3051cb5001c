# TLA+ models of the TrueBlocks indexer (chifra scrape)

This directory holds TLA+ models of the Go sources under `src/src/apps/chifra`
and the TLC configurations that check them. The paths below are relative to
that directory.

## 1. Inventory

### Components and their state

| Component | Source | State | Operations |
|---|---|---|---|
| Blaze pipeline | `internal/scrape/blaze.go` | 3 unbuffered channels; 3 `sync.WaitGroup`s; `NChannels` goroutines per stage; `TsArray` (under `blazeMutex`); `AppearanceMap` (under `mapSync`); `NProcessed` (unsynchronised); `ripe/` and `unripe/` files | `HandleBlaze` (driver), `BlazeProcessBlocks`, `BlazeProcessAppearances`, `BlazeProcessTimestamps`, `WriteAppearances` |
| Address extractor | `blaze.go` 183-436 | none (pure, plus one `eth_getTransactionReceipt` call) | `BlazeExtractFromTraces`, `BlazeExtractFromLogs`, `AddToMaps`, `isAddress`, `isImplicitAddress` |
| Batch check and timestamp writer | `internal/scrape/handle_scrape_blaze.go` | `ProcessedMap`, `ts.bin` (appended records) | `HandleScrapeBlaze`, `WriteTimestamps` |
| Scrape loop (progression controller) | `internal/scrape/scrape_indexer.go` | `s.Running` (toggled from the API), `opts.Sleep`, the node's head and the index's staging block | `RunIndexScraper` forever loop |
| Monitors CRUD and list | `internal/monitors/handle_crud.go`, `internal/monitors/handle_list.go` | monitor files: present / deleted / removed, cache files | `HandleCrudCommands` (delete, undelete, remove, decache), `HandleList` |
| Names clean | `internal/names/handle_clean.go` | the names database (custom and regular) | `HandleClean`, `cleanName`, `cleanCommon`, `cleanContract`, `cleanToken`, `cleanNonContract` |
| Read-only and glue code | `pkg/types/types_monitor.go`, `internal/chunks/*`, `internal/init/*`, `cmd/*` | none of their own | record types, statistics, flag parsing, hand-off to other tools |

The spec also names the chunk builder, the bloom filter and the
staging/finalized progression. Their code is not in this snapshot: the loop
reaches them through `PassItOn("blockScrape")`.

### How the parts interact

`RunIndexScraper` loops forever. Each round it hands control to the scraper
(`PassItOn`), which calls `HandleScrapeBlaze`. That in turn calls
`HandleBlaze`. The driver feeds block numbers into `blockChannel`. Fetch
goroutines call `trace_block` and `eth_getLogs`, then send the block's data
down `appearanceChannel` and its timestamp down `tsChannel`. Appearance
goroutines extract the addresses and write `ripe/<bn>.txt` or
`unripe/<bn>.txt`. Timestamp goroutines append to `TsArray`. All three
channels are unbuffered, so every send waits for a receiver.

When all three stages are joined, `HandleScrapeBlaze` checks `ProcessedMap`.
If a block is missing, it cleans the temporary folders and returns an error.
Otherwise it appends the batch's timestamps to `ts.bin`. The loop then reads
`meta.Latest` and `meta.Staging` from the node and decides whether to sleep.
The API can pause and resume the loop at any time through
`scraper.ChangeState`.

### What is hard

- **Errors inside goroutines are dropped.** `HandleBlaze` always returns
  `true, nil`. A failing goroutine simply stops receiving from its channel.
  Only the `ProcessedMap` count can notice a lost block. If a whole stage
  fails, the driver blocks forever.
- **Interleavings.** The order of the driver's close/Wait steps decides
  whether a late write can land after the clean-up. The appearance
  goroutines race on `NProcessed`.
- **Partial failures.** These include a truncated ripe file, a `ts.bin`
  write that fails part-way, and `HandleClean` saving custom names one at a
  time.
- **Numeric edges.** `meta.Latest - meta.Staging` is a uint64 subtraction.
  The `WriteTimestamps` cursor is set back when an element does not match,
  so an element below `nTs` stalls it for the rest of the batch.
- **State that goes stale.** The loop overwrites `opts.Sleep` itself.
  `NTimestamps` may answer from a cache.

### What makes each component correct

- **Pipeline and batch check:**
  - Every call returns.
  - A nil return means every block of the range was written, each to the
    folder its distance from head calls for.
  - An error return leaves nothing of the batch behind.
  - `ts.bin` stays dense and aligned: byte *p* is byte *p* mod 8 of the
    record of block *p* div 8, and the RPC is asked only for blocks the
    pipeline did not collect.
  - Seen from the caller, a call commits the whole batch or nothing
    (`BatchAtomic`).
- **Scrape loop:**
  - It sleeps at least 13 s whenever the index is close to the head.
  - It honours a non-default `--sleep`.
- **Extractor:** the gates of spec section 3, with an address emitted in
  canonical form.
- **Monitors CRUD:** the transition table in the comment of
  `HandleCrudCommands`, applied to all addresses or to none.
- **Names clean:** a saved name is always a complete clean of the name
  loaded, and a clean that returns nil has saved every change it made.

## 2. Plan

Modules, in order of importance. Those marked done exist now.

1. **`BlazePipeline`** (done). It covers one call of `HandleScrapeBlaze` and
   the pipeline under it: the driver, all three goroutine stages and every
   error exit, the `ProcessedMap` check and `WriteTimestamps`.
2. **`ScrapeLoop`** (done). It covers the `RunIndexScraper` loop with
   pause/resume from another goroutine, node failures and uint64 distance.
3. **`ts.bin` bytes** (done, inside `BlazePipeline`). `ts.bin` is a sequence
   of bytes; a write may stop at any byte, and a call may start from a file
   that ends in a torn record. `BatchAtomic` (done) is the abstract
   specification of one call, refined by `BlazePipeline`.
4. **`AddressExtractor`** (done). This covers `isAddress`, `isImplicitAddress`
   and the trace/log dispatch as pure operators over abstract addresses and
   32-byte words. It is checked against a reference written from spec
   sections 3 and 4.3, and it shows the 64-char key of an implicit address.
5. **`MonitorCrud`** (done). This covers `HandleCrudCommands` over two
   monitors, each absent, live or deleted, and sequences of commands. It
   checks that a command applies to every address or to none, and that it
   follows the transition table. It reaches the nil-error panic after
   `Remove`. `HandleList` runs between the commands on the same monitors.
6. **`NamesClean`** (done). This covers the clean operators over abstract
   name records and `HandleClean`'s save loop, with failing chain queries,
   loads and saves.
7. **`IndexProgression`** (not feasible from this snapshot). This would compose `ScrapeLoop` with an abstract
   `BlazePipeline` round. The abstract specification states that each
   successful round extends the index by a contiguous range and that a
   failed round changes nothing. `BlazePipeline`'s outcome is shown to
   refine it through `INSTANCE ... WITH`, with `ripe`, `processed` and
   `tsFile` mapped to the abstract index. The loop reaches the scraper
   through `PassItOn("blockScrape")`, another program, and the code that
   moves ripe files into staging and finalized chunks is not here, so the
   link between a round and `staging` would be invented, not translated.
   `ScrapeLoop` keeps the round abstract (`staging` grows up to `head`).

## 3. Modules

### `BlazePipeline.tla` and `MCBlazePipeline.tla`

| Definition | Code |
|---|---|
| `Init` | `HandleBlaze` creating the channels, `Add`ing the WaitGroups and starting the goroutines |
| `DriverSend(w)` | `blockChannel <- block`, a rendezvous with an idle fetch goroutine `w` |
| `DriverCloseBlocks`, `DriverCloseAppearances`, `DriverCloseTimestamps` | the close/Wait sequence |
| `FetchRpc`, `FetchFail` | `trace_block`/`eth_getLogs` answering or failing; on failure the goroutine returns and its deferred `Done` runs |
| `FetchSendApp(w, a)`, `FetchSendTs(w, t)` | the two sends of a fetch goroutine; the timestamp goroutine's append under `blazeMutex` is in the same step, since nobody reads `TsArray` before `TsWg.Wait` |
| `AppWrite(a)` | extraction plus `WriteAppearances` (`WriteAppearances(bn)`, `IsUnripe`); the block counts as processed |
| `AppFail(a)` | a failing receipt RPC or `WriteFile`, which may leave a truncated file |
| `FetchExit`, `AppExit`, `TsExit` | a `range` loop ending on a closed channel |
| `ScrapeBlazeMissing` | `HandleScrapeBlaze`'s count and `CleanTemporaryFolders` |
| `ScrapeBlazeComplete` | `WriteTimestamps`: `SortedTs`, then the cursor loop `TsRecords`, each record written as its 8 bytes (`Bytes`, `RecordBytes`); `nTs` is the file's size over 8; with `TsWriteFails` it stops after any number of bytes and the error is dropped |
| `InitTsFile(n)` | `ts.bin` before the call: `n` records (`n` in `NTsChoices`), then `InitTorn` bytes of a torn one; the history variable `tsInit` keeps it for the properties |

`ts.bin` is a sequence of bytes `[bn, off, rpc]`: byte `off` of the record
of block `bn`, and whether its timestamp came from the RPC.

`BatchAtomic.tla` states what one call promises with the goroutines hidden:
one `Commit` step (every block with appearances in `ripe/` or `unripe/`,
`ts.bin` grown to 8 bytes per block up to the batch's end, or less when
writes may fail, since the error is dropped) or one `Abort` step (nothing
left). `BlazePipeline` instantiates it as `Atomic` with folders mapped to
empty while `result` is `"none"` (the caller reads them only after the
call) and `tsLen` mapped to `Len(tsFile)`; `Commit` grows `ts.bin` from
whatever length it had, one of the `InitLens`. `AtomicBatch == Atomic!Spec` is
checked as a property.

`ProcessedMap` is read by `HandleScrapeBlaze`, but the line that sets it is
not in this snapshot. The model sets it when `WriteAppearances` returns
without error, the only point at which a block's processing completes.

The data of a block is abstracted to one fact: whether its address map is
empty (`EmptyBlocks`). The pipeline's control depends on nothing else.

### `ScrapeLoop.tla` and `MCScrapeLoop.tla`

| Definition | Code |
|---|---|
| `PauseWhenStopped` | `if !s.Running { s.Pause() }` |
| `ScrapeOnce` | `PassItOn("blockScrape")`, abstracted to the staging block advancing to at most the head while the chain may grow |
| `DecideSleep` | the second `s.Running` test, `GetMetaData` (`NodeHeads`, which may fail), `Distance` (uint64 modulo `UintMod`), the raise to 13 and the default test |
| `ChangeState(b)` | the API's pause/resume. `pkg/scraper` is not in this snapshot, so this is modelled from the spec |

`pausedFor` records how long the last decision slept. `s.Pause` is taken to
sleep `opts.Sleep` seconds, as spec section 4.8 describes.

### `AddressExtractor.tla` and `MCAddressExtractor.tla`

Extraction is a pure function of a block, so the module is a set of
operators. Its only variable, `block`, is chosen by `Init` from a bounded
domain and never changes. A 20-byte address is a record `[lz, tz, id]`:
the number of leading zero hex chars, whether it ends in eight zero chars,
and which address it is. A 32-byte word is a record `[lead, tz, id]`. For
lowercase hex strings of equal length, the code's string comparisons are
comparisons of these counts. `addr > "0x00..00ffff"` is `lz < 36`, and
`word <= small` is `lead >= 38`. The module has no type invariant, because
its one variable is the input.

| Definition | Code |
|---|---|
| `IsAddress`, `IsImplicitAddress`, `Last40` | `isAddress`; `isImplicitAddress` with its four gates in the code's order |
| `Scan(ws, tx)` | a 64-char window loop over `input[10:]`, `output[2:]`, `init[10:]`, a topic or `data[2:]`; each window that passes is added as it is |
| `Direct`, `CallKeys`, `RewardKeys`, `SuicideKeys`, `CreateKeys` | the branches of the type dispatch, the receipt fetch of a failed creation included (its answer is a field of the trace) |
| `TraceKeys`, `LogKeys`, `ExtractKeys` | `BlazeExtractFromTraces`, `BlazeExtractFromLogs`, and both applied to one block's address map |

The reference (`SpecNamed`, `SpecScanned`, `SpecImplicit`, `SpecDirectKeys`,
`SpecImplicitKeys`) is written from the spec as tables of tx ids and
<<address, txid>> pairs rather than as the code's `if` chain. The domain in
`MCAddressExtractor` holds five addresses: an ordinary one, one ending in
eight zeros, a vanity address with 14 leading zeros, a precompile and zero.
It holds each padded to a word, plus a word with no leading zeros and a
7-byte number. Every trace type, reward type, creation flag and receipt is
combined with them. One trace or one log per block is enough, because
extraction is a union over traces and logs.

### `MonitorCrud.tla` and `MCMonitorCrud.tla`

`mon[a]` is the monitor of address `a`: `"absent"` (no file), `"live"` or
`"deleted"` (marked). `cache[a]` counts its cached items. `before` holds
`mon` as the running command found it. `pkg/monitor` is not in this
snapshot. Its `Delete` and `Remove` (`Deleted`, `Removed`) are modelled
from how the handler uses them. `Remove`'s `(wasRemoved, err)` answer is a
choice over `RemoveOutcomes`.

| Definition | Code |
|---|---|
| `Start` | a call with one of the flag sets in `Commands` and a list of one or two addresses, repeats allowed |
| `CheckMissing` | `!file.FileExists(m.Path())`: a usage error |
| `DecacheTestMode`, `DecacheFail`, `DecacheOne` | the `--decache` branch: the early return in test mode; `m.Decache` failing after removing some items; or the whole cache visited, any of its items surviving a failed `os.Remove`, then `Delete`, then `Remove` (its nil-error log line included) |
| `Rejected`, `CheckReject`, `CheckPass` | the undelete/delete/remove tests of the first loop, in the code's order |
| `EndCheck`, `ApplyOne`, `EndApply` | the return after the first loop for `--decache`; the second loop's `UnDelete`, `Delete` and `Remove` |
| `HandleList` (`Listed`, `NotMonitored`) | `chifra monitors --list` (`handle_list.go`): one error per requested address without a monitor, then the monitors of `GetMonitorMap` filtered by `len(addrMap) == 0 \|\| addrMap[mon.Address]`; it changes no monitor |

`HandleList` runs between the CRUD commands on the same monitors, so the
list sees what `--delete`, `--remove` and `--decache` left. `GetMonitorMap`
is not in this snapshot; the model takes its array to be the monitors
whose file exists, deleted ones included, the deleted mark being kept
inside the file (`IsDeleted` is a method of the loaded monitor).

`Done` stutters once `MaxCmds` commands have run. This keeps deadlock
checking on for the rest.

### `NamesClean.tla` and `MCNamesClean.tla`

A name is a record of its fields (`tags`, `source`, `petname` present,
`name`, `symbol`, `decimals`, and the flags). `IsCustom` is the address
being in `CustomAddrs`. Strings are members of small sets. `ToLower`,
`Contains`, `ReplaceAll`, `Trim` and `Count` are modelled by the sets they
select (`LowerEtherscan`, `ReservedTags` for `Tags > "79999"`,
`ContractTags`, `AirdropNames`, `KickbackNames`, ...) or the member they
map to (`Trim`, `SingleSpaced`). `pkg/names` (loading, saving) and the
chain queries are not in this snapshot. A query answers from `chain[a]` or
fails (`Fails`), and a save succeeds or fails as a whole (`IoOutcomes`).

| Definition | Code |
|---|---|
| `cleanCommon`, `cleanToken`, `cleanContract` (`notToken`, `contractTail`), `cleanNonContract`, `cleanName` | the functions of the same name; each returns the cleaned name and its `modified` flag. `cleanName` returns the `IsContractAt` error and `GetState`'s `ErrNodeConnection` |
| `Cleaned(a, fail)` | `cleanName` on the loaded name, then the prefund flag sync |
| `LoadFail`, `Start` | `LoadNamesMap`/`preparePrefunds` failing, or the loop starting over the custom names (and the regular ones with `--regular`) in any map order |
| `CleanFail`, `CleanSkip`, `CleanSaveCustom`, `CleanQueueRegular` | one iteration of the loop: the error return, the `continue`s (not modified, `--dryrun`), `UpdateCustomName` and its error return, the append to `regularNamesUpdated` |
| `EndLoop` | `UpdateRegularNames` when something was queued, and the return |

## 4. Runs

| Run | Expect | Shows |
|---|---|---|
| `blaze` (`BlazePipeline.cfg`) | pass | Six properties hold over every interleaving of 2+2+2 goroutines on 4 blocks (the last unripe and empty), with `ts.bin` empty or already holding blocks 0-1, at most one failing goroutine per stage and `ts.bin` writes that may stop at any byte (51320 states). `Termination`: the call always returns. `FailureCommitsNothing`: an error return leaves `ripe/`, `unripe/` and `ts.bin` as they were. `TsDense`: `ts.bin` stays dense and aligned. `RpcOnlyForGaps`: an appended record came from the RPC exactly when its block is not in `TsArray` or the array holds a block below `nTs`. `AtomicBatch`: the call refines `BatchAtomic`, so a nil return has written every non-empty block, each to the right folder, and a block lost by a failing goroutine is never committed. `TypeOK`. |
| `blaze_all_workers_fail` | violation of `Termination` | Two failing fetch or appearance goroutines out of two hang `HandleBlaze`. |
| `blaze_empty_block` | violation of `EveryBlockHasFile` | The block without appearances has no file (spec 4.4 says it gets an empty one). |
| `blaze_ts_torn` | violation of `TsDense` | `ts.bin` ends in 4 bytes of a record that an earlier write left torn (its error was dropped at `handle_scrape_blaze.go:45`, or the process died). `nTs` rounds down and the next records are appended after the stray bytes, misaligned for good (spec 8.7). |
| `extractor` (`AddressExtractor.cfg`) | pass | Over 2485 blocks, `DirectMatchesSpec` holds: the addresses a trace names are exactly those the spec's table gives, with the right reward and burn tx ids and with zero and precompile addresses dropped. `ImplicitGateWithinSpec` holds: no word the spec's gates reject is taken as an implicit address. |
| `extractor_roundtrip` | violation of `ImplicitRoundTrip` | Scenario S2 fails. A padded address in log data is indexed under the whole 64-char word, not under `0x` + 40 chars. |
| `monitor_crud` (`MonitorCrud.cfg`) | pass | Over three commands on two monitors (52820 states, symmetry on addresses): `AllOrNothing`, a usage error from `--delete`, `--undelete` or `--remove` leaves every monitor as it was; `TableRespected`, a success never started from an Error cell of the transition table in the handler's comment (`ErrorCell`, written from the comment, not from the code's tests) for any address of the list, repeats included, and moves each address as the table says. |
| `monitor_crud_panic` | violation of `NoPanic` | If `Remove` answers `(false, nil)`, `err.Error()` panics. Under `--decache` this happens after the monitor was deleted and its cache emptied. |
| `scrape_loop` (`ScrapeLoop.cfg`) | pass | `NearHeadPolite` holds for every `--sleep` in {0, 5, 14, 20}, node errors and pause/resume interleavings, with a node that reports the true head: within two unripe distances of head, each decision sleeps at least 13 s. |
| `scrape_loop_node_lag` | violation of `NearHeadPolite` | A node reporting a head below staging makes the uint64 distance wrap; near the head `opts.Sleep` is not raised to 13, so the loop pauses only for the user's `--sleep` (0 s in the trace), or not at all with the default 14. |
| `names_clean` (`NamesClean.cfg`) | pass | Over two invocations on a custom and a regular name (2053224 states), in either map order, with failing chain queries, loads and saves: `SavedOnlyClean`, the database never holds a half-cleaned name; `CleanSavesEveryChange`, a nil return without `--dryrun` has saved the clean of every loaded name; `CleanSettlesInTwo`, from any stored name two cleans reach a name that a third clean reports unmodified, except an ERC20 whose name contains "airdrop"; the domain has a plain ERC20 whose on-chain name needs trimming and an ERC721 as well, so the token rules are checked too. `cleanToken` (`handle_clean.go:222-228`) sets that token's ERC20 tags and reports a modification on every clean, whether or not the tags are already set, so that name is saved again by every run. Without the exemption the property fails in the initial states. |
| `scrape_loop_sleep` | violation of `ConfiguredSleepHonored` | `--sleep 5` becomes 13 near head and then counts as the default: far from head the loop does not sleep. |

Each property of a passing run has a mutant in `PROJECT.json`. The mutant is
a plausible bug in the mapped code, and TLC finds the property violated when
the mutant is swapped in. The mutants are:

- the send loop running one block past the end;
- `tsChannel` closed without waiting for `AppearanceWg`;
- the cursor's `Bn` check dropped;
- a failing goroutine that skips its `Done`;
- the sleep raise missing;
- the scraper indexing past the head;
- a burned uncle reward given tx id 99997;
- the trailing-zeros gate dropped;
- the two CRUD loops merged;
- `--remove` of a live monitor let through;
- the cursor's set-back (`cnt--`) missing;
- the ripe block itself sent to `unripe/`;
- a failed block marked processed (a second mutant of `AtomicBatch`);
- `GetState`'s node connection error taken for "not a token";
- `cleanToken`'s modifications not reported by `cleanContract`;
- `cleanNonContract`'s self-destructed retag without its "not yet tagged" test.

### What the runs show beyond the findings

`RpcOnlyForGaps` first stated that an appended timestamp comes from the
RPC exactly when its block is missing from `TsArray`. With `ts.bin`
reaching into the batch, TLC refuted that: `WriteTimestamps` sets its
cursor back on every mismatch (`handle_scrape_blaze.go:90-98`), so an
array element below `nTs` is never passed and every timestamp of the
batch is fetched again from the RPC. Spec 4.5 prescribes exactly this
("gap or out-of-range element ... do not advance the array cursor"), so it
is not a divergence. The cost is one RPC per block whenever a call starts
at or below the end of `ts.bin`, as when the unripe blocks of the last
call are scraped again. The property now states that rule.

### Bounds

- **Two goroutines per stage.** This is the smallest number at which one
  goroutine can fail while another keeps the stage alive, and at which two
  goroutines compete for each rendezvous.
- **Four blocks.** Enough for ripe blocks, an unripe block, an empty block
  and more blocks than goroutines, so a goroutine serves two blocks.
- **`NTsChoices = {0, 2}` with `StartBlock = 1`.** An empty `ts.bin` makes
  `WriteTimestamps` fill a gap (block 0) through the RPC before it uses the
  array. Two records make the batch overlap `ts.bin`, the stalled-cursor
  case.
- **`MonitorCrud` sizes.** Two addresses and three commands give the
  repeated-address lists, and give a usage error on the second address
  after the first passed, and a `--list` after two changes. The initial states include every mix of
  absent, live and deleted monitors.
- **`ts.bin`.** The pass run lets a write stop at any of the 16 bytes of
  the two missing records. The violation run starts from a torn record of
  4 bytes.
- **`NamesClean` sizes.** One custom and one regular name, so that a
  failure between them leaves one saved and one not, in both orders. Each
  is one of 12 names: empty or Humanity DAO tags, an etherscan or an
  on-chain source, and any mix of the contract and ERC20 flags. Each
  address is an account, a contract, an ERC20 named "Foo airdrop" on chain,
  an ERC20 named " Foo " on chain, or an ERC721. Two invocations let
  the second clean what the first saved.
- **`ScrapeLoop` sizes.** `UnripeDist = 1` and a head of up to 6 give
  states both near and far from head. `UintMod = 16` keeps every wrapped
  difference above `2 * UnripeDist`, as 2^64 does.

### Fairness

`BlazePipeline` assumes weak fairness of its next-state relation. The Go
scheduler eventually runs every runnable goroutine, and every step of the
model is a goroutine step. `Termination` therefore fails only when no step is
enabled, which is a real hang. `BatchAtomic` carries weak fairness of its own next-state
relation, so `AtomicBatch` also says that the call ends. `ScrapeLoop`,
`MonitorCrud` and `NamesClean` check only safety and assume no fairness.
`HandleCrudCommands` is two `range` loops over a finite slice with no
blocking step, so its termination holds by its shape and is not checked.

## 5. Not modelled, and why

- **Chunk builder, bloom filter, finalized chunks.** Their code is not in
  this snapshot.
- **`AppearanceMap`.** It is appended to under `mapSync` but never read in
  this snapshot.
- **`NProcessed`.** Its race only affects the progress line.
- **`SimpleMonitor`, chunk statistics, `init`, the `cmd/` glue and the
  tests.** They keep no state of their own (see `PROJECT.json`
  components). `GetChunkStats` computes `NBlocks` as `Last - First + 1` in
  uint64 from a chunk that `index.NewChunk` may not have read (a missing
  file is not an error). That package is not in this snapshot, so what
  the range holds then is unknown and is not modelled.
- **Idempotence of `names --clean`.** `cleanToken` tests the stored name
  for "airdrop" before it writes the token's on-chain name. A token whose
  on-chain name contains "airdrop" is therefore retagged
  `50-Tokens:ERC20` only by the next clean. Evaluating the model's
  `cleanName` twice on the names of `MCNamesClean` shows this, but no run
  checks it, because no comment, test or spec promises idempotence.
- **The C++ reference in `handle_clean.go`'s comments.** It matches tags
  case-insensitively (`containsI`) and says names with reserved tags are
  returned unmodified. The Go code matches case-sensitively, and it still
  cleans the contract fields of a name with a reserved tag. These are
  noted here but are not checked by a run.
- **`--decache` atomicity.** `--decache` changes monitors inside its checking
  loop, so an error for a later address leaves earlier ones decached. No
  text claims otherwise, so `AllOrNothing` is stated for the other commands
  only.
- **Items `--decache` leaves behind.** `processorFunc` drops `os.Remove`'s
  error (`handle_crud.go:54`), so the monitor is deleted and removed even
  when some of its cached items survive. `DecacheOne` lets any of them
  survive. No comment or spec says they must not, so no property states it.
- **`NTimestamps`' cache.** It lives in `pkg/tslib`, outside this snapshot.
  The model reads the file's true size.
- **A malformed `transactionIndex`** (parsed to 0 at `blaze.go:341`). The
  word abstraction has no malformed strings.
