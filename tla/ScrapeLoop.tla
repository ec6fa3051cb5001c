----------------------------- MODULE ScrapeLoop -----------------------------
(***************************************************************************)
(* The forever loop of RunIndexScraper (scrape_indexer.go): while the      *)
(* scraper is running, hand one round to blockScrape (PassItOn), read the  *)
(* node's head and the index's staging block, and decide whether to sleep. *)
(* The running flag is toggled by ChangeState from another goroutine, so   *)
(* it may change between the loop's first test and its second.            *)
(*                                                                         *)
(* meta.Latest - meta.Staging is a uint64 subtraction; UintMod stands for  *)
(* 2^64 so that a staging block past the node's head wraps to a distance   *)
(* larger than any unripe distance, as it does in the code.               *)
(***************************************************************************)
EXTENDS Integers

CONSTANTS
  UnripeDist,   \* opts.UnripeDist
  SleepChoices, \* values the user may give --sleep
  MaxHead,      \* bound on the chain's head block
  UintMod,      \* 2^64, scaled down: the modulus of uint64 arithmetic
  NodeMayLag    \* the node may report a head older than the index's staging

ASSUME UnripeDist \in Nat /\ MaxHead \in Nat
ASSUME SleepChoices \subseteq Nat
ASSUME UintMod > MaxHead /\ UintMod > 2 * UnripeDist
ASSUME NodeMayLag \in BOOLEAN

VARIABLES
  pc,          \* "top" before PassItOn, "after" once it has run
  running,     \* s.Running
  configured,  \* the --sleep value the loop started with
  sleep,       \* opts.Sleep, which the loop itself may change
  head,        \* the chain's true head block
  staging,     \* the last block in the index's staging folder
  pausedFor,   \* seconds the last decision slept for (0: did not sleep)
  reported     \* meta.Latest of the last decision (NoAnswer: the node erred)

vars == <<pc, running, configured, sleep, head, staging, pausedFor, reported>>

NoAnswer == -1

Init ==
  /\ pc = "top"
  /\ running = TRUE                  \* s.ChangeState(true) before the loop
  /\ configured \in SleepChoices
  /\ sleep = configured
  /\ head \in 0 .. MaxHead
  /\ staging \in 0 .. head
  /\ pausedFor = 0
  /\ reported = NoAnswer

\* ChangeState, called by the API's pause and resume from another goroutine.
ChangeState(b) ==
  /\ running' = b
  /\ UNCHANGED <<pc, configured, sleep, head, staging, pausedFor, reported>>

\* !s.Running: s.Pause().
PauseWhenStopped ==
  /\ pc = "top"
  /\ ~running
  /\ pausedFor' = sleep
  /\ UNCHANGED <<pc, running, configured, sleep, head, staging, reported>>

\* Mutation of ScrapeOnce: blockScrape indexes one block past the head.
ScrapeOncePastHead ==
  /\ pc = "top"
  /\ running
  /\ head' \in head .. MaxHead
  /\ staging' \in staging .. head + 1
  /\ pc' = "after"
  /\ UNCHANGED <<running, configured, sleep, pausedFor, reported>>

\* s.Running: PassItOn("blockScrape", ...) scrapes some blocks while the
\* chain may grow.
ScrapeOnce ==
  /\ pc = "top"
  /\ running
  /\ head' \in head .. MaxHead
  /\ staging' \in staging .. head
  /\ pc' = "after"
  /\ UNCHANGED <<running, configured, sleep, pausedFor, reported>>

\* The node's answer to GetMetaData: its head, older when it lags.
NodeHeads == IF NodeMayLag THEN 0 .. head ELSE {head}

\* distanceFromHead as the code computes it: 13 when the node errs,
\* else the uint64 difference meta.Latest - meta.Staging.
Distance(latest, metaOk) ==
  IF metaOk THEN (latest + UintMod - staging) % UintMod ELSE 13

(* Mutation of DecideSleep: opts.Sleep is not raised to 13 near head.      *)
DecideSleepNoRaise ==
  /\ pc = "after"
  /\ pc' = "top"
  /\ \/ /\ ~running
        /\ UNCHANGED <<sleep, pausedFor, reported>>
     \/ /\ running
        /\ \E latest \in NodeHeads, metaOk \in BOOLEAN :
             LET closeEnough == Distance(latest, metaOk) <= 2 * UnripeDist
                 newSleep == sleep
                 isDefault == newSleep \in {13, 14}
             IN /\ sleep' = newSleep
                /\ reported' = IF metaOk THEN latest ELSE NoAnswer
                /\ pausedFor' = IF ~isDefault \/ closeEnough THEN newSleep ELSE 0
  /\ UNCHANGED <<running, configured, head, staging>>

(* The second test of s.Running and the sleep decision: when close enough  *)
(* to head and opts.Sleep < 13, opts.Sleep becomes 13; the loop sleeps     *)
(* when opts.Sleep is neither 13 nor 14, or when close enough.             *)
DecideSleep ==
  /\ pc = "after"
  /\ pc' = "top"
  /\ \/ /\ ~running
        /\ UNCHANGED <<sleep, pausedFor, reported>>
     \/ /\ running
        /\ \E latest \in NodeHeads, metaOk \in BOOLEAN :
             LET closeEnough == Distance(latest, metaOk) <= 2 * UnripeDist
                 newSleep == IF closeEnough /\ sleep < 13 THEN 13 ELSE sleep
                 isDefault == newSleep \in {13, 14}
             IN /\ sleep' = newSleep
                /\ reported' = IF metaOk THEN latest ELSE NoAnswer
                /\ pausedFor' = IF ~isDefault \/ closeEnough THEN newSleep ELSE 0
  /\ UNCHANGED <<running, configured, head, staging>>

Next ==
  \/ \E b \in BOOLEAN : ChangeState(b)
  \/ PauseWhenStopped
  \/ ScrapeOnce
  \/ DecideSleep

Spec == Init /\ [][Next]_vars

----------------------------------------------------------------------------
TypeOK ==
  /\ pc \in {"top", "after"}
  /\ running \in BOOLEAN
  /\ configured \in SleepChoices
  /\ sleep \in SleepChoices \cup {13}
  /\ head \in 0 .. MaxHead
  /\ staging \in 0 .. head
  /\ pausedFor \in SleepChoices \cup {0, 13}
  /\ reported \in (0 .. MaxHead) \cup {NoAnswer}

\* A step of DecideSleep while running, which read the node's head.
Decided == pc = "after" /\ pc' = "top" /\ running /\ reported' # NoAnswer

(* Near the head the loop is polite: whenever the node says the index is   *)
(* within 2 * UnripeDist of its head (staging at or past the head          *)
(* included), the loop sleeps at least 13 seconds, whatever --sleep was.   *)
NearHeadPolite ==
  [][Decided /\ reported' <= staging + 2 * UnripeDist => pausedFor' >= 13]_vars

(* Spec 4.8: away from head a --sleep other than the defaults 13 and 14 is  *)
(* honoured verbatim.  opts.Sleep is overwritten the first time the loop   *)
(* is close to head.                                                       *)
ConfiguredSleepHonored ==
  [][Decided /\ reported' > staging + 2 * UnripeDist /\ configured \notin {13, 14}
      => pausedFor' = configured]_vars

=============================================================================
