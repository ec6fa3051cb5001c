-------------------------- MODULE AddressExtractor --------------------------
(***************************************************************************)
(* The address extraction of blaze.go: BlazeExtractFromTraces,             *)
(* BlazeExtractFromLogs, isAddress and isImplicitAddress, as operators     *)
(* from one block's traces and logs to the set of keys AddToMaps puts in   *)
(* addressMap, checked against a reference written from the spec's rules   *)
(* (sections 3 and 4.3) over every block of a bounded domain.              *)
(*                                                                         *)
(* Data is abstracted to what the gates tell apart.  An address (a "0x"    *)
(* plus 40 hex chars string) is a record [lz, tz, id]: its number of       *)
(* leading zero hex chars, whether it ends in eight zero chars, and which  *)
(* address it is.  A 32-byte word (64 hex chars) of input, output, init,   *)
(* topics or data is a record [lead, tz, id]: leading zero chars, eight    *)
(* trailing zero chars, and, when lead >= 24, the address in its last 40   *)
(* chars.  For same-length lowercase hex strings the string comparisons   *)
(* of the code are comparisons of these counts:                            *)
(*   addr > "0x000000000000000000000000000000000000ffff"  iff  lz < 36     *)
(*   word <= "00..00" (38 zeros) ++ "ff..ff" (26)        iff  lead >= 38   *)
(***************************************************************************)
EXTENDS Integers, Sequences, SequencesExt

CONSTANTS
  Blocks        \* the blocks (records of traces and logs) to extract from

VARIABLE block  \* the block under extraction

\* The empty string: the "to" of a contract creation, a failed creation's
\* result address.  It is below every "0x..." string.
Empty == [lz |-> 0, tz |-> FALSE, id |-> ""]

\* 0xdeaddeaddeaddeaddeaddeaddeaddeaddeaddead, the burned-reward sentinel.
Dead == [lz |-> 0, tz |-> FALSE, id |-> "dead"]

\* The word a 20-byte address is zero-padded to, and the address in the
\* last 40 chars of a word: "0x" + addr[24:].
Pad(a) == [lead |-> a.lz + 24, tz |-> a.tz, id |-> a.id]
Last40(w) == [lz |-> w.lead - 24, tz |-> w.tz, id |-> w.id]

\* An appearance key: AddToMaps' "%s\t%09d\t%05d" of address, block, txid.
Key(a, tx) == [addr |-> a, tx |-> tx]

----------------------------------------------------------------------------
(* The code.                                                               *)

\* isAddress: addr > "0x000000000000000000000000000000000000ffff".
IsAddress(a) == a # Empty /\ a.lz < 36

\* validate.IsZeroAddress (pkg/validate): the address is all zeros.
IsZeroAddress(a) == a # Empty /\ a.lz = 40

(* Mutation of IsImplicitAddress: the trailing-zeros test is dropped.      *)
IsImplicitAddressNoSuffix(w) ==
  /\ w.lead < 38
  /\ w.lead >= 24
  /\ IsAddress(Last40(w))

(* isImplicitAddress: not <= small (38 leading zeros), 24 leading zeros,   *)
(* not ending in "00000000", and isAddress("0x" + addr[24:]).              *)
IsImplicitAddress(w) ==
  /\ w.lead < 38
  /\ w.lead >= 24
  /\ ~w.tz
  /\ IsAddress(Last40(w))

\* The 64-char windows of input[10:], output[2:], init[10:], data[2:] or a
\* topic[2:]: each window that passes is given to AddToMaps as it is.
Scan(ws, tx) == {Key(ws[i], tx) : i \in {j \in DOMAIN ws : IsImplicitAddress(ws[j])}}

\* Addresses of a trace's action or result, each kept when isAddress.
Direct(as, tx) == {Key(a, tx) : a \in {b \in as : IsAddress(b)}}

CallKeys(t) == Direct({t.from, t.to}, t.txid)

(* Mutation of RewardKeys: a burned uncle reward takes the block reward's  *)
(* tx id 99997.                                                            *)
RewardKeysUncleBurnTx(t) ==
  CASE t.rewardType = "block" ->
         IF IsZeroAddress(t.author) THEN {Key(Dead, 99997)} ELSE Direct({t.author}, 99999)
    [] t.rewardType = "uncle" ->
         IF IsZeroAddress(t.author) THEN {Key(Dead, 99997)} ELSE Direct({t.author}, 99998)
    [] t.rewardType = "external" -> Direct({t.author}, 99996)
    [] OTHER -> {}

\* "reward": by rewardType; a zero author is replaced by the sentinel.
\* An unknown reward type is logged and adds nothing.
RewardKeys(t) ==
  CASE t.rewardType = "block" ->
         IF IsZeroAddress(t.author) THEN {Key(Dead, 99997)} ELSE Direct({t.author}, 99999)
    [] t.rewardType = "uncle" ->
         IF IsZeroAddress(t.author) THEN {Key(Dead, 99998)} ELSE Direct({t.author}, 99998)
    [] t.rewardType = "external" -> Direct({t.author}, 99996)
    [] OTHER -> {}

SuicideKeys(t) == Direct({t.address, t.refund}, t.txid)

\* "create": creator and new contract; a top-level trace's init code; and
\* for a failed creation the receipt's contractAddress (eth_getTransactionReceipt).
CreateKeys(t) ==
  Direct({t.from, t.resAddr}, t.txid)
  \cup (IF t.topLevel THEN Scan(t.init, t.txid) ELSE {})
  \cup (IF t.to = Empty /\ t.resAddr = Empty /\ t.err
          THEN Direct({t.receipt}, t.txid) ELSE {})

\* One trace of BlazeExtractFromTraces: the dispatch on its type, then the
\* scan of its input and output whatever the type.
TraceKeys(t) ==
  (CASE t.type = "call" -> CallKeys(t)
     [] t.type = "reward" -> RewardKeys(t)
     [] t.type = "suicide" -> SuicideKeys(t)
     [] t.type = "create" -> CreateKeys(t)
     [] OTHER -> {})
  \cup Scan(t.input, t.txid) \cup Scan(t.output, t.txid)

\* One log of BlazeExtractFromLogs: every topic and the data.
LogKeys(l) == Scan(l.topics, l.txid) \cup Scan(l.data, l.txid)

\* addressMap after both extractions of a block.
ExtractKeys(b) ==
  UNION {TraceKeys(b.traces[i]) : i \in DOMAIN b.traces}
  \cup UNION {LogKeys(b.logs[i]) : i \in DOMAIN b.logs}

----------------------------------------------------------------------------
(* The reference: the spec's rules (sections 3 and 4.3), written as        *)
(* tables rather than as the code's dispatch.                              *)

\* A real address: not empty, not zero, not <= 0x00..00ffff.
SpecReal(a) == a # Empty /\ a.lz < 36

\* The implicit-address gates of section 3: 24 leading zero chars; not a
\* number held in the low 8 bytes (48 leading zeros); no 8 trailing zeros;
\* the address in the last 40 chars is no precompile.
SpecImplicit(w) == w.lead \in 24 .. 47 /\ ~w.tz /\ SpecReal(Last40(w))

\* The tx id of each reward type, and of each burned one.
SpecRewardTx == [block |-> 99999, uncle |-> 99998, external |-> 99996]
SpecBurnTx == [block |-> 99997, uncle |-> 99998]

\* The <<address, txid>> pairs a trace names outside its scanned data.
SpecNamed(t) ==
  CASE t.type = "call" -> {<<t.from, t.txid>>, <<t.to, t.txid>>}
    [] t.type = "suicide" -> {<<t.address, t.txid>>, <<t.refund, t.txid>>}
    [] t.type = "create" ->
         {<<t.from, t.txid>>, <<t.resAddr, t.txid>>}
         \cup (IF t.to = Empty /\ t.resAddr = Empty /\ t.err THEN {<<t.receipt, t.txid>>} ELSE {})
    [] t.type = "reward" /\ t.rewardType \in DOMAIN SpecBurnTx /\ t.author.lz = 40 ->
         {<<Dead, SpecBurnTx[t.rewardType]>>}
    [] t.type = "reward" /\ t.rewardType \in DOMAIN SpecRewardTx ->
         {<<t.author, SpecRewardTx[t.rewardType]>>}
    [] OTHER -> {}

\* The scanned data of a trace or log, as <<words, txid>> pairs.
SpecScanned(t) ==
  {<<t.input, t.txid>>, <<t.output, t.txid>>}
  \cup (IF t.type = "create" /\ t.topLevel THEN {<<t.init, t.txid>>} ELSE {})
SpecLogScanned(l) == {<<l.data, l.txid>>} \cup {<<<<l.topics[j]>>, l.txid>> : j \in DOMAIN l.topics}

SpecDirectKeys(b) ==
  {Key(p[1], p[2]) : p \in {q \in UNION {SpecNamed(t) : t \in ToSet(b.traces)} : SpecReal(q[1])}}

SpecImplicitKeys(b) ==
  LET data == UNION {SpecScanned(t) : t \in ToSet(b.traces)}
              \cup UNION {SpecLogScanned(l) : l \in ToSet(b.logs)}
  IN UNION {{Key(Last40(w), d[2]) : w \in {v \in ToSet(d[1]) : SpecImplicit(v)}} : d \in data}

----------------------------------------------------------------------------
Init == block \in Blocks

\* Extraction is a function of the block: nothing changes after it.
Next == UNCHANGED block

Spec == Init /\ [][Next]_block

\* A key whose address is a 64-char word rather than a 20-byte address.
IsWordKey(k) == "lead" \in DOMAIN k.addr

(* Every appearance of an address named by a trace itself (call, suicide,  *)
(* create, receipt, rewards and their burn sentinels) is exactly the set   *)
(* the spec's table gives: the right tx ids, the zero and precompile       *)
(* addresses dropped, the receipt fetched only for a failed creation.     *)
DirectMatchesSpec ==
  {k \in ExtractKeys(block) : ~IsWordKey(k)} = SpecDirectKeys(block)

(* No word is taken for an implicit address unless it passes every gate of *)
(* the spec's heuristic.                                                   *)
ImplicitGateWithinSpec ==
  \A k \in ExtractKeys(block) : IsWordKey(k) => SpecImplicit(k.addr)

(* Spec 8.5 and scenario S2: a word that passes the gates yields the       *)
(* address in its last 40 chars, as "0x" + 40 hex chars, at its tx id.     *)
ImplicitRoundTrip == SpecImplicitKeys(block) \subseteq ExtractKeys(block)

=============================================================================
