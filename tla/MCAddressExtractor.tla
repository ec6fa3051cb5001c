------------------------- MODULE MCAddressExtractor -------------------------
(***************************************************************************)
(* A bounded domain of blocks for AddressExtractor: one trace or one log   *)
(* per block (extraction is a union over traces and logs, so blocks of     *)
(* several add no case), built from addresses and words that sit on each   *)
(* side of every gate.                                                     *)
(***************************************************************************)
EXTENDS AddressExtractor

\* Addresses: ordinary, ending in eight zeros, a vanity address with 14
\* leading zero chars, a precompile, the zero address.
MCReal == [lz |-> 0, tz |-> FALSE, id |-> "a"]
MCRealTz == [lz |-> 0, tz |-> TRUE, id |-> "b"]
MCVanity == [lz |-> 14, tz |-> FALSE, id |-> "v"]
MCPrecompile == [lz |-> 36, tz |-> FALSE, id |-> "p"]
MCZero == [lz |-> 40, tz |-> TRUE, id |-> "z"]
MCAddrs == {MCReal, MCRealTz, MCVanity, MCPrecompile, MCZero}

\* Words: each address padded, a word with no leading zeros, and a number
\* in the low 7 bytes (50 leading zeros).
MCWords == {Pad(a) : a \in MCAddrs}
           \cup {[lead |-> 0, tz |-> FALSE, id |-> "n"], [lead |-> 50, tz |-> FALSE, id |-> "s"]}

\* input[10:], output[2:], init[10:] or data[2:]: no window, or one.
MCData == {<<>>} \cup {<<w>> : w \in MCWords}

Trace(ty, rt, from, to, author, address, refund, res, init, in, out, top, err, rcpt) ==
  [type |-> ty, rewardType |-> rt, from |-> from, to |-> to, author |-> author,
   address |-> address, refund |-> refund, resAddr |-> res, init |-> init,
   input |-> in, output |-> out, topLevel |-> top, err |-> err, receipt |-> rcpt,
   txid |-> 3]

MCTraces ==
  {Trace("call", "", f, t, Empty, Empty, Empty, Empty, <<>>, i, o, TRUE, FALSE, Empty) :
     f \in MCAddrs, t \in MCAddrs, i \in MCData, o \in MCData}
  \cup {Trace("reward", rt, Empty, Empty, a, Empty, Empty, Empty, <<>>, <<>>, <<>>, TRUE, FALSE, Empty) :
          rt \in {"block", "uncle", "external", "other"}, a \in MCAddrs}
  \cup {Trace("suicide", "", Empty, Empty, Empty, a, r, Empty, <<>>, <<>>, <<>>, TRUE, FALSE, Empty) :
          a \in MCAddrs, r \in MCAddrs}
  \cup {Trace("create", "", MCReal, t, Empty, Empty, Empty, res, init, <<>>, <<>>, top, err, rcpt) :
          t \in {Empty, MCReal}, res \in MCAddrs \cup {Empty}, init \in MCData,
          top \in BOOLEAN, err \in BOOLEAN, rcpt \in {MCReal, MCZero}}
  \cup {Trace("unknown", "", Empty, Empty, Empty, Empty, Empty, Empty, <<>>, i, <<>>, TRUE, FALSE, Empty) :
          i \in MCData}

MCLogs == {[topics |-> tp, data |-> d, txid |-> 3] : tp \in MCData, d \in MCData}

MCBlocks == {[traces |-> <<t>>, logs |-> <<>>] : t \in MCTraces}
            \cup {[traces |-> <<>>, logs |-> <<l>>] : l \in MCLogs}
=============================================================================
