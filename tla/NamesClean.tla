----------------------------- MODULE NamesClean -----------------------------
(***************************************************************************)
(* chifra names --clean (internal/names/handle_clean.go).  HandleClean     *)
(* loads the custom names (and, with --regular, the regular ones) into a   *)
(* map, cleans each name against the chain (cleanName and its helpers     *)
(* cleanCommon, cleanContract, cleanToken, cleanNonContract), syncs its    *)
(* prefund flag, and saves what changed: a custom name at once with        *)
(* names.UpdateCustomName, the regular ones together after the loop with   *)
(* names.UpdateRegularNames.  The first error returns from HandleClean.    *)
(* Go visits the map in an arbitrary order.  Invocations run one after     *)
(* another on the same database.                                          *)
(*                                                                         *)
(* A name is a record of its fields.  Strings are the members of small    *)
(* sets, and the string functions the code applies (ToLower, Contains,     *)
(* ReplaceAll, Trim, Count) are modelled by the sets of members they       *)
(* select or the member they map to.  A name's IsCustom is its address  *)
(* being in CustomAddrs.  The names package (loading, saving)  *)
(* and the chain queries (contract.IsContractAt, token.GetState) are not   *)
(* in the source tree: a query answers from the chain's state or fails,    *)
(* a save succeeds or fails as a whole.                                    *)
(***************************************************************************)
EXTENDS Integers, Sequences, SequencesExt

CONSTANTS
  Addrs,        \* the addresses in the database
  CustomAddrs,  \* those whose name is a custom one
  NameChoices,  \* the name records an address may hold at the start
  ChainChoices, \* [contract: BOOLEAN, token: Tokens \cup {NoToken}] facts
  QueryMayFail, \* whether IsContractAt or GetState may fail
  IoMayFail,    \* whether loading or saving the names database may fail
  MaxRuns,      \* bound on the invocations
  NoToken       \* the nil *token.Token of GetState for a contract that is no token

----------------------------------------------------------------------------
(* String functions over the strings the model uses.                       *)

\* strings.ToLower(source) == "etherscan" / "trueblocks".
LowerEtherscan == {"etherscan", "Etherscan"}
LowerTrueblocks == {"trueblocks", "TrueBlocks"}
\* strings.Contains(strings.ToLower(source), "  "), and the ReplaceAll.
DoubleSpaced == {"Me  too"}
SingleSpaced(s) == IF s = "Me  too" THEN "Me too" ELSE s
\* strings.Trim(s, " ").
Trim(s) == CASE s = " Foo " -> "Foo" [] s = " SYM " -> "SYM" [] OTHER -> s
\* strings.Contains(name, "airdrop").
AirdropNames == {"Foo airdrop"}
\* strings.Count(token.Name, "-") >= 4: a Kickback event.
KickbackNames == {"K-i-c-k-b"}
\* name.Tags > "79999": tags from "8" on.
ReservedTags == {"80-Prefund", "90-Individuals:Other", "90-Individuals:Humanity DAO"}
\* strings.Contains(tags, "Contracts"), (tags, "Tokens").
ContractTags == {"30-Contracts", "30-Contracts:Humanity DAO"}
TokenTags == {"50-Tokens:ERC20", "50-Tokens:ERC721"}
\* Contains(tags, "token") or "30-contracts" or "55-defi" (case sensitive).
LowerTokenishTags == {"55-defi"}

----------------------------------------------------------------------------
(* The cleaning functions: each returns the cleaned name and whether it    *)
(* reported a modification.                                                *)

Res(n, mod) == [n |-> n, mod |-> mod]

cleanCommon(n) ==
  IF n.tags \in ReservedTags THEN Res(n, FALSE)
  ELSE LET src1 == CASE n.source \in LowerEtherscan -> "EtherScan.io"
                     [] n.source \in LowerTrueblocks -> "TrueBlocks.io"
                     [] OTHER -> n.source
           src2 == IF n.source \in DoubleSpaced THEN SingleSpaced(src1) ELSE src1
       IN Res([n EXCEPT !.source = src2, !.petname = TRUE],
              \/ n.source \in LowerEtherscan \cup LowerTrueblocks \cup DoubleSpaced
              \/ ~n.petname)

(* cleanToken: the token's flags, tags, source, name, symbol and decimals. *)
(* Only the tags are tested after an earlier test changed them: an        *)
(* airdrop tag is cleared, then an ERC20 takes 50-Tokens:ERC20, then an    *)
(* ERC721 with no tags left takes 50-Tokens:ERC721.                        *)
cleanToken(n, t) ==
  LET airdrop == n.name \in AirdropNames
      tags2 == IF n.tags = "60-Airdrops" THEN "" ELSE n.tags
      toErc20 == t.erc20 /\ (tags2 = "" \/ tags2 \in LowerTokenishTags \/ airdrop)
      tags3 == IF toErc20 THEN "50-Tokens:ERC20" ELSE tags2
      toErc721 == t.erc721 /\ tags3 = ""
      onChain == n.source # "On chain" /\ n.source \in {"", "TrueBlocks.io", "EtherScan.io"}
      rename == t.name # "" /\ t.name \notin KickbackNames
  IN Res([n EXCEPT !.isErc20 = @ \/ t.erc20,
                   !.tags = IF toErc721 THEN "50-Tokens:ERC721" ELSE tags3,
                   !.source = IF onChain THEN "On chain" ELSE @,
                   !.name = IF rename THEN Trim(t.name) ELSE @,
                   !.symbol = IF t.symbol # "" THEN Trim(@) ELSE @,
                   !.decimals = IF t.decimals > 0 THEN t.decimals ELSE @,
                   !.isErc721 = t.erc721],
         \/ ~n.isErc20 /\ t.erc20
         \/ n.tags = "60-Airdrops" \/ toErc20 \/ toErc721 \/ onChain
         \/ rename /\ n.name # Trim(t.name)
         \/ t.symbol # "" /\ n.symbol # Trim(n.symbol)
         \/ t.decimals > 0 /\ n.decimals # t.decimals
         \/ n.isErc721 # t.erc721)

\* A contract's name once its token fields are settled: default tags and
\* the trimming of name and symbol; mod is what was reported before.
contractTail(n, mod) ==
  Res([n EXCEPT !.tags = IF @ = "" THEN "30-Contracts" ELSE @,
                !.name = Trim(@), !.symbol = Trim(@)],
      mod \/ n.tags = "" \/ n.name # Trim(n.name) \/ n.symbol # Trim(n.symbol))

\* The token fields of a contract that is not a token, cleared.
notToken(n) ==
  [n EXCEPT !.isErc20 = FALSE, !.isErc721 = FALSE, !.decimals = 0,
            !.symbol = "", !.tags = IF @ \in TokenTags THEN "" ELSE @]

(* Mutation of cleanContract: the token's modifications are not reported  *)
(* (the tokenModified test is lost).                                       *)
cleanContractNoTokenMod(t, n) ==
  LET n0 == [n EXCEPT !.isContract = TRUE] IN
  CASE t # NoToken -> contractTail(cleanToken(n0, t).n, ~n.isContract)
    [] n.isErc20 \/ n.isErc721 -> contractTail(notToken(n0), TRUE)
    [] OTHER -> contractTail(n0, ~n.isContract)

(* cleanContract: flag the contract, clean it as a token, or clear the     *)
(* token fields of a contract that is not one; default tags; trimming.     *)
cleanContract(t, n) ==
  LET n0 == [n EXCEPT !.isContract = TRUE] IN
  CASE t # NoToken -> LET tk == cleanToken(n0, t) IN contractTail(tk.n, ~n.isContract \/ tk.mod)
    [] n.isErc20 \/ n.isErc721 -> contractTail(notToken(n0), TRUE)
    [] OTHER -> contractTail(n0, ~n.isContract)

(* Mutation of cleanNonContract: the self-destructed retag without its    *)
(* "not yet tagged" test.                                                  *)
cleanNonContractRetagAlways(n, wasContract) ==
  LET c0 == n.tags = "30-Contracts:Humanity DAO"
      n0 == IF c0 THEN [n EXCEPT !.tags = "90-Individuals:Humanity DAO"] ELSE n
      retag == n0.tags \in {""} \cup ContractTags \cup TokenTags
  IN IF wasContract
     THEN Res([n0 EXCEPT !.isContract = TRUE, !.tags = "37-SelfDestructed"], TRUE)
     ELSE IF retag /\ n0.tags # "90-Individuals:Other"
     THEN Res([n0 EXCEPT !.tags = "90-Individuals:Other"], TRUE)
     ELSE Res(n0, c0)

(* cleanNonContract: the Humanity DAO retag; a former contract becomes     *)
(* self-destructed (and the function returns); contract, token or empty    *)
(* tags become 90-Individuals:Other.                                       *)
cleanNonContract(n, wasContract) ==
  LET c0 == n.tags = "30-Contracts:Humanity DAO"
      n0 == IF c0 THEN [n EXCEPT !.tags = "90-Individuals:Humanity DAO"] ELSE n
      retag == n0.tags \in {""} \cup ContractTags \cup TokenTags
  IN IF wasContract /\ n0.tags # "37-SelfDestructed"
     THEN Res([n0 EXCEPT !.isContract = TRUE, !.tags = "37-SelfDestructed"], TRUE)
     ELSE IF retag /\ n0.tags # "90-Individuals:Other"
     THEN Res([n0 EXCEPT !.tags = "90-Individuals:Other"], TRUE)
     ELSE Res(n0, c0)

(* Mutation of cleanName: a node connection error from GetState is taken   *)
(* for "not a token", like the other GetState errors.                      *)
cleanNameNoConnCheck(n, c, fail) ==
  LET common == cleanCommon(n)
      was == n.isContract /\ ~c.contract
      nc == cleanNonContract(common.n, was)
      cc == cleanContract(IF fail = "node" THEN NoToken ELSE c.token, common.n)
  IN CASE fail = "contractAt" -> [n |-> n, mod |-> FALSE, err |-> TRUE]
       [] ~c.contract -> [n |-> nc.n, mod |-> common.mod \/ nc.mod, err |-> FALSE]
       [] OTHER -> [n |-> cc.n, mod |-> common.mod \/ cc.mod, err |-> FALSE]

(* cleanName for chain facts c, with fail the query that fails: "none",    *)
(* "contractAt" (IsContractAt) or "node" (GetState's ErrNodeConnection,    *)
(* which cleanName returns as its error).                                  *)
cleanName(n, c, fail) ==
  LET common == cleanCommon(n)
      was == n.isContract /\ ~c.contract
      nc == cleanNonContract(common.n, was)
      cc == cleanContract(c.token, common.n)
  IN CASE fail = "contractAt" -> [n |-> n, mod |-> FALSE, err |-> TRUE]
       [] ~c.contract -> [n |-> nc.n, mod |-> common.mod \/ nc.mod, err |-> FALSE]
       [] fail = "node" -> [n |-> common.n, mod |-> common.mod, err |-> TRUE]
       [] OTHER -> [n |-> cc.n, mod |-> common.mod \/ cc.mod, err |-> FALSE]


----------------------------------------------------------------------------
(* HandleClean.                                                            *)

VARIABLES
  db,        \* db[a]: the name of a stored in the database
  chain,     \* chain[a]: whether a holds code, and its token state
  prefunds,  \* the chain's prefund addresses
  dryrun,    \* opts.Dryrun of the running invocation
  regular,   \* opts.Regular
  pc,        \* "idle" or "loop"
  order,     \* the order in which range visits allNames
  i,         \* the loop's position in order
  loaded,    \* allNames: db as LoadNamesMap read it
  pending,   \* regularNamesUpdated
  result,    \* the last invocation's outcome: "none", "ok", "err"
  runs       \* invocations started

vars == <<db, chain, prefunds, dryrun, regular, pc, order, i, loaded, pending, result, runs>>

\* The parts LoadNamesMap loads: the custom names, and the regular ones
\* with --regular.
Parts(reg) == CustomAddrs \cup (IF reg THEN Addrs \ CustomAddrs ELSE {})

\* The answers of a chain query for address facts c.
Fails(c) ==
  {"none"} \cup (IF QueryMayFail THEN {"contractAt"} \cup (IF c.contract THEN {"node"} ELSE {})
                 ELSE {})

IoOutcomes == IF IoMayFail THEN {"ok", "err"} ELSE {"ok"}

\* cleanName on the loaded name of a, then the prefund flag sync.
Cleaned(a, fail) ==
  LET r == cleanName(loaded[a], chain[a], fail)
      pf == a \in prefunds
  IN [n |-> [r.n EXCEPT !.isPrefund = pf], mod |-> r.mod \/ r.n.isPrefund # pf, err |-> r.err]

Init ==
  /\ db \in [Addrs -> NameChoices]
  /\ chain \in [Addrs -> ChainChoices]
  /\ prefunds \in SUBSET Addrs
  /\ dryrun = FALSE /\ regular = FALSE
  /\ pc = "idle"
  /\ order = <<>> /\ i = 0
  /\ loaded = db
  /\ pending = <<>>
  /\ result = "none"
  /\ runs = 0

Return(r) == result' = r /\ pc' = "idle"

\* LoadNamesMap or preparePrefunds fails: HandleClean returns at once.
LoadFail ==
  /\ pc = "idle" /\ runs < MaxRuns
  /\ IoMayFail
  /\ \E dr, reg \in BOOLEAN : dryrun' = dr /\ regular' = reg
  /\ Return("err")
  /\ runs' = runs + 1
  /\ UNCHANGED <<db, chain, prefunds, order, i, loaded, pending>>

\* HandleClean starts: the names are loaded and visited in any order.
Start ==
  /\ pc = "idle" /\ runs < MaxRuns
  /\ \E dr, reg \in BOOLEAN :
       /\ dryrun' = dr /\ regular' = reg
       /\ order' \in SetToSeqs(Parts(reg))
  /\ loaded' = db
  /\ pc' = "loop" /\ i' = 1
  /\ pending' = <<>>
  /\ result' = "none"
  /\ runs' = runs + 1
  /\ UNCHANGED <<db, chain, prefunds>>

\* cleanName returns an error: HandleClean returns it.
CleanFail ==
  /\ pc = "loop" /\ i <= Len(order)
  /\ \E f \in Fails(chain[order[i]]) : Cleaned(order[i], f).err
  /\ Return("err")
  /\ UNCHANGED <<db, chain, prefunds, dryrun, regular, order, i, loaded, pending, runs>>

\* A name that is not modified, or any name in a dry run, is not saved.
CleanSkip ==
  /\ pc = "loop" /\ i <= Len(order)
  /\ \E f \in Fails(chain[order[i]]) :
       LET c == Cleaned(order[i], f) IN ~c.err /\ (~c.mod \/ dryrun)
  /\ i' = i + 1
  /\ UNCHANGED <<db, chain, prefunds, dryrun, regular, pc, order, loaded, pending, result, runs>>

\* A modified custom name is saved at once by names.UpdateCustomName; if
\* that fails, HandleClean returns the error.
CleanSaveCustom ==
  /\ pc = "loop" /\ i <= Len(order)
  /\ ~dryrun
  /\ order[i] \in CustomAddrs
  /\ \E f \in Fails(chain[order[i]]), out \in IoOutcomes :
       LET c == Cleaned(order[i], f) IN
       /\ ~c.err /\ c.mod
       /\ IF out = "ok"
          THEN db' = [db EXCEPT ![order[i]] = c.n] /\ i' = i + 1 /\ UNCHANGED <<pc, result>>
          ELSE Return("err") /\ UNCHANGED <<db, i>>
  /\ UNCHANGED <<chain, prefunds, dryrun, regular, order, loaded, pending, runs>>

\* A modified regular name is appended to regularNamesUpdated.
CleanQueueRegular ==
  /\ pc = "loop" /\ i <= Len(order)
  /\ ~dryrun
  /\ order[i] \notin CustomAddrs
  /\ \E f \in Fails(chain[order[i]]) :
       LET c == Cleaned(order[i], f) IN
       /\ ~c.err /\ c.mod
       /\ pending' = Append(pending, <<order[i], c.n>>)
  /\ i' = i + 1
  /\ UNCHANGED <<db, chain, prefunds, dryrun, regular, pc, order, loaded, result, runs>>

\* After the loop, names.UpdateRegularNames saves the queued regular names
\* (if any) and its error is HandleClean's.
EndLoop ==
  /\ pc = "loop" /\ i > Len(order)
  /\ \/ pending = <<>> /\ Return("ok") /\ UNCHANGED db
     \/ /\ pending # <<>>
        /\ \E out \in IoOutcomes :
             IF out = "ok"
             THEN /\ db' = [a \in Addrs |->
                              IF \E k \in DOMAIN pending : pending[k][1] = a
                              THEN pending[CHOOSE k \in DOMAIN pending : pending[k][1] = a][2]
                              ELSE db[a]]
                  /\ Return("ok")
             ELSE Return("err") /\ UNCHANGED db
  /\ UNCHANGED <<chain, prefunds, dryrun, regular, order, i, loaded, pending, runs>>

\* No invocation left.
Done ==
  /\ pc = "idle" /\ runs = MaxRuns
  /\ UNCHANGED vars

Next ==
  \/ LoadFail \/ Start
  \/ CleanFail \/ CleanSkip \/ CleanSaveCustom \/ CleanQueueRegular
  \/ EndLoop \/ Done

Spec == Init /\ [][Next]_vars


----------------------------------------------------------------------------
\* The name a stored as clean: cleanName with every query answering, and
\* the prefund flag synced.
CleanOf(a) == Cleaned(a, "none").n

(* Whatever fails and wherever the loop stops, the database never holds a *)
(* half-cleaned name: each stored name is the one loaded or its complete   *)
(* clean.  A node connection error in token.GetState must stop cleanName  *)
(* before cleanContract treats the token as absent and clears its fields. *)
SavedOnlyClean == \A a \in Addrs : db[a] \in {loaded[a], CleanOf(a)}

(* An invocation that returns nil without --dryrun has saved the clean of *)
(* every name it loaded, custom and regular: no change cleanName makes     *)
(* goes unreported by the modified flags of cleanCommon, cleanContract,    *)
(* cleanToken and cleanNonContract and the prefund sync.                   *)
CleanSavesEveryChange ==
  (pc = "idle" /\ result = "ok" /\ ~dryrun) =>
    \A a \in Parts(regular) : db[a] = CleanOf(a)

\* One more run of cleanName on the name n of a, prefund flag synced.
CleanAgain(n, a) ==
  LET r == cleanName(n, chain[a], "none")
  IN [n |-> [r.n EXCEPT !.isPrefund = a \in prefunds],
      mod |-> r.mod \/ r.n.isPrefund # (a \in prefunds)]

(* Re-running chifra names --clean settles: from any stored name, two      *)
(* cleans reach a name a third clean reports unmodified, unless it is an  *)
(* ERC20 whose name contains "airdrop".  The self-destructed and Humanity *)
(* DAO retags of cleanNonContract, the source rewrites of cleanCommon and *)
(* cleanToken, the ERC20 and ERC721 tags and the trimmed token renames    *)
(* each test the value they set, so no other name is saved again on      *)
(* every run.  (cleanToken sets the ERC20 tags of an airdrop token and    *)
(* reports it each time, tags already set or not: that name is rewritten *)
(* on every run.)                                                          *)
CleanSettlesInTwo ==
  \A a \in Addrs :
    LET n2 == CleanAgain(CleanAgain(db[a], a).n, a).n
        airdropErc20 == /\ chain[a].token # NoToken
                        /\ chain[a].token.erc20
                        /\ n2.name \in AirdropNames
    IN CleanAgain(n2, a).mod => airdropErc20
=============================================================================
