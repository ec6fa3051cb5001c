---------------------------- MODULE MCNamesClean ----------------------------
(* Instantiates NamesClean for TLC: one custom and one regular name, each  *)
(* an externally owned account, a contract or an ERC20 token, with names   *)
(* that need cleaning (an etherscan source, the Humanity DAO tag, empty    *)
(* tags, ERC20 flags on a contract that is no token) and names that do    *)
(* not.                                                                    *)
EXTENDS NamesClean

CONSTANTS a1, a2

MCAddrs == {a1, a2}
MCCustomAddrs == {a1}

\* An ERC20 token whose on-chain name differs from the stored one.
Erc20 == [erc20 |-> TRUE, erc721 |-> FALSE, name |-> "Foo airdrop",
          symbol |-> "SYM", decimals |-> 18]

\* An ERC20 token whose on-chain name only needs trimming.
Erc20Plain == [erc20 |-> TRUE, erc721 |-> FALSE, name |-> " Foo ",
               symbol |-> "SYM", decimals |-> 18]

\* An ERC721 token, with no decimals.
Erc721 == [erc20 |-> FALSE, erc721 |-> TRUE, name |-> "Foo",
           symbol |-> "SYM", decimals |-> 0]

MCChainChoices ==
  {[contract |-> FALSE, token |-> NoToken],
   [contract |-> TRUE, token |-> NoToken],
   [contract |-> TRUE, token |-> Erc20],
   [contract |-> TRUE, token |-> Erc20Plain],
   [contract |-> TRUE, token |-> Erc721]}

MCNameChoices ==
  {n \in [tags : {"", "30-Contracts:Humanity DAO"},
          source : {"etherscan", "On chain"},
          petname : {TRUE},
          name : {"Foo"},
          symbol : {"SYM"},
          decimals : {18},
          isContract : BOOLEAN,
          isErc20 : BOOLEAN,
          isErc721 : {FALSE},
          isPrefund : {FALSE}] : n.isErc20 => n.isContract}
=============================================================================
