---------------------------- MODULE MC_BlockchainMap ----------------------------
(* Model-checking instance of BlockchainMap: the three chain crates, two   *)
(* networks, and three inserts, so that a network gets chains of two kinds *)
(* and a (kind, network) is inserted twice.                                *)
EXTENDS BlockchainMap

CONSTANTS EthereumChain, NearChain, SubstreamsChain, mainnet, sepolia

MCChainTypes == {EthereumChain, NearChain, SubstreamsChain}
MCKIND == [C \in MCChainTypes |->
             CASE C = EthereumChain -> "Ethereum"
               [] C = NearChain -> "Near"
               [] OTHER -> "Substreams"]
MCNetworks == {mainnet, sepolia}
=============================================================================
