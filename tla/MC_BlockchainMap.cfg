CONSTANTS
  EthereumChain = EthereumChain
  NearChain = NearChain
  SubstreamsChain = SubstreamsChain
  mainnet = mainnet
  sepolia = sepolia
  ChainTypes <- MCChainTypes
  KIND <- MCKIND
  Networks <- MCNetworks
  MaxInserts = 3

SPECIFICATION Spec

INVARIANTS
  LookupsSeeLatestChain
  GetAllByKindExact
