CONSTANT MaxServers = 2

INIT Init
NEXT Next

\* new_ipfs_client returns: the final states have no successor.
CHECK_DEADLOCK FALSE

INVARIANTS
  SuccessMeansAllConnected
  InvalidServerMeansNoApi
PROPERTY
  ImplementsContract
