CONSTANTS
  f1 = f1
  f2 = f2
  Forks <- MCForks
  MaxNumber = 3
  AncestorCount = 1
  NoBlock = NoBlock
  ProviderLag = 1
  MaxFailures = 2
  MaxReorgDepth = 2
  MaxReorgs = 1
  MaxAttempt = 1
  CleanupBlocks = TRUE
SPECIFICATION Spec
PROPERTIES
  HeadCatchesUp
