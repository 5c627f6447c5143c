CONSTANTS
  f1 = f1
  f2 = f2
  Forks <- MCForks
  MaxNumber = 3
  AncestorCount = 1
  NoBlock = NoBlock
INIT StoreInit
NEXT StoreNext
INVARIANTS
  HeadWindowResolvable
