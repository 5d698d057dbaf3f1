SPECIFICATION FairSpec
CONSTANTS
  a = a
  b = b
  c = c
  d = d
  NoNode = NoNode
  Nodes <- MCNodes
  Groups <- MCGroups
  Listed <- MCListed
  Program <- MCProgram
  Quietly <- MCQuietly
  Modes <- MCModes
  Orderly = TRUE
  Wrap = 5
  MaxItems = 1
  MaxPending = 2
  MaxMoves = 1
INVARIANTS IInv Balanced OwnSuccess AtMostOnce NoFutileWait
PROPERTY Returns
