SPECIFICATION Spec
CONSTANTS
  a = a
  b = b
  c = c
  d = d
  NoNode = NoNode
  Nodes <- MCNodes
  Groups <- MCGroups
  Listed <- MCListed
  Program <- MCProgram
  Quietly <- MCQuietly
  Modes <- MCAllModes
  Orderly = TRUE
  Wrap = 5
  MaxItems = 1
  MaxPending = 2
  MaxMoves = 2
INVARIANT NoFutileWait
