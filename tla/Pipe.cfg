SPECIFICATION FairSpec
CONSTANTS
  Kinds = {"insert", "exist", "bulk"}
  N = 4
  NBulk = 3
  Batch = 2
  S = 2
  R = 3
  MaxMoves = 2
INVARIANTS TypeOK InOrder Faithful Summarised
PROPERTY Ends
