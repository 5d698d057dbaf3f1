SPECIFICATION Spec
CONSTANTS
  Kinds = {"bulk"}
  N = 3
  NBulk = 3
  Batch = 2
  S = 2
  R = 3
  MaxMoves = 1
INVARIANT BulkSummarised
