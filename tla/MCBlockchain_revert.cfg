CONSTANTS
  Blocks <- ViewBlocks
  Genesis <- g
  None = None
  Parent <- ViewTree
  Number <- ViewNumber
  View <- ViewView
  Txs <- ViewTxs
  Uncommittable = {}
  WrongState = {}
  HashRank <- ViewRank
  BATCH_LENGTH = 3
  EPOCH_LENGTH = 6
  WINDOW = 5
  HistorySync = FALSE
SPECIFICATION Spec
INVARIANT RevertsToPredecessor
CHECK_DEADLOCK FALSE
