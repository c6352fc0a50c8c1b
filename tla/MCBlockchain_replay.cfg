CONSTANTS
  Blocks <- HistoryBlocks
  Genesis <- g
  None = None
  Parent <- HistoryTree
  Number <- HistoryNumber
  View <- HistoryView
  Txs <- HistoryTxs
  Uncommittable = {}
  WrongState = {}
  HashRank <- HistoryRank
  BATCH_LENGTH = 2
  EPOCH_LENGTH = 6
  WINDOW = 3
  HistorySync = TRUE
SPECIFICATION Spec
INVARIANT TransactionsOnce
CHECK_DEADLOCK FALSE
