CONSTANTS
  Blocks <- FaultBlocks
  Genesis <- g
  None = None
  Parent <- FaultTree
  Number <- FaultNumber
  View <- FaultView
  Txs <- FaultTxs
  Uncommittable <- FaultUncommittable
  WrongState <- FaultWrongState
  HashRank <- FaultRank
  BATCH_LENGTH = 4
  EPOCH_LENGTH = 8
  WINDOW = 3
  HistorySync = TRUE
SPECIFICATION Spec
INVARIANT MainChainLinked
INVARIANT AccountsMatchHead
PROPERTY ImplementsLedger
CHECK_DEADLOCK FALSE
