CONSTANTS
  Blocks <- FaultBlocks
  Genesis <- g
  None = None
  Parent <- FaultTree
  Number <- FaultNumber
  View <- FaultView
  Txs <- FaultTxs
  Uncommittable <- FaultUncommittable
  WrongState <- RebranchWrongState
  HashRank <- FaultRank
  BATCH_LENGTH = 4
  EPOCH_LENGTH = 8
  WINDOW = 3
  HistorySync = FALSE
SPECIFICATION Spec
INVARIANT StateRootsMatch
CHECK_DEADLOCK FALSE
