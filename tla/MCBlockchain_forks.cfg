CONSTANTS
  Blocks <- ForkBlocks
  Genesis <- g
  None = None
  Parent <- ForkTree
  Number <- ForkNumber
  View <- ForkView
  Txs <- ForkTxs
  Uncommittable <- ForkUncommittable
  WrongState = {}
  HashRank <- ForkRank
  BATCH_LENGTH = 3
  EPOCH_LENGTH = 6
  WINDOW = 5
  HistorySync = FALSE
SPECIFICATION Spec
INVARIANT TypeOK
INVARIANT MainChainLinked
INVARIANT AccountsMatchHead
INVARIANT TransactionsOnce
INVARIANT ForksReported
INVARIANT InferiorForever
INVARIANT SlotOwnerOfBranch
INVARIANT OtherChecksHold
PROPERTY LoadRecovers
PROPERTY ImplementsLedger
