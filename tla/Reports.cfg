CONSTANTS
  MaxTrades = 2
  MaxRestarts = 1
SPECIFICATION Spec
CHECK_DEADLOCK FALSE
INVARIANTS RowsMatchLedger TxHashNotFromFuture
