SPECIFICATION SessionSpec
CONSTANTS
  Tokens = {t1, t2}
  NoToken = NoToken
  HistoryLen = 3
  RefreshTicks = 2
  MaxTick = 4
  MaxStarts = 3
INVARIANTS CandlesRefreshed
CHECK_DEADLOCK FALSE
