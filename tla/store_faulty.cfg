CONSTANTS
  BTC_USDT = BTC_USDT
  BT_CUSDT = BT_CUSDT
  ETH_USDT = ETH_USDT
  Pair <- MCPair
  Tracked <- MCTracked
  Symbol <- MCSymbol
  SymbolOf <- MCSymbolOf
  Reader = {r1}
  MaxAge = 1
  TTL = 2
  Attempts = 3
  Skew = 1
  Unreliable = TRUE
  MaxTime = 3
  MaxLate = 1
SPECIFICATION Spec
INVARIANTS TypeOK CacheIsCommitted
PROPERTIES ProcessedIsStored HistoryIsSettled AnswersAreFresh BadRequestIsAhead BatchesProgress KeepsPromise
CHECK_DEADLOCK FALSE
