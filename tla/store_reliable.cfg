CONSTANTS
  BTC_USDT = BTC_USDT
  BT_CUSDT = BT_CUSDT
  ETH_USDT = ETH_USDT
  Pair <- MCPair2
  Tracked <- MCPair2
  Symbol <- MCSymbol2
  SymbolOf <- MCSymbolOf2
  Reader = {r1}
  MaxAge = 1
  TTL = 3
  Attempts = 2
  Skew = 1
  Unreliable = FALSE
  MaxTime = 3
  MaxLate = 1
SPECIFICATION Spec
INVARIANTS CacheLagsOneBatch FreshIsCached
PROPERTIES BatchesSettle RequestsAnswered
CHECK_DEADLOCK FALSE
