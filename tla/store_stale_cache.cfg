CONSTANTS
  BTC_USDT = BTC_USDT
  BT_CUSDT = BT_CUSDT
  ETH_USDT = ETH_USDT
  Pair <- MCPair
  Tracked <- MCTracked
  Symbol <- MCSymbol
  SymbolOf <- MCSymbolOf
  Reader = {r1}
  MaxAge = 1
  TTL = 2
  Attempts = 2
  Skew = 0
  Unreliable = TRUE
  MaxTime = 3
  MaxLate = 1
SPECIFICATION Spec
PROPERTY GetLatestIsMostRecent
CHECK_DEADLOCK FALSE
