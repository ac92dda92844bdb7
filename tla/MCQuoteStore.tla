---------------------------- MODULE MCQuoteStore ----------------------------
(***************************************************************************)
(* Instances of QuoteStore for TLC.  BT/CUSDT is a pair no exchange quotes *)
(* whose codes, written one after the other, give the symbol of BTC/USDT.  *)
(***************************************************************************)
EXTENDS QuoteStore

CONSTANTS BTC_USDT, BT_CUSDT, ETH_USDT

MCPair == {BTC_USDT, BT_CUSDT}
MCTracked == {BTC_USDT}
MCSymbol == {"BTCUSDT"}
MCSymbolOf == [p \in MCPair |-> "BTCUSDT"]

MCPair2 == {BTC_USDT, ETH_USDT}
MCSymbol2 == {"BTCUSDT", "ETHUSDT"}
MCSymbolOf2 == [p \in MCPair2 |-> IF p = ETH_USDT THEN "ETHUSDT" ELSE "BTCUSDT"]
=============================================================================
