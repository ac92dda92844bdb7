---------------------------- MODULE MCApiServer -----------------------------
(***************************************************************************)
(* An instance of ApiServer for TLC.  The codes cover what validation      *)
(* tells apart: two spellings of one currency, another currency, one too   *)
(* short, one with a symbol, and "iota", which stands for a code like      *)
(* U+0390: alphanumeric, but in upper case (with combining marks) not.     *)
(***************************************************************************)
EXTENDS ApiServer

MCLimit == [s \in Store |-> 1]
MCCode == {"btc", "BTC", "ETH", "1", "B-C", "iota", "IOTA"}
MCPlain == MCCode \ {"B-C", "IOTA"}
MCLength == [c \in MCCode |-> IF c = "1" THEN 1 ELSE 3]
MCUpperOf == [c \in MCCode |-> CASE c = "btc" -> "BTC" [] c = "iota" -> "IOTA" [] OTHER -> c]
=============================================================================
