--------------------------- MODULE MCBinanceClient ---------------------------
(***************************************************************************)
(* An instance of BinanceClient for TLC: three calls in flight, the most   *)
(* one round of ticks starts (server time, prices, exchange info).  The    *)
(* calls are alike, and the safety runs take them up to permutation.       *)
(***************************************************************************)
EXTENDS BinanceClient, TLC

CallerSymmetry == Permutations(Caller)
=============================================================================
