----------------------------- MODULE MCRateFeed -----------------------------
(***************************************************************************)
(* An instance of RateFeed for TLC.                                        *)
(***************************************************************************)
EXTENDS RateFeed
=============================================================================
