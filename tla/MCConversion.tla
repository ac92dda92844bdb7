---------------------------- MODULE MCConversion ----------------------------
(***************************************************************************)
(* An instance of Conversion for TLC.                                      *)
(***************************************************************************)
EXTENDS Conversion
=============================================================================
