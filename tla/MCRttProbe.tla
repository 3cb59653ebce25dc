---------------------------- MODULE MCRttProbe ----------------------------
(***************************************************************************)
(* RttProbe for TLC.  An answer may take longer than two abort times.      *)
(***************************************************************************)
EXTENDS RttProbe
=============================================================================
