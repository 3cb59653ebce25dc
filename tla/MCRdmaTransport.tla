---------------------------- MODULE MCRdmaTransport ----------------------------
(* Bounded instances of RdmaTransport. *)
EXTENDS RdmaTransport
=============================================================================
