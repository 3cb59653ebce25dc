------------------------------- MODULE MCPfcHop -------------------------------
(* Bounded instances of PfcHop. *)
EXTENDS PfcHop

MCDivisor == [p \in Ports |-> 1]
=============================================================================
