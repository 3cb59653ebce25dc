----------------------------- MODULE MCSwitchMmu -----------------------------
(* Bounded instances of SwitchMmu. *)
EXTENDS SwitchMmu

MCHeadroom == [p \in Ports |-> 3]
MCDivisor == [p \in Ports |-> IF p = 1 THEN 1 ELSE 2]
=============================================================================
