---------------------------- MODULE MCSwitchNode ----------------------------
(* Bounded instances of SwitchNode. *)
EXTENDS SwitchNode

\* Incast: packets enter by ports 1 and 2 and leave by port 3.
MCIncast == [p \in Ports |-> IF p = 3 THEN {} ELSE {3}]

\* Their neighbours use different queues; port 1 carries control packets as well.
MCClass == [p \in Ports |-> IF p = 1 THEN {0, 1} ELSE {3}]

MCHeadroom == [p \in Ports |-> 2]
MCDivisor == [p \in Ports |-> 1]
=============================================================================
