--------------------------- MODULE MCSwitchTelemetry ---------------------------
(* A bounded instance of SwitchTelemetry: two flows that share an entry and come *)
(* in by different ports.                                                       *)
EXTENDS SwitchTelemetry

MCInPort == [f \in Flows |-> IF f = 1 THEN 1 ELSE 2]
MCHash == [f \in Flows |-> 7]
=============================================================================
