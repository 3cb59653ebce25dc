---------------------------- MODULE MCNicScheduler ----------------------------
(* A bounded instance of NicScheduler. *)
EXTENDS NicScheduler

MCSize == [f \in Flows |-> IF f = 1 THEN 2 ELSE 1]
MCPg == [f \in Flows |-> 3]
MCWin == [f \in Flows |-> IF f = 1 THEN 2 ELSE 0]
=============================================================================
