---------------------------- MODULE MCPollingTrace ----------------------------
(* Three switches in a ring (A, B, C), each with a port from the switch before *)
(* (a0), one to the next (a1) and one to a host (ah), and three flows that take *)
(* two hops of the ring each: a cyclic buffer dependency.                      *)
EXTENDS PollingTrace

MCPorts == {"a0", "a1", "ah", "b0", "b1", "bh", "c0", "c1", "ch"}

MCPeer == [p \in MCPorts |->
  CASE p = "a1" -> "b0" [] p = "b1" -> "c0" [] p = "c1" -> "a0"
    [] p = "b0" -> "a1" [] p = "c0" -> "b1" [] p = "a0" -> "c1"
    [] OTHER -> "host"]

Hop(in, out) == [in |-> in, out |-> out]
MCPath == [f \in {"f1", "f2", "f3"} |->
  CASE f = "f1" -> <<Hop("ah", "a1"), Hop("b0", "b1"), Hop("c0", "ch")>>
    [] f = "f2" -> <<Hop("bh", "b1"), Hop("c0", "c1"), Hop("a0", "ah")>>
    [] f = "f3" -> <<Hop("ch", "c1"), Hop("a0", "a1"), Hop("b0", "bh")>>]
=============================================================================
