------------------------- MODULE MCTelemetryGraph -------------------------
(***************************************************************************)
(* TelemetryGraph for three flows.                                         *)
(***************************************************************************)
EXTENDS TelemetryGraph

CONSTANTS MaxPackets, MaxQueue

MCEntries ==
    {[packetNum |-> p, enqQdepth |-> d * p, pfcPausedPacketNum |-> u] :
        p \in 1..MaxPackets, d \in 0..MaxQueue, u \in 0..1}
=============================================================================
