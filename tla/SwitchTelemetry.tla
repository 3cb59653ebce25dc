---------------------------- MODULE SwitchTelemetry ----------------------------
(***************************************************************************)
(* The telemetry a switch keeps about one egress port (SendToDev, the part *)
(* marked RDMA NPA): a sliding window of the bytes from each ingress port, *)
(* and per flow and for the port counters in a ring of two epochs.  What   *)
(* belongs to the past is only recognised by the time of the last packet   *)
(* when the next one comes, or when the entry is read (OutputTelemetry).   *)
(*                                                                         *)
(* Sequence numbers are left out, and every packet is one unit of bytes.   *)
(***************************************************************************)
EXTENDS Integers, Sequences, FiniteSets, FiniteSetsExt

CONSTANTS
  InPorts,       \* ingress ports
  Flows,
  NoFlow,        \* the five-tuple of zeros
  InPort,        \* InPort[flow]
  FiveTupleHash, \* FiveTupleHash[flow]: the index of its entry
  Depths,        \* the packets an arriving packet may find in the egress queue
  epochTime,     \* 1000000 ns, a multiple of portToPortSlot
  Wrap,          \* 2^32: the port entry keeps its time in 32 bits
  MaxTime,       \* bound: the last time
  MaxPackets     \* bound: packets

epochNum == 2
portToPortSlot == 5

VARIABLES
  now,
  m_paused,               \* the egress port is paused
  m_slotIdx,
  m_portToPortBytes,      \* [in]: the bytes of the window
  m_portToPortBytesSlot,  \* [in][slot]
  m_flowTelemetryData,    \* [epoch][entry]
  m_portTelemetryData,    \* [epoch]
  log                     \* history: the packets, with their times

meter == <<m_slotIdx, m_portToPortBytes, m_portToPortBytesSlot>>
counters == <<m_flowTelemetryData, m_portTelemetryData>>
vars == <<now, m_paused, meter, counters, log>>

Hashes == {FiveTupleHash[f] : f \in Flows}
Slots == 0..(portToPortSlot - 1)

ASSUME TelemetryAssumption ==
  /\ epochTime \in Nat \ {0} /\ epochTime % portToPortSlot = 0
  /\ NoFlow \notin Flows
  /\ \A f \in Flows : InPort[f] \in InPorts
  /\ Depths \subseteq Nat /\ Wrap \in Nat \ {0}

-----------------------------------------------------------------------------

EpochOf(time) == time \div epochTime
GetEpochIdx == EpochOf(now) % epochNum

SlotOf(time) == time \div (epochTime \div portToPortSlot)
Slot == SlotOf(now) % portToPortSlot

\* Mutant of Expired: the slot that has just ended.
JustEnded == m_slotIdx

\* The slot whose bytes leave the window: the one that begins.
Expired == Slot

\* The sliding window, when a packet comes in by port in: the slot that begins is
\* cleared, whichever of them were skipped since the last packet.
UpdateMeter(in) ==
  LET moved == Slot # m_slotIdx
      leaving == [i \in InPorts |-> IF moved THEN m_portToPortBytesSlot[i][Expired] ELSE 0]
      slots == [i \in InPorts |-> [m_portToPortBytesSlot[i] EXCEPT
                  ![Expired] = @ - leaving[i]]]
  IN  /\ m_slotIdx' = Slot
      /\ m_portToPortBytesSlot' = [slots EXCEPT ![in][Slot] = @ + 1]
      /\ m_portToPortBytes' =
           [i \in InPorts |-> m_portToPortBytes[i] - leaving[i] + (IF i = in THEN 1 ELSE 0)]

\* Mutant of IsNewEntry: an entry lives as long as the whole ring.
IsOlderThanRing(lastTimeStep) == now - lastTimeStep > epochTime * epochNum

IsNewEntry(lastTimeStep) == now - lastTimeStep > epochTime * (epochNum - 1)

\* The flow entry.  A new one that starts in a paused port keeps the enqQdepth of
\* the entry it replaces.
FlowEntry(entry, f, depth) ==
  LET fresh == entry.flow # f \/ IsNewEntry(entry.lastTimeStep)
      old == IF fresh
             THEN [packetNum |-> 0, pfcPausedPacketNum |-> 0,
                   enqQdepth |-> IF m_paused THEN entry.enqQdepth ELSE 0]
             ELSE entry
  IN  [flow |-> f,
       packetNum |-> old.packetNum + 1,
       pfcPausedPacketNum |-> old.pfcPausedPacketNum + (IF m_paused THEN 1 ELSE 0),
       enqQdepth |-> old.enqQdepth + (IF m_paused THEN 0 ELSE depth),
       lastTimeStep |-> now]

\* Mutant of PortEntry: a new entry keeps the paused packets of the one it replaces.
PortEntryKeepsPaused(entry, depth) ==
  LET fresh == IsNewEntry(entry.lastTimeStep)
  IN  [packetNum |-> IF fresh THEN 1 ELSE entry.packetNum + 1,
       pfcPausedPacketNum |-> entry.pfcPausedPacketNum + (IF m_paused THEN 1 ELSE 0),
       enqQdepth |-> IF fresh THEN depth ELSE entry.enqQdepth + depth,
       lastTimeStep |-> now % Wrap]

\* The port entry.  The packet that starts a new one is not counted as paused.
PortEntry(entry, depth) ==
  IF IsNewEntry(entry.lastTimeStep)
  THEN [packetNum |-> 1, pfcPausedPacketNum |-> 0, enqQdepth |-> depth,
        lastTimeStep |-> now % Wrap]
  ELSE [packetNum |-> entry.packetNum + 1,
        pfcPausedPacketNum |-> entry.pfcPausedPacketNum + (IF m_paused THEN 1 ELSE 0),
        enqQdepth |-> entry.enqQdepth + depth,
        lastTimeStep |-> now % Wrap]

\* SendToDev on a packet of a data queue that was admitted.
SendToDev(f, depth) ==
  /\ Len(log) < MaxPackets
  /\ UpdateMeter(InPort[f])
  /\ m_flowTelemetryData' = [m_flowTelemetryData EXCEPT
       ![GetEpochIdx][FiveTupleHash[f]] = FlowEntry(@, f, depth)]
  /\ m_portTelemetryData' = [m_portTelemetryData EXCEPT
       ![GetEpochIdx] = PortEntry(@, depth)]
  /\ log' = Append(log, [time |-> now, flow |-> f, paused |-> m_paused])
  /\ UNCHANGED <<now, m_paused>>

\* Receive on a PFC frame.
ReceivePfc ==
  /\ m_paused' = ~m_paused
  /\ UNCHANGED <<now, meter, counters, log>>

Tick ==
  /\ now < MaxTime
  /\ now' = now + 1
  /\ UNCHANGED <<m_paused, meter, counters, log>>

Init ==
  /\ now = 0
  /\ m_paused = FALSE
  /\ m_slotIdx = 0
  /\ m_portToPortBytes = [in \in InPorts |-> 0]
  /\ m_portToPortBytesSlot = [in \in InPorts |-> [s \in Slots |-> 0]]
  /\ m_flowTelemetryData = [e \in 0..(epochNum - 1) |-> [h \in Hashes |->
       [flow |-> NoFlow, packetNum |-> 0, pfcPausedPacketNum |-> 0,
        enqQdepth |-> 0, lastTimeStep |-> 0]]]
  /\ m_portTelemetryData = [e \in 0..(epochNum - 1) |->
       [packetNum |-> 0, pfcPausedPacketNum |-> 0, enqQdepth |-> 0,
        lastTimeStep |-> 0]]
  /\ log = <<>>

Next ==
  \/ \E f \in Flows, depth \in Depths : SendToDev(f, depth)
  \/ ReceivePfc
  \/ Tick

Spec == Init /\ [][Next]_vars

-----------------------------------------------------------------------------

\* OutputTelemetry prints the entry of this epoch and of the last one, by age.
IsPrinted(entry, epochsAgo) ==
  /\ entry.flow # NoFlow
  /\ now - entry.lastTimeStep <= epochTime * (epochNum - 1 + epochsAgo)

InEpoch(epoch) == {i \in DOMAIN log : EpochOf(log[i].time) = epoch}

\* The packets of an epoch that an entry should stand for: those since the last one
\* of another flow with the same hash.
LastRun(epoch, hash) ==
  LET same == {i \in InEpoch(epoch) : FiveTupleHash[log[i].flow] = hash}
  IN  {i \in same : \A j \in same : j > i => log[j].flow = log[i].flow}

Paused(packets) == {i \in packets : log[i].paused}

\* What is read about a flow belongs to the epoch it is printed under and to no other,
\* and nothing of it is missing but what a flow with the same hash displaced: the
\* ages tested when an entry is written and when it is read fit the ring exactly.
FlowEntriesExact ==
  \A epochsAgo \in 0..(epochNum - 1) : \A hash \in Hashes :
    LET epoch == EpochOf(now) - epochsAgo
        entry == m_flowTelemetryData[epoch % epochNum][hash]
        packets == LastRun(epoch, hash)
    IN  epoch >= 0 =>
          /\ IsPrinted(entry, epochsAgo) <=> packets # {}
          /\ packets # {} =>
               /\ entry.flow = log[Max(packets)].flow
               /\ entry.packetNum = Cardinality(packets)
               /\ entry.pfcPausedPacketNum = Cardinality(Paused(packets))

\* The entry of the port counts the packets of its epoch, and of the paused ones all
\* but the packet that started it: a pause is noticed with the second packet.  This is
\* said of an epoch in which a packet came, for otherwise the entry is the one of two
\* epochs before, from the third epoch on (the first packets meet a time of 0 that is no
\* packet's), and until the 32 bits of its time wrap.
PortEntriesExact ==
  \A epochsAgo \in 0..(epochNum - 1) :
    LET epoch == EpochOf(now) - epochsAgo
        entry == m_portTelemetryData[epoch % epochNum]
        packets == InEpoch(epoch)
    IN  packets # {} /\ epoch >= epochNum /\ now < Wrap =>
          /\ entry.packetNum = Cardinality(packets)
          /\ entry.pfcPausedPacketNum = Cardinality(Paused(packets \ {Min(packets)}))

\* The meter by which signals find their way never misses traffic: it counts at least
\* what came in by the port in the current slot and the portToPortSlot - 1 before.
MeterCovers ==
  \A in \in InPorts :
    m_portToPortBytes[in] >=
      Cardinality({i \in DOMAIN log :
        /\ InPort[log[i].flow] = in
        /\ SlotOf(log[i].time) > SlotOf(now) - portToPortSlot})
=============================================================================
