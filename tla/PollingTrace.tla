----------------------------- MODULE PollingTrace -----------------------------
(***************************************************************************)
(* How Hawkeye finds the switches that cause a pause.  A host whose packet *)
(* is not acknowledged in time sends a polling packet along the path of    *)
(* the flow (ScheduleAckClock).  A switch that finds the egress port of    *)
(* the flow paused sends a signal out of that port, and every switch that  *)
(* gets a signal reports its telemetry and sends the signal on out of the  *)
(* paused ports that carry traffic from where it came (SendToDev).         *)
(*                                                                         *)
(* Whether a port counts as paused, and which pairs of ports carry         *)
(* traffic, is telemetry over milliseconds, while a trace takes            *)
(* microseconds: both are fixed during a behaviour.                        *)
(***************************************************************************)
EXTENDS Integers, Sequences, FiniteSets, FiniteSetsExt, SequencesExt

CONSTANTS
  Ports,     \* the ports of all switches
  Host,      \* stands for the other end of a port that leads to a host
  Peer,      \* Peer[port]: the port at the other end of its link, or Host
  Flows,
  Agents,    \* the flows of hosts that run the agent (m_agent_flag)
  Path,      \* Path[flow]: the hops of the flow, as records of ports in and out
  Times,     \* bound: the times, from Start on, at which polling may happen
  Start,     \* the time that is event 0: 10^9 ns
  Gap,       \* 500000 ns
  Interval,  \* 3000000 ns between two polling packets of a flow
  Wrap       \* 2^32, the range of an event ID

VARIABLES
  now,
  m_lastPollingTime,  \* per flow, in the queue pair
  m_lastEventID,      \* per port, the last event signalled out of it
  paused,             \* the ports that count as paused
  wire,               \* per port or flow (the host): queue 0 and the link behind it
  issued,             \* history: flow and event of the polling packets sent
  seen                \* history: per port, the latest event that came in by a signal

traceVars == <<now, m_lastPollingTime, m_lastEventID, paused, wire, issued, seen>>

Senders == Ports \cup Flows

\* The pairs of ports with m_portToPortBytes > 0.
Meter == UNION {ToSet(Path[f]) : f \in Flows}
Egress == {hop.out : hop \in Meter}

\* Mutant of OutPorts: the meter is read with its two ports exchanged.
InPorts(in) == {hop.in : hop \in {h \in Meter : h.out = in}}

OutPorts(in) == {hop.out : hop \in {h \in Meter : h.in = in}}

(***************************************************************************)
(* A path leads over links from port to port, and out to a host.           *)
(***************************************************************************)
ASSUME FabricAssumption ==
  /\ IsFiniteSet(Ports) /\ Ports \cap Flows = {} /\ Host \notin Ports
  /\ \A p \in Ports : Peer[p] \in Ports \cup {Host}
  /\ \A p \in Ports : Peer[p] \in Ports => Peer[Peer[p]] = p
  /\ \A f \in Flows :
       /\ Path[f] \in Seq([in : Ports, out : Ports]) /\ Path[f] # <<>>
       /\ \A i \in 1..(Len(Path[f]) - 1) : Peer[Path[f][i].out] = Path[f][i + 1].in
       /\ Peer[Path[f][Len(Path[f])].out] = Host
  /\ Agents \subseteq Flows
  /\ Gap \in Nat /\ Interval \in Nat /\ Start \in Nat /\ Start > Interval
  /\ Wrap \in Nat
  /\ \A t \in Times : t \in Nat \ {0} /\ t + Gap < Wrap

Signal(eventID) == [kind |-> "signal", eventID |-> eventID]
Polling(eventID, f, hop) ==
  [kind |-> "polling", eventID |-> eventID, flow |-> f, hop |-> hop]

-----------------------------------------------------------------------------

Tick ==
  /\ \E t \in Times : t > now /\ now' = t
  /\ UNCHANGED <<m_lastPollingTime, m_lastEventID, paused, wire, issued, seen>>

\* ScheduleAckClock of a packet that is not acknowledged.
ScheduleAckClock(f) ==
  /\ f \in Agents
  /\ now + Start - m_lastPollingTime[f] > Interval
  /\ m_lastPollingTime' = [m_lastPollingTime EXCEPT ![f] = now + Start]
  /\ wire' = [wire EXCEPT ![f] = Append(@, Polling(now, f, 1))]
  /\ issued' = issued \cup {<<f, now>>}
  /\ UNCHANGED <<now, m_lastEventID, paused, seen>>

\* An unsigned comparison of 32 bits; 0 stands for no event.
IsNewEvent(port, eventID) ==
  \/ eventID > (m_lastEventID[port] + Gap) % Wrap
  \/ m_lastEventID[port] = 0

\* Mutant of SignalPorts: the pause is not looked at.
SignalAllPorts(ports, eventID) == {p \in ports : IsNewEvent(p, eventID)}

\* Those of the ports out of which the event is signalled.
SignalPorts(ports, eventID) == {p \in ports \cap paused : IsNewEvent(p, eventID)}

\* Mutant of MarkSignalled: the event is not noted.
MarkNothing(signals, eventID) == m_lastEventID

MarkSignalled(signals, eventID) ==
  [p \in Ports |-> IF p \in signals THEN eventID ELSE m_lastEventID[p]]

\* Messages enter queue 0 of a port in the order given; a host ignores them.
SendTo(s, queue, messages) ==
  IF s \in Ports /\ Peer[s] = Host THEN queue ELSE queue \o messages

Taken(s, sender) == IF s = sender THEN Tail(wire[s]) ELSE wire[s]

\* SendToDev on a signal: the loop over all ports.
ReceiveSignal(sender) ==
  /\ wire[sender] # <<>> /\ Head(wire[sender]).kind = "signal"
  /\ LET eventID == Head(wire[sender]).eventID
         inDev == Peer[sender]
         signals == SignalPorts(OutPorts(inDev), eventID)
     IN  /\ m_lastEventID' = MarkSignalled(signals, eventID)
         /\ wire' = [s \in Senders |->
              SendTo(s, Taken(s, sender),
                     IF s \in signals THEN <<Signal(eventID)>> ELSE <<>>)]
         /\ seen' = [seen EXCEPT ![inDev] = Max({@, eventID})]
  /\ UNCHANGED <<now, m_lastPollingTime, paused, issued>>

\* SendToDev on a polling packet: the signal leaves ahead of it.
ReceivePolling(sender) ==
  /\ wire[sender] # <<>> /\ Head(wire[sender]).kind = "polling"
  /\ LET polling == Head(wire[sender])
         idx == Path[polling.flow][polling.hop].out
         signals == SignalPorts({idx}, polling.eventID)
     IN  /\ m_lastEventID' = MarkSignalled(signals, polling.eventID)
         /\ wire' = [s \in Senders |->
              SendTo(s, Taken(s, sender),
                     (IF s \in signals THEN <<Signal(polling.eventID)>> ELSE <<>>)
                     \o (IF s = idx
                         THEN <<[polling EXCEPT !.hop = @ + 1]>> ELSE <<>>))]
  /\ UNCHANGED <<now, m_lastPollingTime, paused, issued, seen>>

TraceInit ==
  /\ now \in Times /\ \A t \in Times : now <= t
  /\ m_lastPollingTime = [f \in Flows |-> 0]
  /\ m_lastEventID = [p \in Ports |-> 0]
  /\ paused \in SUBSET Egress
  /\ wire = [s \in Senders |-> <<>>]
  /\ issued = {}
  /\ seen = [p \in Ports |-> 0]

TraceNext ==
  \/ Tick
  \/ \E f \in Flows : ScheduleAckClock(f)
  \/ \E s \in Senders : ReceiveSignal(s) \/ ReceivePolling(s)

TraceSpec == TraceInit /\ [][TraceNext]_traceVars

\* What is on a wire arrives.
FairTraceSpec ==
  /\ TraceSpec
  /\ \A s \in Senders : WF_traceVars(ReceiveSignal(s) \/ ReceivePolling(s))

-----------------------------------------------------------------------------

\* The ports at the other end of those of the ports that are paused.
Behind(ports, pauses) == {Peer[p] : p \in ports \cap pauses} \ {Host}

\* Those ports, and the ones behind the paused ports they carry traffic to.
Further(ports, pauses) ==
  ports \cup Behind({hop.out : hop \in {h \in Meter : h.in \in ports}}, pauses)

\* Downstream(f)[d]: the ports a signal should come in by, at most d further
\* switches behind a paused port of the path of flow f.
DownstreamOf(f, pauses) ==
  LET reach[d \in Nat] ==
        IF d = 0 THEN Behind({hop.out : hop \in ToSet(Path[f])}, pauses)
        ELSE Further(reach[d - 1], pauses)
  IN  [d \in 0..Cardinality(Egress) |-> reach[d]]

Downstream(f) == DownstreamOf(f, paused)

Quiet == \A s \in Senders : wire[s] = <<>>

\* Also where paused ports form a cycle, traces come to an end: every signal is
\* suppressed somewhere, and only new polling brings new ones.
TracesEnd == []<>Quiet

\* When a trace has ended, it has reached every switch behind the paused ports of the
\* victim's path.  Traces at about the same time cut each other short at every port
\* they share, so what a switch d hops on has reported may be older than the trace,
\* by one Gap for each port on the way and no more.
TraceCovers ==
  Quiet =>
    \A poll \in issued :
      LET downstream == Downstream(poll[1])
      IN  \A d \in DOMAIN downstream : \A in \in downstream[d] :
            seen[in] + (d + 1) * Gap >= poll[2]

\* Nobody is blamed who is not behind a pause: the last signal that reached a port
\* belongs to a trace of a flow downstream of whose paused ports it lies.
OnlyDownstreamSeen ==
  \A in \in Ports : seen[in] # 0 =>
    \E f \in Flows :
      <<f, seen[in]>> \in issued /\ in \in Downstream(f)[Cardinality(Egress)]
=============================================================================
