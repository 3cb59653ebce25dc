------------------------------ MODULE SwitchNode ------------------------------
(***************************************************************************)
(* A whole switch: SwitchNode over its memory manager (SwitchMmu), one     *)
(* QbbNetDevice per port with its transmitter and its pause flags, and the *)
(* BEgressQueue of each device.  Packets are kept in their egress FIFOs    *)
(* with the port they entered by, which is what a dequeue gives back to.   *)
(*                                                                         *)
(* A simulator event runs to completion.  Enqueueing on an idle device     *)
(* starts it within the same event, so an idle device that has something   *)
(* to send starts (StartIdle) before the next event is handled (Settled).  *)
(*                                                                         *)
(* What is sent into the wire is abstracted to lastPfc, the last pause or  *)
(* resume frame that left each port for each queue.                        *)
(***************************************************************************)
EXTENDS Integers, FiniteSets, Sequences, SequencesExt, ByteSums

CONSTANTS
  Ports, Queues, Sizes, BufferSize, Reserve, ResumeOffset, Headroom, Divisor,
  Route,       \* Route[in]: the ports the table may choose for a packet from in
  Class,       \* Class[in]: the queues of the packets that enter by a port
  Fragile,     \* the ports whose link the scenario may take down
  MaxControl,  \* bound: queue-0 packets of one byte per pair of ports
  MaxWaiting   \* bound: frames in queue 0 of a port at which it stops receiving

ControlQueue == 0
qCnt == 8      \* the round robin counts modulo the number of queues

VARIABLES
  shared_used_bytes, hdrm_bytes, ingress_bytes, paused,  \* SwitchMmu, ingress
  egress_bytes,  \* [port][queue]: SwitchMmu, egress
  m_bytes,       \* [in][out][queue]: the monitor of SwitchNode
  egressQ,       \* [port][queue]: the FIFOs of BEgressQueue
  m_rrlast,      \* [port]: the data queue served last
  m_paused,      \* [port][queue]: the device was paused by its neighbour
  busy,          \* [port]: the transmitter is BUSY
  m_linkUp,      \* [port]
  lastPfc,       \* history: the last PFC frame sent out of a port for a queue
  stranded       \* history: bytes per group that TakeDown threw away

mmuVars == <<shared_used_bytes, hdrm_bytes, ingress_bytes, paused>>
deviceVars == <<m_rrlast, busy, lastPfc>>
vars == <<mmuVars, egress_bytes, m_bytes, egressQ, m_paused, m_linkUp,
          stranded, deviceVars>>

PriorityGroups == Ports \X Queues
AllQueues == Queues \cup {ControlQueue}

\* A packet remembers its ingress port (FlowIdTag) and its size; a PFC frame
\* names the queue it is about.
Packet(in, psize) == [kind |-> "packet", in |-> in, size |-> psize]
Pfc(kind, qIndex) == [kind |-> kind, queue |-> qIndex]

IsPacketFrom(in, frame) == frame.kind = "packet" /\ frame.in = in

SizesFrom(in, fifo) ==
  [i \in DOMAIN fifo |-> IF IsPacketFrom(in, fifo[i]) THEN fifo[i].size ELSE 0]

BytesFrom(in, fifo) == SumOf(SizesFrom(in, fifo))

\* The bytes of a group in the egress queues, and with those TakeDown dropped.
BytesPerPort(pg) == [out \in Ports |-> BytesFrom(pg[1], egressQ[out][pg[2]])]

ChargedBytes == [pg \in PriorityGroups |-> SumOf(BytesPerPort(pg)) + stranded[pg]]

Mmu == INSTANCE SwitchMmu WITH queued <- ChargedBytes

\* The round robin can tell the data queues apart, and none of them is queue 0.
ASSUME NodeAssumption == Queues \subseteq 1..(qCnt - 1)

\* What SwitchMmu assumes of the configuration.
ASSUME MmuAssumption == Mmu!ConstantsAssumption /\ Mmu!PoolAssumption

-----------------------------------------------------------------------------

\* The queues of a port that may send now: queue 0 is never paused and goes first.
Eligible(p) ==
  IF egressQ[p][ControlQueue] # <<>>
  THEN {ControlQueue}
  ELSE {q \in Queues : ~m_paused[p][q] /\ egressQ[p][q] # <<>>}

RoundRobinDistance(p, q) == (q - m_rrlast[p] - 1) % qCnt

\* Mutant of NextQueue: fixed priority, the lowest queue number first.
LowestQueue(p) == Min(Eligible(p))

NextQueue(p) ==
  CHOOSE q \in Eligible(p) :
    \A r \in Eligible(p) : RoundRobinDistance(p, q) <= RoundRobinDistance(p, r)

CanSend(p) == m_linkUp[p] /\ Eligible(p) # {}

Settled == \A p \in Ports : busy[p] \/ ~CanSend(p)

\* Mutants of PauseDue: the pause is sent again; the accounting is read before the
\* packet is added to it.
PauseAgain(pg) == Mmu!CheckShouldPause(pg)'
PauseDueBefore(pg) == ~paused[pg] /\ Mmu!CheckShouldPause(pg)

\* CheckAndSendPfc and CheckAndSendResume decide on the accounting of the group
\* as the packet in hand leaves it.
PauseDue(pg) == ~paused[pg] /\ Mmu!CheckShouldPause(pg)'
ResumeDue(pg) == paused[pg] /\ Mmu!CheckShouldResume(pg)'

\* Mutant of SendPfc: the frame overtakes those that wait in queue 0.
SendPfcFirst(fifo, kind, qIndex) == <<Pfc(kind, qIndex)>> \o fifo

SendPfc(fifo, kind, qIndex) == Append(fifo, Pfc(kind, qIndex))

\* SwitchNotifyDequeue for a data queue, with CheckAndSendResume.
NotifyDequeue(p, q, frame) ==
  LET pg == <<frame.in, q>>
      resume == ResumeDue(pg)
  IN  /\ Mmu!RemoveFromIngressAdmission(pg, frame.size)
      /\ egress_bytes' = [egress_bytes EXCEPT ![p][q] = @ - frame.size]
      /\ m_bytes' = [m_bytes EXCEPT ![frame.in][p][q] = @ - frame.size]
      /\ paused' = [paused EXCEPT ![pg] = @ /\ ~resume]
      /\ egressQ' = [egressQ EXCEPT
           ![p][q] = Tail(@),
           ![frame.in][ControlQueue] =
              IF resume THEN SendPfc(@, "resume", q) ELSE @]

SendControl(p) ==
  LET frame == Head(egressQ[p][ControlQueue])
  IN  /\ NextQueue(p) = ControlQueue
      /\ egressQ' = [egressQ EXCEPT ![p][ControlQueue] = Tail(@)]
      /\ lastPfc' = IF frame.kind = "packet" THEN lastPfc
                    ELSE [lastPfc EXCEPT ![p][frame.queue] = frame.kind]
      /\ UNCHANGED <<mmuVars, egress_bytes, m_bytes, m_rrlast>>

SendData(p) ==
  \E q \in Queues :
    /\ NextQueue(p) = q
    /\ m_rrlast' = [m_rrlast EXCEPT ![p] = q]
    /\ \E frame \in {Head(egressQ[p][q])} : NotifyDequeue(p, q, frame)
    /\ UNCHANGED lastPfc

\* DequeueAndTransmit on a device that has something to send.
DequeueAndTransmit(p) ==
  /\ CanSend(p)
  /\ SendControl(p) \/ SendData(p)
  /\ busy' = [busy EXCEPT ![p] = TRUE]
  /\ UNCHANGED <<m_paused, m_linkUp, stranded>>

StartIdle(p) ==
  /\ ~busy[p]
  /\ DequeueAndTransmit(p)

\* TransmitComplete: the next frame follows at once, or the device goes idle.
TransmitNext(p) ==
  /\ Settled /\ busy[p]
  /\ DequeueAndTransmit(p)

TransmitLast(p) ==
  /\ Settled /\ busy[p]
  /\ ~CanSend(p)
  /\ busy' = [busy EXCEPT ![p] = FALSE]
  /\ UNCHANGED <<mmuVars, egress_bytes, m_bytes, egressQ, m_paused, m_linkUp,
                 stranded, m_rrlast, lastPfc>>

TransmitComplete(p) == TransmitNext(p) \/ TransmitLast(p)

-----------------------------------------------------------------------------

\* SendToDev on a packet of a data queue.  A packet that fails the admission
\* test is dropped without a trace in the state: no step.
SendToDev(in, out, q, psize) ==
  LET pg == <<in, q>>
      pause == PauseDue(pg)
  IN  /\ Settled /\ m_linkUp[in]
      /\ q \in Class[in] /\ out \in Route[in] /\ m_linkUp[out]
      /\ Len(egressQ[in][ControlQueue]) < MaxWaiting
      /\ Mmu!CheckIngressAdmission(pg, psize)
      /\ Mmu!UpdateIngressAdmission(pg, psize)
      /\ egress_bytes' = [egress_bytes EXCEPT ![out][q] = @ + psize]
      /\ m_bytes' = [m_bytes EXCEPT ![in][out][q] = @ + psize]
      /\ paused' = [paused EXCEPT ![pg] = @ \/ pause]
      /\ egressQ' = [egressQ EXCEPT
           ![out][q] = Append(@, Packet(in, psize)),
           ![in][ControlQueue] = IF pause THEN SendPfc(@, "pause", q) ELSE @]
      /\ UNCHANGED <<m_paused, m_linkUp, stranded, deviceVars>>

\* SendToDev on a packet of queue 0: no admission, no accounting but m_bytes.
SendToDevControl(in, out) ==
  /\ Settled /\ m_linkUp[in]
  /\ ControlQueue \in Class[in] /\ out \in Route[in] /\ m_linkUp[out]
  /\ m_bytes[in][out][ControlQueue] < MaxControl
  /\ m_bytes' = [m_bytes EXCEPT ![in][out][ControlQueue] = @ + 1]
  /\ egressQ' = [egressQ EXCEPT ![out][ControlQueue] = Append(@, Packet(in, 1))]
  /\ UNCHANGED <<mmuVars, egress_bytes, m_paused, m_linkUp, stranded, deviceVars>>

\* Receive on a PFC frame from the neighbour of port p, which only pauses what
\* sends data to it.
CarriesData(p) == \E in \in Ports : p \in Route[in]

ReceivePause(p, q) ==
  /\ Settled /\ m_linkUp[p] /\ CarriesData(p) /\ ~m_paused[p][q]
  /\ m_paused' = [m_paused EXCEPT ![p][q] = TRUE]
  /\ UNCHANGED <<mmuVars, egress_bytes, m_bytes, egressQ, m_linkUp, stranded, deviceVars>>

ReceiveResume(p, q) ==
  /\ Settled /\ m_linkUp[p] /\ m_paused[p][q]
  /\ m_paused' = [m_paused EXCEPT ![p][q] = FALSE]
  /\ UNCHANGED <<mmuVars, egress_bytes, m_bytes, egressQ, m_linkUp, stranded, deviceVars>>

\* What TakeDown does to the queues of a port: all go unpaused and are emptied,
\* and the memory manager is told nothing.
EmptyQueues(p) ==
  /\ m_paused' = [m_paused EXCEPT ![p] = [q \in Queues |-> FALSE]]
  /\ egressQ' = [egressQ EXCEPT ![p] = [q \in AllQueues |-> <<>>]]
  /\ stranded' = [pg \in PriorityGroups |->
                    stranded[pg] + BytesFrom(pg[1], egressQ[p][pg[2]])]

FirstTakeDown(p) ==
  /\ Settled /\ p \in Fragile
  /\ \A r \in Ports : m_linkUp[r]

\* Mutant of TakeDown: the link is left up.
TakeDownLinkStaysUp(p) ==
  /\ FirstTakeDown(p)
  /\ EmptyQueues(p)
  /\ UNCHANGED <<mmuVars, egress_bytes, m_bytes, m_linkUp, deviceVars>>

\* The scenario takes down one link.  m_rrlast, which the emptying moves, is not
\* read again on a device whose link is down.
TakeDown(p) ==
  /\ FirstTakeDown(p)
  /\ EmptyQueues(p)
  /\ m_linkUp' = [m_linkUp EXCEPT ![p] = FALSE]
  /\ UNCHANGED <<mmuVars, egress_bytes, m_bytes, deviceVars>>

-----------------------------------------------------------------------------

Init ==
  /\ shared_used_bytes = 0
  /\ hdrm_bytes = [pg \in PriorityGroups |-> 0]
  /\ ingress_bytes = [pg \in PriorityGroups |-> 0]
  /\ paused = [pg \in PriorityGroups |-> FALSE]
  /\ egress_bytes = [p \in Ports |-> [q \in Queues |-> 0]]
  /\ m_bytes = [in \in Ports |-> [out \in Ports |-> [q \in AllQueues |-> 0]]]
  /\ egressQ = [p \in Ports |-> [q \in AllQueues |-> <<>>]]
  /\ m_rrlast = [p \in Ports |-> 0]
  /\ m_paused = [p \in Ports |-> [q \in Queues |-> FALSE]]
  /\ busy = [p \in Ports |-> FALSE]
  /\ m_linkUp = [p \in Ports |-> TRUE]
  /\ lastPfc = [p \in Ports |-> [q \in Queues |-> "resume"]]
  /\ stranded = [pg \in PriorityGroups |-> 0]

Next ==
  \/ \E p \in Ports : StartIdle(p) \/ TransmitComplete(p) \/ TakeDown(p)
  \/ \E in, out \in Ports, q \in Queues, psize \in Sizes : SendToDev(in, out, q, psize)
  \/ \E in, out \in Ports : SendToDevControl(in, out)
  \/ \E p \in Ports, q \in Queues : ReceivePause(p, q) \/ ReceiveResume(p, q)

Spec == Init /\ [][Next]_vars

-----------------------------------------------------------------------------

TypeOK ==
  /\ Mmu!TypeOK
  /\ egress_bytes \in [Ports -> [Queues -> Nat]]
  /\ m_bytes \in [Ports -> [Ports -> [AllQueues -> Nat]]]
  /\ m_rrlast \in [Ports -> AllQueues]
  /\ m_paused \in [Ports -> [Queues -> BOOLEAN]]
  /\ busy \in [Ports -> BOOLEAN]
  /\ m_linkUp \in [Ports -> BOOLEAN]
  /\ lastPfc \in [Ports -> [Queues -> {"pause", "resume"}]]
  /\ \A p \in Ports, q \in Queues :
       \A f \in ToSet(egressQ[p][q]) : f.kind = "packet" /\ f.size \in Sizes

\* The switch implements the memory manager: every enqueue and every dequeue of
\* a packet, through whatever ports, is an Admit or a Dequeue of SwitchMmu, so
\* the theorems about SwitchMmu hold of the switch.
ImplementsMmu == Mmu!Spec

\* Both counters of the data queues agree with the FIFOs: egress_bytes, which the ECN
\* marking reads, and the monitor m_bytes.  (Of queue 0 m_bytes only grows: what
\* SendToDev adds there SwitchNotifyDequeue does not take away.)
CountersMatchQueues ==
  \A out \in Ports, q \in Queues : m_linkUp[out] =>
    /\ \A in \in Ports : m_bytes[in][out][q] = BytesFrom(in, egressQ[out][q])
    /\ egress_bytes[out][q] = SumOf([in \in Ports |-> BytesFrom(in, egressQ[out][q])])

\* The PFC frames about a queue that wait in queue 0.
About(fifo, q) == {i \in DOMAIN fifo : fifo[i].kind # "packet" /\ fifo[i].queue = q}

Precedes(fifo, q, i, j) == i < j /\ \A k \in About(fifo, q) : k <= i \/ j <= k

\* The frames about a queue, the last one on the wire and then those waiting, alternate.
Alternates(fifo, last, q) ==
  \A j \in About(fifo, q) :
    /\ Precedes(fifo, q, 0, j) => fifo[j].kind # last
    /\ \A i \in About(fifo, q) : Precedes(fifo, q, i, j) => fifo[i].kind # fifo[j].kind

\* The last of them is of this kind.
Tells(fifo, last, q, kind) ==
  /\ About(fifo, q) = {} => last = kind
  /\ \A i \in About(fifo, q) : (\A j \in About(fifo, q) : j <= i) => fifo[i].kind = kind

\* Pause and resume frames alternate, so a neighbour that gets all of them in
\* order never meets a resume for a queue it has not paused, which Resume asserts.
PfcAlternates ==
  \A p \in Ports, q \in Queues : m_linkUp[p] =>
    Alternates(egressQ[p][ControlQueue], lastPfc[p][q], q)

\* The last frame sent or waiting says what the memory manager believes the
\* neighbour to be doing.
PfcTellsPaused ==
  \A p \in Ports, q \in Queues : m_linkUp[p] =>
    Tells(egressQ[p][ControlQueue], lastPfc[p][q], q,
          IF paused[<<p, q>>] THEN "pause" ELSE "resume")

\* A data queue that has packets and is not paused is not starved: every time its
\* port serves another data queue instead, its turn comes closer.
TurnComesCloser ==
  [][\A p \in Ports, q, r \in Queues :
       /\ q \in Eligible(p) /\ r # q
       /\ Len(egressQ'[p][r]) < Len(egressQ[p][r]) /\ m_linkUp'[p]
       => RoundRobinDistance(p, q)' < RoundRobinDistance(p, q)]_vars
=============================================================================
