-------------------------------- MODULE PfcHop --------------------------------
(***************************************************************************)
(* One PFC-controlled hop in discrete time: an upstream device that always *)
(* has data for one queue, the link in both directions, and the ingress    *)
(* accounting of the switch below it (SwitchMmu).  The other ports of the  *)
(* switch take and give back pool as they please.                          *)
(*                                                                         *)
(* A slot is the time one full packet takes to be transmitted.  A frame    *)
(* started in a slot is received Delay slots after its last bit has left   *)
(* (QbbChannel).  The device that sends PFC frames may be in the middle of *)
(* a data packet, so PFC frames may wait up to one slot in queue 0; they   *)
(* are so short that all that wait leave together.                         *)
(***************************************************************************)
EXTENDS Integers, Sequences, SequencesExt

CONSTANTS
  Hop,        \* the ingress port at the end of the link
  Others,     \* the other ingress ports
  Queue,      \* the queue under flow control
  Sizes,      \* packet sizes, in bytes
  Mtu,        \* the largest packet, and the bytes the link carries in a slot
  Delay,      \* m_delay of the channel, in slots
  BufferSize, Reserve, ResumeOffset, Divisor,
  MaxOther,   \* bound: bytes of an other port, enough for its reserve and the pool
  MaxCorrupt  \* bound: frames the error model corrupts

VARIABLES
  shared_used_bytes, hdrm_bytes, ingress_bytes, paused, queued,  \* SwitchMmu
  m_paused,   \* the upstream device has been paused
  m_busy,     \* and has started a packet in this slot
  forward,    \* packets on the link, with the slots they still need
  pfcQueue,   \* PFC frames in queue 0 of the downstream device
  pfcWaited,  \* how many of them have waited since the slot before
  backward,   \* PFC frames on the link
  corrupted

mmuVars == <<shared_used_bytes, hdrm_bytes, ingress_bytes, paused, queued>>
linkVars == <<m_paused, m_busy, forward, backward, corrupted>>
vars == <<mmuVars, linkVars, pfcQueue, pfcWaited>>

Ports == {Hop} \cup Others
pg == <<Hop, Queue>>

\* Mutant of ConfigHdrm: the bytes of a round trip and no more.
RoundTripHdrm == 2 * Mtu * Delay

\* The headroom the experiment sets: three times what the link holds one way.
ConfigHdrm == 3 * Mtu * Delay

Mmu == INSTANCE SwitchMmu WITH
  Queues <- {Queue}, Headroom <- [p \in Ports |-> ConfigHdrm]

ASSUME HopAssumption ==
  /\ Hop \notin Others
  /\ Mtu \in Nat \ {0} /\ Sizes \subseteq 1..Mtu
  /\ Delay \in Nat /\ MaxOther \in Nat /\ MaxCorrupt \in Nat

\* What SwitchMmu assumes of the configuration.
ASSUME MmuAssumption == Mmu!ConstantsAssumption /\ Mmu!PoolAssumption

-----------------------------------------------------------------------------

Due(frames) == frames # <<>> /\ Head(frames).left = 0

Closer(frames) == [i \in DOMAIN frames |-> [frames[i] EXCEPT !.left = @ - 1]]

\* TransmitStart of the upstream device.
Send ==
  /\ ~m_paused /\ ~m_busy
  /\ m_busy' = TRUE
  /\ \E psize \in Sizes :
       forward' = Append(forward, [size |-> psize, left |-> Delay + 1])
  /\ UNCHANGED <<mmuVars, m_paused, backward, corrupted, pfcQueue, pfcWaited>>

Pfc == IF paused'[pg] THEN "pause" ELSE "resume"

\* Mutant of SendPfc: a frame overtakes those waiting.
SendPfcFirst ==
  pfcQueue' = IF paused'[pg] = paused[pg] THEN pfcQueue ELSE <<Pfc>> \o pfcQueue

\* CheckAndSendPfc and CheckAndSendResume, seen from queue 0.
SendPfc ==
  pfcQueue' = IF paused'[pg] = paused[pg] THEN pfcQueue ELSE Append(pfcQueue, Pfc)

\* Receive and SendToDev on a packet that is admitted.
Arrive ==
  /\ Due(forward)
  /\ \E frame \in {Head(forward)} : Mmu!Admit(pg, frame.size)
  /\ SendPfc
  /\ forward' = Tail(forward)
  /\ UNCHANGED <<m_paused, m_busy, backward, corrupted, pfcWaited>>

\* SendToDev on a packet for which there is no room.
Drop ==
  /\ Due(forward)
  /\ ~Mmu!CheckIngressAdmission(pg, Head(forward).size)
  /\ forward' = Tail(forward)
  /\ UNCHANGED <<mmuVars, m_paused, m_busy, backward, corrupted, pfcQueue, pfcWaited>>

\* SwitchNotifyDequeue.
Leave ==
  /\ \E psize \in Sizes : Mmu!Dequeue(pg, psize)
  /\ SendPfc
  /\ UNCHANGED <<linkVars, pfcWaited>>

\* The traffic of the other ports.
Other ==
  /\ \E port \in Others, psize \in Sizes :
       \/ queued[<<port, Queue>>] + psize <= MaxOther /\ Mmu!Admit(<<port, Queue>>, psize)
       \/ Mmu!Dequeue(<<port, Queue>>, psize)
  /\ UNCHANGED <<linkVars, pfcQueue, pfcWaited>>

\* DequeueAndTransmit of the downstream device, once its data packet is out.
TransmitPfc ==
  /\ pfcQueue # <<>>
  /\ backward' = Append(backward, [kind |-> Head(pfcQueue), left |-> Delay])
  /\ pfcQueue' = Tail(pfcQueue)
  /\ pfcWaited' = IF pfcWaited = 0 THEN 0 ELSE pfcWaited - 1
  /\ UNCHANGED <<mmuVars, m_paused, m_busy, forward, corrupted>>

\* Receive on a PFC frame.
ReceivePfc ==
  /\ Due(backward)
  /\ m_paused' = (Head(backward).kind = "pause")
  /\ backward' = Tail(backward)
  /\ UNCHANGED <<mmuVars, m_busy, forward, corrupted, pfcQueue, pfcWaited>>

\* Receive on a frame that the error model corrupts.
Corrupt ==
  /\ corrupted < MaxCorrupt
  /\ corrupted' = corrupted + 1
  /\ \/ Due(forward) /\ forward' = Tail(forward) /\ UNCHANGED backward
     \/ Due(backward) /\ backward' = Tail(backward) /\ UNCHANGED forward
  /\ UNCHANGED <<mmuVars, m_paused, m_busy, pfcQueue, pfcWaited>>

\* The next slot begins when all that is due in this one has been received.
Tick ==
  /\ ~Due(forward) /\ ~Due(backward) /\ pfcWaited = 0
  /\ forward' = Closer(forward)
  /\ backward' = Closer(backward)
  /\ m_busy' = FALSE
  /\ pfcWaited' = Len(pfcQueue)
  /\ UNCHANGED <<mmuVars, m_paused, corrupted, pfcQueue>>

Init ==
  /\ Mmu!Init
  /\ m_paused = FALSE /\ m_busy = FALSE
  /\ forward = <<>> /\ backward = <<>>
  /\ pfcQueue = <<>> /\ pfcWaited = 0
  /\ corrupted = 0

Next ==
  \/ Send \/ Arrive \/ Drop \/ Leave \/ Other
  \/ TransmitPfc \/ ReceivePfc \/ Corrupt \/ Tick

Spec == Init /\ [][Next]_vars

-----------------------------------------------------------------------------

TypeOK ==
  /\ Mmu!TypeOK
  /\ m_paused \in BOOLEAN /\ m_busy \in BOOLEAN
  /\ \A f \in ToSet(forward) : f.size \in Sizes /\ f.left \in 0..(Delay + 1)
  /\ \A f \in ToSet(backward) : f.kind \in {"pause", "resume"} /\ f.left \in 0..Delay
  /\ pfcWaited \in 0..Len(pfcQueue)
  /\ ToSet(pfcQueue) \subseteq {"pause", "resume"}
  /\ corrupted \in 0..MaxCorrupt

\* Nothing is lost for want of buffer: the headroom holds what arrives between
\* the pause decision and the moment the upstream device obeys, whatever the
\* other ports do to the threshold meanwhile, unless the error model takes a frame.
NoLoss ==
  Due(forward) /\ corrupted = 0 => Mmu!CheckIngressAdmission(pg, Head(forward).size)

\* The memory manager and the upstream device agree as soon as no PFC frame is
\* on its way.
PauseStateAgrees ==
  pfcQueue = <<>> /\ backward = <<>> /\ corrupted = 0 => m_paused = paused[pg]

\* Whatever the error model has taken, a PFC frame that arrives with none behind it
\* tells the upstream device what the memory manager wants.
LastFrameDecides ==
  [][ReceivePfc /\ Len(backward) = 1 /\ pfcQueue = <<>> => m_paused' = paused[pg]]_vars

\* No hop falls silent: an upstream device that is paused has a resume on its way, or
\* bytes in the switch whose departure will send one, unless the error model takes a
\* PFC frame.
PauseHasAnEnd ==
  m_paused /\ corrupted = 0 =>
    \/ queued[pg] > 0
    \/ "resume" \in ToSet(pfcQueue)
    \/ \E i \in DOMAIN backward : backward[i].kind = "resume"
=============================================================================
