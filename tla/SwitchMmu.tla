------------------------------ MODULE SwitchMmu ------------------------------
(***************************************************************************)
(* The ingress side of the shared-buffer memory manager of a switch        *)
(* (src/simulation/src/point-to-point/model/switch-mmu.cc), together with  *)
(* the pause and resume decisions SwitchNode takes right after each        *)
(* admission and each dequeue (switch-node.cc).                            *)
(*                                                                         *)
(* A priority group is an (ingress port, queue) pair.  Its bytes live in   *)
(* three places: the reserve every group owns, the pool all groups share,  *)
(* and the headroom that absorbs what is in flight after a pause.          *)
(*                                                                         *)
(* The packets themselves are abstracted to the number of bytes each group *)
(* has inside the switch (queued): a dequeue may take any packet size that *)
(* still fits in it.  SwitchNode, which keeps the egress FIFOs, implements *)
(* this module.                                                            *)
(***************************************************************************)
EXTENDS Integers, FiniteSets, ByteSums

CONSTANTS
  Ports,        \* ingress ports
  Queues,       \* the queues under admission control (queue 0 is not)
  Sizes,        \* packet sizes, in bytes
  BufferSize,   \* buffer_size
  Reserve,      \* reserve, per priority group
  ResumeOffset, \* resume_offset
  Headroom,     \* headroom[port]
  Divisor       \* 2^pfc_a_shift[port], the shift being one of 3, 2, 1, 0

VARIABLES
  shared_used_bytes, \* bytes of the pool in use
  hdrm_bytes,        \* per group, bytes charged to the headroom
  ingress_bytes,     \* per group, bytes charged to the reserve and the pool
  paused,            \* per group, a pause was sent upstream and no resume yet
  queued             \* per group, bytes of its packets still in the switch

vars == <<shared_used_bytes, hdrm_bytes, ingress_bytes, paused, queued>>

PriorityGroups == Ports \X Queues

\* ConfigNPort sums headroom and reserve once per port, not once per group.
TotalHdrm == SumOf(Headroom)
TotalRsrv == Cardinality(Ports) * Reserve
\* Mutant of Pool: the reserves are not set aside.
PoolWithoutReserve == BufferSize - TotalHdrm

Pool == BufferSize - TotalHdrm - TotalRsrv

ASSUME ConstantsAssumption ==
  /\ IsFiniteSet(Ports)
  /\ IsFiniteSet(Queues)
  /\ Sizes \subseteq Nat \ {0}
  /\ Reserve \in Nat
  /\ ResumeOffset \in Nat
  /\ BufferSize \in Nat
  /\ Headroom \in [Ports -> Nat]
  /\ Divisor \in [Ports -> {1, 2, 4, 8}]

\* The configured buffer holds the headroom and the reserve of every port.
ASSUME PoolAssumption == Pool \in Nat

-----------------------------------------------------------------------------

\* Mutant of GetPfcThreshold: a static threshold, blind to what is in use.
StaticThreshold(port) == Pool \div Divisor[port]

GetPfcThreshold(port) == (Pool - shared_used_bytes) \div Divisor[port]

GetSharedUsed(pg) ==
  IF ingress_bytes[pg] > Reserve THEN ingress_bytes[pg] - Reserve ELSE 0

CheckIngressAdmission(pg, psize) ==
  \/ psize + hdrm_bytes[pg] <= Headroom[pg[1]]
  \/ psize + GetSharedUsed(pg) <= GetPfcThreshold(pg[1])

ChargeReserve(pg, psize) ==
  /\ ingress_bytes[pg] + psize <= Reserve
  /\ ingress_bytes' = [ingress_bytes EXCEPT ![pg] = @ + psize]
  /\ UNCHANGED <<hdrm_bytes, shared_used_bytes>>

ChargeHeadroom(pg, psize) ==
  /\ ingress_bytes[pg] + psize > Reserve
  /\ ingress_bytes[pg] + psize - Reserve > GetPfcThreshold(pg[1])
  /\ hdrm_bytes' = [hdrm_bytes EXCEPT ![pg] = @ + psize]
  /\ UNCHANGED <<ingress_bytes, shared_used_bytes>>

ChargePool(pg, psize) ==
  LET over == ingress_bytes[pg] + psize - Reserve
  IN  /\ over > 0
      /\ over <= GetPfcThreshold(pg[1])
      /\ ingress_bytes' = [ingress_bytes EXCEPT ![pg] = @ + psize]
      /\ shared_used_bytes' =
           shared_used_bytes + (IF psize < over THEN psize ELSE over)
      /\ UNCHANGED hdrm_bytes

UpdateIngressAdmission(pg, psize) ==
  \/ ChargeReserve(pg, psize)
  \/ ChargeHeadroom(pg, psize)
  \/ ChargePool(pg, psize)

\* Mutant of FromHdrm: a packet is taken to have been charged to one place.
FromHdrmWhole(pg, psize) == IF hdrm_bytes[pg] > 0 THEN psize ELSE 0

\* What a packet of psize bytes gives back: headroom first, then the pool.
FromHdrm(pg, psize) == IF hdrm_bytes[pg] < psize THEN hdrm_bytes[pg] ELSE psize

\* Mutant of FromShared: all that is not headroom is returned to the pool.
FromSharedUnclamped(pg, psize) == psize - FromHdrm(pg, psize)

FromShared(pg, psize) ==
  LET rest == psize - FromHdrm(pg, psize)
  IN  IF rest < GetSharedUsed(pg) THEN rest ELSE GetSharedUsed(pg)

\* Mutant of RemoveFromIngressAdmission: the headroom part is given back twice.
RemoveTwice(pg, psize) ==
  /\ hdrm_bytes' = [hdrm_bytes EXCEPT ![pg] = @ - FromHdrm(pg, psize)]
  /\ ingress_bytes' =
       [ingress_bytes EXCEPT ![pg] = IF psize < @ THEN @ - psize ELSE 0]
  /\ shared_used_bytes' = shared_used_bytes - FromShared(pg, psize)

RemoveFromIngressAdmission(pg, psize) ==
  /\ hdrm_bytes' = [hdrm_bytes EXCEPT ![pg] = @ - FromHdrm(pg, psize)]
  /\ ingress_bytes' =
       [ingress_bytes EXCEPT ![pg] = @ - (psize - FromHdrm(pg, psize))]
  /\ shared_used_bytes' = shared_used_bytes - FromShared(pg, psize)

\* Mutant of CheckShouldPause: headroom in use is not a reason to pause.
PauseOnThresholdOnly(pg) == GetSharedUsed(pg) > GetPfcThreshold(pg[1])

CheckShouldPause(pg) ==
  \/ hdrm_bytes[pg] > 0
  \/ GetSharedUsed(pg) >= GetPfcThreshold(pg[1])

\* Mutant of CheckShouldResume: a group that holds nothing of the pool gets no
\* exemption from the resume offset.
ResumeBelowOffsetOnly(pg) ==
  /\ hdrm_bytes[pg] = 0
  /\ GetSharedUsed(pg) + ResumeOffset <= GetPfcThreshold(pg[1])

CheckShouldResume(pg) ==
  /\ hdrm_bytes[pg] = 0
  /\ \/ GetSharedUsed(pg) = 0
     \/ GetSharedUsed(pg) + ResumeOffset <= GetPfcThreshold(pg[1])

-----------------------------------------------------------------------------

Init ==
  /\ shared_used_bytes = 0
  /\ hdrm_bytes = [pg \in PriorityGroups |-> 0]
  /\ ingress_bytes = [pg \in PriorityGroups |-> 0]
  /\ paused = [pg \in PriorityGroups |-> FALSE]
  /\ queued = [pg \in PriorityGroups |-> 0]

\* SendToDev on a packet that passes admission.  CheckAndSendPfc reads the
\* accounting as this packet left it, for this packet's group only.
Admit(pg, psize) ==
  /\ CheckIngressAdmission(pg, psize)
  /\ UpdateIngressAdmission(pg, psize)
  /\ paused' = [paused EXCEPT ![pg] = @ \/ CheckShouldPause(pg)']
  /\ queued' = [queued EXCEPT ![pg] = @ + psize]

\* SwitchNotifyDequeue on a packet leaving the switch, CheckAndSendResume included.
Dequeue(pg, psize) ==
  /\ psize <= queued[pg]
  /\ RemoveFromIngressAdmission(pg, psize)
  /\ paused' = [paused EXCEPT ![pg] = @ /\ ~CheckShouldResume(pg)']
  /\ queued' = [queued EXCEPT ![pg] = @ - psize]

Next ==
  \E pg \in PriorityGroups, psize \in Sizes :
    \/ Admit(pg, psize)
    \/ Dequeue(pg, psize)

Spec == Init /\ [][Next]_vars

-----------------------------------------------------------------------------

\* Every variable has its type; in particular no unsigned counter of the code
\* is ever taken below zero by the subtractions of RemoveFromIngressAdmission.
TypeOK ==
  /\ shared_used_bytes \in Nat
  /\ hdrm_bytes \in [PriorityGroups -> Nat]
  /\ ingress_bytes \in [PriorityGroups -> Nat]
  /\ paused \in [PriorityGroups -> BOOLEAN]
  /\ queued \in [PriorityGroups -> Nat]

\* The bytes charged to a group are the bytes of its packets in the switch:
\* UpdateIngressAdmission and RemoveFromIngressAdmission split a packet over
\* reserve, pool and headroom differently, and still lose or invent none.
BytesConserved ==
  \A pg \in PriorityGroups : hdrm_bytes[pg] + ingress_bytes[pg] = queued[pg]

SharedUsed == [pg \in PriorityGroups |-> GetSharedUsed(pg)]

\* shared_used_bytes, which is only ever adjusted packet by packet, is the sum
\* over all groups of what each has above its reserve.
SharedPoolAccounted == shared_used_bytes = SumOf(SharedUsed)

\* The pool is never overdrawn, so the unsigned subtraction of GetPfcThreshold
\* does not wrap round to a threshold that would switch flow control off.
PoolNotOverdrawn == shared_used_bytes <= Pool

\* A group never charges more to the headroom than its port was given.
HeadroomRespected ==
  \A pg \in PriorityGroups : hdrm_bytes[pg] <= Headroom[pg[1]]

\* Headroom is used only behind a pause: while a group has bytes there, the
\* upstream device has been told to stop and not yet to go on.
HeadroomOnlyWhilePaused ==
  \A pg \in PriorityGroups : hdrm_bytes[pg] > 0 => paused[pg]

\* A paused group still has a packet in the switch.  Resume is only evaluated
\* when a packet of the group leaves, so an empty paused group would never be
\* resumed and its upstream device would stay silent for ever.
PausedHoldsBytes ==
  \A pg \in PriorityGroups : paused[pg] => queued[pg] > 0

\* CheckIngressAdmission drops a packet only in a group that is already
\* paused, provided the headroom of the port can hold one packet.
DropOnlyWhenPaused ==
  \A pg \in PriorityGroups, psize \in Sizes :
    /\ psize <= Headroom[pg[1]]
    /\ ~CheckIngressAdmission(pg, psize)
    => paused[pg]

\* The packets in the switch fit in the buffer as far as the budget of ConfigNPort
\* goes.  It counts headroom and reserve once per port, while they are spent once per
\* group: each further admission-controlled queue may overrun the buffer by as much.
WithinBuffer ==
  SumOf(queued)
    <= BufferSize + (Cardinality(Queues) - 1) * (TotalHdrm + TotalRsrv)

=============================================================================
