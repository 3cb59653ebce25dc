----------------------------- MODULE PfcHop_proofs -----------------------------
(***************************************************************************)
(* One PFC-controlled hop, for every delay of the link, packet size and    *)
(* buffer configuration: both ends agree, every pause has an end, and the  *)
(* headroom of three one-way delays loses nothing from a delay of three    *)
(* slots on.                                                               *)
(*                                                                         *)
(* The hop contains a memory manager, so the accounting theorems about     *)
(* SwitchMmu are used as they are (MmuProofs).                             *)
(***************************************************************************)
EXTENDS PfcHop, TLAPS

MmuProofs == INSTANCE SwitchMmu_proofs WITH
  Queues <- {Queue}, Headroom <- [p \in Ports |-> ConfigHdrm]

-----------------------------------------------------------------------------
(***************************************************************************)
(* The hop implements the memory manager.                                  *)
(***************************************************************************)
LEMMA MmuConstants == MmuProofs!ConstantsAssumption /\ MmuProofs!PoolAssumption
<1>1. MmuProofs!ConstantsAssumption
  BY MmuAssumption DEF Mmu!ConstantsAssumption, MmuProofs!ConstantsAssumption,
     Mmu!IsFiniteSet, MmuProofs!IsFiniteSet
<1>2. MmuProofs!PoolAssumption
  BY MmuAssumption DEF Mmu!PoolAssumption, MmuProofs!PoolAssumption,
     Mmu!Pool, MmuProofs!Pool, Mmu!TotalHdrm, MmuProofs!TotalHdrm,
     Mmu!TotalRsrv, MmuProofs!TotalRsrv, Mmu!Cardinality, MmuProofs!Cardinality,
     Mmu!SumOf, MmuProofs!SumOf, Mmu!UnitsOf, MmuProofs!UnitsOf
<1>3. QED
  BY <1>1, <1>2

LEMMA InitMmu == Mmu!Init => MmuProofs!Accounting
<1>1. MmuProofs!Init => MmuProofs!Accounting
  BY MmuConstants, MmuProofs!InitAccounting
     DEF MmuProofs!ConstantsAssumption, MmuProofs!PoolAssumption
<1>2. QED
  BY <1>1 DEF Mmu!Init, MmuProofs!Init, Mmu!PriorityGroups, MmuProofs!PriorityGroups

LEMMA NextMmu ==
  MmuProofs!Accounting /\ [MmuProofs!Next]_(MmuProofs!vars) => MmuProofs!Accounting'
  BY MmuConstants, MmuProofs!AccountingInductive
     DEF MmuProofs!ConstantsAssumption, MmuProofs!PoolAssumption

LEMMA SameThreshold == \A port \in Ports :
    /\ Mmu!GetPfcThreshold(port) = MmuProofs!GetPfcThreshold(port)
    /\ Mmu!GetPfcThreshold(port)' = MmuProofs!GetPfcThreshold(port)'
  BY DEF Mmu!GetPfcThreshold, MmuProofs!GetPfcThreshold,
     Mmu!Pool, MmuProofs!Pool, Mmu!TotalHdrm, MmuProofs!TotalHdrm,
     Mmu!TotalRsrv, MmuProofs!TotalRsrv, Mmu!Cardinality, MmuProofs!Cardinality,
     Mmu!SumOf, MmuProofs!SumOf, Mmu!UnitsOf, MmuProofs!UnitsOf

LEMMA SameAdmit ==
  ASSUME NEW port \in Ports, NEW psize \in Sizes, Mmu!Admit(<<port, Queue>>, psize)
  PROVE  MmuProofs!Next
<1>1. MmuProofs!Admit(<<port, Queue>>, psize)
  BY SameThreshold
     DEF Mmu!Admit, MmuProofs!Admit, Mmu!CheckIngressAdmission,
         MmuProofs!CheckIngressAdmission, Mmu!UpdateIngressAdmission,
         MmuProofs!UpdateIngressAdmission, Mmu!ChargeReserve, MmuProofs!ChargeReserve,
         Mmu!ChargeHeadroom, MmuProofs!ChargeHeadroom, Mmu!ChargePool,
         MmuProofs!ChargePool, Mmu!CheckShouldPause, MmuProofs!CheckShouldPause,
         Mmu!GetSharedUsed, MmuProofs!GetSharedUsed
<1>2. QED
  BY <1>1 DEF MmuProofs!Next, MmuProofs!PriorityGroups

LEMMA SameDequeue ==
  ASSUME NEW port \in Ports, NEW psize \in Sizes, Mmu!Dequeue(<<port, Queue>>, psize)
  PROVE  MmuProofs!Next
<1>1. MmuProofs!Dequeue(<<port, Queue>>, psize)
  BY SameThreshold
     DEF Mmu!Dequeue, MmuProofs!Dequeue, Mmu!RemoveFromIngressAdmission,
         MmuProofs!RemoveFromIngressAdmission, Mmu!FromHdrm, MmuProofs!FromHdrm,
         Mmu!FromShared, MmuProofs!FromShared, Mmu!CheckShouldResume,
         MmuProofs!CheckShouldResume, Mmu!GetSharedUsed, MmuProofs!GetSharedUsed
<1>2. QED
  BY <1>1 DEF MmuProofs!Next, MmuProofs!PriorityGroups

\* What the steps of the memory manager do to the group of the hop.
LEMMA GroupType ==
  /\ MmuProofs!Accounting => hdrm_bytes[pg] \in Nat /\ paused[pg] \in BOOLEAN
  /\ MmuProofs!Accounting' => hdrm_bytes'[pg] \in Nat /\ paused'[pg] \in BOOLEAN
  BY DEF MmuProofs!Accounting, MmuProofs!TypeOK, MmuProofs!PriorityGroups, pg, Ports

LEMMA AdmitEffect ==
  ASSUME MmuProofs!Accounting, NEW port \in Ports, NEW psize \in Sizes,
         Mmu!Admit(<<port, Queue>>, psize)
  PROVE  /\ port # Hop => UNCHANGED <<hdrm_bytes[pg], paused[pg]>>
         /\ port = Hop => /\ hdrm_bytes'[pg] <= hdrm_bytes[pg] + psize
                          /\ paused[pg] => paused'[pg]
<1> DEFINE group == <<port, Queue>>
<1>1. /\ psize \in Nat
      /\ group \in MmuProofs!PriorityGroups /\ pg \in MmuProofs!PriorityGroups
      /\ port # Hop => pg # group
      /\ port = Hop => pg = group
  BY MmuConstants DEF MmuProofs!ConstantsAssumption, MmuProofs!PriorityGroups, pg, Ports
<1>2. /\ hdrm_bytes \in [MmuProofs!PriorityGroups -> Nat]
      /\ paused \in [MmuProofs!PriorityGroups -> BOOLEAN]
  BY DEF MmuProofs!Accounting, MmuProofs!TypeOK
<1>3. paused' = [paused EXCEPT ![group] = @ \/ Mmu!CheckShouldPause(group)']
  BY DEF Mmu!Admit
<1>4. \/ hdrm_bytes' = hdrm_bytes
      \/ hdrm_bytes' = [hdrm_bytes EXCEPT ![group] = @ + psize]
  BY DEF Mmu!Admit, Mmu!UpdateIngressAdmission, Mmu!ChargeReserve, Mmu!ChargeHeadroom,
     Mmu!ChargePool
<1> HIDE DEF group
<1>5. port # Hop => paused'[pg] = paused[pg] /\ hdrm_bytes'[pg] = hdrm_bytes[pg]
  BY <1>1, <1>2, <1>3, <1>4
<1>6. port = Hop => hdrm_bytes'[pg] <= hdrm_bytes[pg] + psize
  BY <1>1, <1>2, <1>4
<1>7. port = Hop => (paused[pg] => paused'[pg])
  BY <1>1, <1>2, <1>3
<1>8. QED
  BY <1>5, <1>6, <1>7

LEMMA DequeueEffect ==
  ASSUME MmuProofs!Accounting, NEW port \in Ports, NEW psize \in Sizes,
         Mmu!Dequeue(<<port, Queue>>, psize)
  PROVE  /\ port # Hop => UNCHANGED <<hdrm_bytes[pg], paused[pg]>>
         /\ port = Hop => /\ hdrm_bytes'[pg] <= hdrm_bytes[pg]
                          /\ paused'[pg] => paused[pg]
<1> DEFINE group == <<port, Queue>>
<1>1. /\ psize \in Nat
      /\ group \in MmuProofs!PriorityGroups /\ pg \in MmuProofs!PriorityGroups
      /\ port # Hop => pg # group
      /\ port = Hop => pg = group
  BY MmuConstants DEF MmuProofs!ConstantsAssumption, MmuProofs!PriorityGroups, pg, Ports
<1>2. /\ hdrm_bytes \in [MmuProofs!PriorityGroups -> Nat]
      /\ paused \in [MmuProofs!PriorityGroups -> BOOLEAN]
  BY DEF MmuProofs!Accounting, MmuProofs!TypeOK
<1>3. paused' = [paused EXCEPT ![group] = @ /\ ~Mmu!CheckShouldResume(group)']
  BY DEF Mmu!Dequeue
<1>4. hdrm_bytes' = [hdrm_bytes EXCEPT ![group] = @ - Mmu!FromHdrm(group, psize)]
  BY DEF Mmu!Dequeue, Mmu!RemoveFromIngressAdmission
<1>5. Mmu!FromHdrm(group, psize) \in Nat
  BY <1>1, <1>2 DEF Mmu!FromHdrm
<1> HIDE DEF group
<1>6. port # Hop => paused'[pg] = paused[pg] /\ hdrm_bytes'[pg] = hdrm_bytes[pg]
  BY <1>1, <1>2, <1>3, <1>4
<1>7. port = Hop => hdrm_bytes'[pg] <= hdrm_bytes[pg]
  BY <1>1, <1>2, <1>4, <1>5
<1>8. port = Hop => (paused'[pg] => paused[pg])
  BY <1>1, <1>2, <1>3
<1>9. QED
  BY <1>6, <1>7, <1>8

-----------------------------------------------------------------------------
(***************************************************************************)
(* Frames keep their order on the link.                                    *)
(***************************************************************************)
LEMMA Nothing ==
  \A S : <<>> \in Seq(S) /\ Len(<<>>) = 0
  OBVIOUS

LEMMA Elements ==
  ASSUME NEW S, NEW s \in Seq(S)
  PROVE  /\ Len(s) \in Nat /\ DOMAIN s = 1..Len(s)
         /\ \A i \in 1..Len(s) : s[i] \in S
         /\ s # <<>> => Len(s) >= 1 /\ Head(s) = s[1] /\ s[1] \in S
  OBVIOUS

LEMMA Shortened ==
  ASSUME NEW S, NEW s \in Seq(S), s # <<>>
  PROVE  /\ Tail(s) \in Seq(S) /\ Len(Tail(s)) = Len(s) - 1
         /\ \A i \in 1..Len(Tail(s)) : Tail(s)[i] = s[i + 1]
  OBVIOUS

LEMMA Extended ==
  ASSUME NEW S, NEW s \in Seq(S), NEW x \in S
  PROVE  /\ Append(s, x) \in Seq(S) /\ Len(Append(s, x)) = Len(s) + 1
         /\ \A i \in 1..Len(s) : Append(s, x)[i] = s[i]
         /\ Append(s, x)[Len(s) + 1] = x
  OBVIOUS

LEMMA Rebuilt ==
  ASSUME NEW S, NEW n \in Nat, NEW s, s = [i \in 1..n |-> s[i]], \A i \in 1..n : s[i] \in S
  PROVE  s \in Seq(S) /\ Len(s) = n
  OBVIOUS

Frames == {"pause", "resume"}
OnLink == [size : Sizes, left : 0..(Delay + 1)]
OnLinkBack == [kind : Frames, left : 0..Delay]

\* Packets are a slot apart, one that has just been sent being the last.
ForwardInOrder ==
  /\ forward \in Seq(OnLink)
  /\ \A i, j \in 1..Len(forward) :
       i < j => forward[i].left + (j - i) <= forward[j].left
  /\ m_busy \in BOOLEAN
  /\ ~m_busy => \A i \in 1..Len(forward) : forward[i].left <= Delay

BackwardInOrder ==
  /\ pfcQueue \in Seq(Frames)
  /\ pfcWaited \in 0..Len(pfcQueue)
  /\ backward \in Seq(OnLinkBack)
  /\ \A i, j \in 1..Len(backward) : i < j => backward[i].left <= backward[j].left
  /\ m_paused \in BOOLEAN
  /\ corrupted \in Nat

\* The last PFC frame on its way says what the memory manager wants.
Told == IF paused[pg] THEN "pause" ELSE "resume"

LastFrameTells ==
  /\ pfcQueue # <<>> => pfcQueue[Len(pfcQueue)] = Told
  /\ pfcQueue = <<>> /\ backward # <<>> => backward[Len(backward)].kind = Told
  /\ pfcQueue = <<>> /\ backward = <<>> /\ corrupted = 0 => m_paused = paused[pg]

Orderly == MmuProofs!Accounting /\ ForwardInOrder /\ BackwardInOrder /\ LastFrameTells

LEMMA InitOrderly == Init => Orderly
<1> SUFFICES ASSUME Init PROVE Orderly
  OBVIOUS
<1>1. MmuProofs!Accounting
  BY InitMmu DEF Init
<1>2. /\ forward \in Seq(OnLink) /\ backward \in Seq(OnLinkBack)
      /\ pfcQueue \in Seq(Frames)
      /\ 1..Len(forward) = {} /\ 1..Len(backward) = {} /\ Len(pfcQueue) = 0
  BY Nothing DEF Init
<1>2a. m_busy \in BOOLEAN /\ m_paused \in BOOLEAN
  BY ZenonT(30) DEF Init
<1>2b. pfcWaited = 0 /\ corrupted = 0
  BY DEF Init
<1>2c. ForwardInOrder /\ BackwardInOrder
  BY <1>2, <1>2a, <1>2b DEF ForwardInOrder, BackwardInOrder
<1>3. paused[pg] = FALSE
  BY DEF Init, Mmu!Init, Mmu!PriorityGroups, pg, Ports
<1>4. LastFrameTells
  BY <1>3 DEF Init, LastFrameTells, Told
<1>5. QED
  BY <1>1, <1>2c, <1>4 DEF Orderly


LEMMA HeadOfForward ==
  ASSUME ForwardInOrder, Due(forward)
  PROVE  /\ Head(forward).size \in Sizes
         /\ forward # <<>> /\ Head(forward) = forward[1] /\ forward[1].left = 0
<1>1. forward \in Seq(OnLink) /\ forward # <<>> /\ Head(forward).left = 0
  BY DEF ForwardInOrder, Due
<1>2. Head(forward) \in OnLink /\ Head(forward) = forward[1]
  BY <1>1, Elements
<1>3. QED
  BY <1>1, <1>2 DEF OnLink

LEMMA StaysInMmu ==
  ASSUME MmuProofs!Accounting, ForwardInOrder, [Next]_vars
  PROVE  MmuProofs!Accounting'
<1>1. CASE UNCHANGED mmuVars
  BY <1>1, NextMmu DEF mmuVars, MmuProofs!vars
<1>2. CASE Arrive
  <2>1. Head(forward).size \in Sizes
    BY <1>2, HeadOfForward DEF Arrive
  <2>2. Mmu!Admit(<<Hop, Queue>>, Head(forward).size)
    BY <1>2 DEF Arrive, pg
  <2>3. QED
    BY <2>1, <2>2, SameAdmit, NextMmu DEF Ports
<1>3. CASE Leave
  BY <1>3, SameDequeue, NextMmu DEF Leave, pg, Ports
<1>4. CASE Other
  BY <1>4, SameAdmit, SameDequeue, NextMmu DEF Other, Ports
<1>5. QED
  BY <1>1, <1>2, <1>3, <1>4
     DEF Next, vars, Send, Drop, TransmitPfc, ReceivePfc, Corrupt, Tick

-----------------------------------------------------------------------------

LEMMA ForwardType ==
  ASSUME ForwardInOrder
  PROVE  \A i \in 1..Len(forward) : forward[i].left \in 0..(Delay + 1)
                                    /\ forward[i].size \in Sizes
<1>1. \A i \in 1..Len(forward) : forward[i] \in OnLink
  BY Elements DEF ForwardInOrder
<1>2. QED
  BY <1>1 DEF OnLink

LEMMA SendInOrder ==
  ASSUME ForwardInOrder, Send
  PROVE  ForwardInOrder' /\ Len(forward') = Len(forward) + 1
<1>1. PICK psize \in Sizes : forward' = Append(forward, [size |-> psize, left |-> Delay + 1])
  BY DEF Send
<1> DEFINE packet == [size |-> psize, left |-> Delay + 1]
           n == Len(forward)
<1>2. packet \in OnLink /\ packet.left = Delay + 1
  BY HopAssumption DEF OnLink
<1>3. forward \in Seq(OnLink) /\ n \in Nat /\ Delay \in Nat
  <2>1. forward \in Seq(OnLink)
    BY DEF ForwardInOrder
  <2>2. QED
    BY <2>1, Elements, HopAssumption
<1>4. /\ \A i, j \in 1..n : i < j => forward[i].left + (j - i) <= forward[j].left
      /\ \A i \in 1..n : forward[i].left \in Int /\ forward[i].left <= Delay
  <2>1. /\ \A i, j \in 1..n : i < j => forward[i].left + (j - i) <= forward[j].left
        /\ \A i \in 1..n : forward[i].left <= Delay
    BY Zenon DEF ForwardInOrder, Send
  <2>2. \A i \in 1..n : forward[i].left \in Int
    BY <1>3, ForwardType
  <2>3. QED
    BY <2>1, <2>2
<1> HIDE DEF packet
<1>5. /\ forward' \in Seq(OnLink) /\ Len(forward') = n + 1
      /\ \A i \in 1..n : forward'[i] = forward[i]
      /\ forward'[n + 1] = packet
  BY <1>1, <1>2, <1>3, Extended DEF packet
<1> HIDE DEF n
<1>6. \A i \in 1..n : forward[i].left + (n + 1 - i) <= Delay + 1
  <2> SUFFICES ASSUME NEW i \in 1..n
               PROVE  forward[i].left + (n + 1 - i) <= Delay + 1
    OBVIOUS
  <2>1. i = n \/ forward[i].left + (n - i) <= forward[n].left
    BY <1>3, <1>4
  <2>2. forward[n].left \in Int /\ forward[n].left <= Delay /\ forward[i].left \in Int
    BY <1>3, <1>4
  <2>3. QED
    BY <1>3, <2>1, <2>2
<1>7. \A i, j \in 1..(n + 1) :
        i < j => forward'[i].left + (j - i) <= forward'[j].left
  <2> SUFFICES ASSUME NEW i \in 1..(n + 1), NEW j \in 1..(n + 1), i < j
               PROVE  forward'[i].left + (j - i) <= forward'[j].left
    OBVIOUS
  <2>1. i \in 1..n /\ forward'[i] = forward[i]
    BY <1>3, <1>5
  <2>2. CASE j = n + 1
    <3>1. forward'[j] = packet
      BY <1>5, <2>2
    <3>2. forward'[j].left = Delay + 1
      BY <1>2, <3>1
    <3>3. forward[i].left + (j - i) <= Delay + 1
      BY <1>3, <1>6, <2>1, <2>2
    <3>4. QED
      BY <2>1, <3>2, <3>3
  <2>3. CASE j \in 1..n
    <3>1. forward'[j] = forward[j]
      BY <1>5, <2>3
    <3>2. QED
      BY <1>4, <2>1, <2>3, <3>1
  <2>4. QED
    BY <1>3, <2>2, <2>3
<1>8. m_busy' = TRUE
  BY DEF Send
<1>9. QED
  BY <1>5, <1>7, <1>8 DEF ForwardInOrder, n

LEMMA TailInOrder ==
  ASSUME ForwardInOrder, forward # <<>>, forward' = Tail(forward), m_busy' = m_busy
  PROVE  ForwardInOrder' /\ Len(forward') = Len(forward) - 1
<1>1. forward \in Seq(OnLink) /\ Len(forward) \in Nat
  BY Elements DEF ForwardInOrder
<1>2. /\ forward' \in Seq(OnLink) /\ Len(forward') = Len(forward) - 1
      /\ \A i \in 1..Len(forward') : forward'[i] = forward[i + 1]
  BY <1>1, Shortened
<1>3. \A i \in 1..Len(forward') : i + 1 \in 1..Len(forward)
  BY <1>1, <1>2
<1>4. \A i, j \in 1..Len(forward') :
        i < j => forward'[i].left + (j - i) <= forward'[j].left
  <2> SUFFICES ASSUME NEW i \in 1..Len(forward'), NEW j \in 1..Len(forward'), i < j
               PROVE  forward'[i].left + (j - i) <= forward'[j].left
    OBVIOUS
  <2>1. forward[i + 1].left + ((j + 1) - (i + 1)) <= forward[j + 1].left
    BY <1>3 DEF ForwardInOrder
  <2>2. (j + 1) - (i + 1) = j - i
    OBVIOUS
  <2>3. QED
    BY <1>2, <2>1, <2>2
<1>5. ~m_busy' => \A i \in 1..Len(forward') : forward'[i].left <= Delay
  BY <1>2, <1>3 DEF ForwardInOrder
<1>6. m_busy' \in BOOLEAN
  BY DEF ForwardInOrder
<1>7. QED
  BY <1>2, <1>4, <1>5, <1>6 DEF ForwardInOrder

LEMMA TickInOrder ==
  ASSUME ForwardInOrder, Tick
  PROVE  ForwardInOrder' /\ Len(forward') = Len(forward)
<1> DEFINE n == Len(forward)
<1>1. /\ forward \in Seq(OnLink) /\ n \in Nat /\ DOMAIN forward = 1..n
      /\ Delay \in Nat
      /\ forward # <<>> => Head(forward) = forward[1]
      /\ n >= 1 => forward # <<>>
  BY Elements, HopAssumption DEF ForwardInOrder
<1>2. /\ \A i, j \in 1..n : i < j => forward[i].left + (j - i) <= forward[j].left
      /\ \A i \in 1..n : forward[i].left \in 0..(Delay + 1)
      /\ \A i \in 1..n : forward[i] \in OnLink
  BY ForwardType, Elements DEF ForwardInOrder
<1>3. forward' = [i \in 1..n |-> [forward[i] EXCEPT !.left = @ - 1]]
  BY <1>1 DEF Tick, Closer
<1>4. n >= 1 => forward[1].left # 0
  BY <1>1 DEF Tick, Due
<1> HIDE DEF n
<1>5. \A i \in 1..n : forward[i].left \in 1..(Delay + 1)
  BY <1>1, <1>2, <1>4
<1>6. \A i \in 1..n : /\ forward'[i] \in OnLink
                      /\ forward'[i].left = forward[i].left - 1
  <2> SUFFICES ASSUME NEW i \in 1..n
               PROVE  /\ forward'[i] \in OnLink
                      /\ forward'[i].left = forward[i].left - 1
    OBVIOUS
  <2>1. forward'[i] = [forward[i] EXCEPT !.left = @ - 1]
    BY <1>3
  <2>2. forward[i] \in [size : Sizes, left : 0..(Delay + 1)]
    BY <1>2 DEF OnLink
  <2> DEFINE f == forward[i]
  <2> HIDE DEF f
  <2>3. \A L : [f EXCEPT !.left = L].left = L /\ [f EXCEPT !.left = L].size = f.size
    BY <2>2 DEF f
  <2>4. \A L \in 0..(Delay + 1) : [f EXCEPT !.left = L] \in OnLink
    BY <2>2 DEF f, OnLink
  <2>5. f.left - 1 \in 0..(Delay + 1)
    BY <1>1, <1>5 DEF f
  <2>6. QED
    BY <2>1, <2>3, <2>4, <2>5 DEF f
<1>7. forward' \in Seq(OnLink) /\ Len(forward') = n
  <2>1. forward' = [i \in 1..n |-> forward'[i]]
    BY <1>3
  <2>2. QED
    BY <1>1, <1>6, <2>1, Rebuilt
<1>8. \A i, j \in 1..n : i < j => forward'[i].left + (j - i) <= forward'[j].left
  <2> SUFFICES ASSUME NEW i \in 1..n, NEW j \in 1..n, i < j
               PROVE  forward'[i].left + (j - i) <= forward'[j].left
    OBVIOUS
  <2>1. forward[i].left + (j - i) <= forward[j].left
    BY <1>2
  <2>2. /\ forward[i].left \in Int /\ forward[j].left \in Int
        /\ forward'[i].left = forward[i].left - 1 /\ forward'[j].left = forward[j].left - 1
    BY <1>2, <1>6
  <2>3. QED
    BY <1>1, <2>1, <2>2
<1>9. \A i \in 1..n : forward'[i].left <= Delay
  BY <1>1, <1>5, <1>6
<1>10. m_busy' = FALSE
  BY DEF Tick
<1>11. QED
  BY <1>7, <1>8, <1>9, <1>10 DEF ForwardInOrder, n

LEMMA NextForward ==
  ASSUME ForwardInOrder, [Next]_vars
  PROVE  ForwardInOrder'
<1>1. CASE Send
  BY <1>1, SendInOrder
<1>2. CASE Tick
  BY <1>2, TickInOrder
<1>3. CASE forward' = Tail(forward) /\ forward # <<>> /\ m_busy' = m_busy
  BY <1>3, TailInOrder
<1>4. CASE UNCHANGED <<forward, m_busy>>
  BY <1>4 DEF ForwardInOrder
<1>5. QED
  BY <1>1, <1>2, <1>3, <1>4
     DEF Next, vars, linkVars, Arrive, Drop, Leave, Other, TransmitPfc, ReceivePfc, Corrupt, Due

LEMMA BackwardType ==
  ASSUME BackwardInOrder
  PROVE  \A i \in 1..Len(backward) : backward[i].left \in 0..Delay
                                     /\ backward[i].kind \in Frames
<1>1. \A i \in 1..Len(backward) : backward[i] \in OnLinkBack
  BY Elements DEF BackwardInOrder
<1>2. QED
  BY <1>1 DEF OnLinkBack

\* The queue of PFC frames after the manager has decided.
LEMMA QueueInOrder ==
  ASSUME BackwardInOrder, SendPfc, UNCHANGED <<backward, m_paused, corrupted, pfcWaited>>
  PROVE  BackwardInOrder'
<1>1. Pfc \in Frames
  BY DEF Pfc, Frames
<1>2. pfcQueue \in Seq(Frames) /\ Len(pfcQueue) \in Nat
  BY Elements DEF BackwardInOrder
<1>3. pfcQueue' \in Seq(Frames) /\ Len(pfcQueue) <= Len(pfcQueue') /\ Len(pfcQueue') \in Nat
  BY <1>1, <1>2, Extended DEF SendPfc
<1>4. pfcWaited' \in 0..Len(pfcQueue')
  BY <1>2, <1>3 DEF BackwardInOrder
<1>5. QED
  BY <1>3, <1>4 DEF BackwardInOrder

LEMMA TransmitInOrder ==
  ASSUME BackwardInOrder, TransmitPfc
  PROVE  /\ BackwardInOrder'
         /\ Len(pfcQueue') = Len(pfcQueue) - 1
         /\ backward' # <<>>
         /\ backward'[Len(backward')].left = Delay
         /\ backward'[Len(backward')].kind = pfcQueue[1]
<1> DEFINE frame == [kind |-> Head(pfcQueue), left |-> Delay]
           n == Len(backward)
<1>1. /\ pfcQueue \in Seq(Frames) /\ pfcQueue # <<>> /\ Len(pfcQueue) \in Nat
      /\ backward \in Seq(OnLinkBack) /\ n \in Nat /\ Delay \in Nat
      /\ Head(pfcQueue) \in Frames /\ Head(pfcQueue) = pfcQueue[1]
      /\ pfcWaited \in 0..Len(pfcQueue) /\ Len(pfcQueue) >= 1
  BY Elements, HopAssumption DEF BackwardInOrder, TransmitPfc
<1>2. frame \in OnLinkBack /\ frame.left = Delay /\ frame.kind = pfcQueue[1]
  BY <1>1 DEF OnLinkBack
<1> HIDE DEF frame
<1>3. /\ backward' \in Seq(OnLinkBack) /\ Len(backward') = n + 1
      /\ \A i \in 1..n : backward'[i] = backward[i]
      /\ backward'[n + 1] = frame
  <2>1. backward' = Append(backward, frame)
    BY DEF TransmitPfc, frame
  <2>2. QED
    BY <1>1, <1>2, <2>1, Extended
<1>4. /\ \A i, j \in 1..n : i < j => backward[i].left <= backward[j].left
      /\ \A i \in 1..n : backward[i].left \in Int /\ backward[i].left <= Delay
  BY <1>1, BackwardType DEF BackwardInOrder
<1>5. pfcQueue' \in Seq(Frames) /\ Len(pfcQueue') = Len(pfcQueue) - 1
  BY <1>1, Shortened DEF TransmitPfc
<1>6. pfcWaited' \in 0..Len(pfcQueue')
  BY <1>1, <1>5 DEF TransmitPfc
<1>7. UNCHANGED <<m_paused, corrupted>>
  BY DEF TransmitPfc
<1> HIDE DEF n
<1>8. \A i, j \in 1..(n + 1) : i < j => backward'[i].left <= backward'[j].left
  <2> SUFFICES ASSUME NEW i \in 1..(n + 1), NEW j \in 1..(n + 1), i < j
               PROVE  backward'[i].left <= backward'[j].left
    OBVIOUS
  <2>1. i \in 1..n /\ backward'[i] = backward[i]
    BY <1>1, <1>3
  <2>2. CASE j = n + 1
    <3>1. backward'[j].left = Delay
      BY <1>2, <1>3, <2>2
    <3>2. QED
      BY <1>4, <2>1, <3>1
  <2>3. CASE j \in 1..n
    BY <1>3, <1>4, <2>1, <2>3
  <2>4. QED
    BY <1>1, <2>2, <2>3
<1>9. backward' # <<>>
  BY <1>1, <1>3
<1>10. QED
  BY <1>2, <1>3, <1>5, <1>6, <1>7, <1>8, <1>9 DEF BackwardInOrder, n

LEMMA TailInOrderBack ==
  ASSUME BackwardInOrder, backward # <<>>, backward' = Tail(backward),
         UNCHANGED <<pfcQueue, pfcWaited>>, m_paused' \in BOOLEAN, corrupted' \in Nat
  PROVE  /\ BackwardInOrder'
         /\ Len(backward') = Len(backward) - 1
         /\ backward' # <<>> => backward'[Len(backward')] = backward[Len(backward)]
<1>1. backward \in Seq(OnLinkBack) /\ Len(backward) \in Nat
  BY Elements DEF BackwardInOrder
<1>2. /\ backward' \in Seq(OnLinkBack) /\ Len(backward') = Len(backward) - 1
      /\ \A i \in 1..Len(backward') : backward'[i] = backward[i + 1]
      /\ backward' # <<>> => Len(backward') >= 1
  BY <1>1, Shortened, Elements
<1>3. \A i \in 1..Len(backward') : i + 1 \in 1..Len(backward)
  BY <1>1, <1>2
<1>4. \A i, j \in 1..Len(backward') : i < j => backward'[i].left <= backward'[j].left
  <2> SUFFICES ASSUME NEW i \in 1..Len(backward'), NEW j \in 1..Len(backward'), i < j
               PROVE  backward'[i].left <= backward'[j].left
    OBVIOUS
  <2>1. i + 1 < j + 1
    OBVIOUS
  <2>2. QED
    BY <1>2, <1>3, <2>1 DEF BackwardInOrder
<1>5. QED
  BY <1>1, <1>2, <1>4 DEF BackwardInOrder

LEMMA TickInOrderBack ==
  ASSUME BackwardInOrder, Tick
  PROVE  /\ BackwardInOrder'
         /\ Len(backward') = Len(backward)
         /\ \A i \in 1..Len(backward) : /\ backward'[i].left = backward[i].left - 1
                                        /\ backward'[i].kind = backward[i].kind
<1> DEFINE n == Len(backward)
<1>1. /\ backward \in Seq(OnLinkBack) /\ n \in Nat /\ DOMAIN backward = 1..n
      /\ Delay \in Nat
      /\ backward # <<>> => Head(backward) = backward[1]
      /\ n >= 1 => backward # <<>>
  BY Elements, HopAssumption DEF BackwardInOrder
<1>2. /\ \A i, j \in 1..n : i < j => backward[i].left <= backward[j].left
      /\ \A i \in 1..n : backward[i].left \in 0..Delay
      /\ \A i \in 1..n : backward[i] \in OnLinkBack
  BY BackwardType, Elements DEF BackwardInOrder
<1>3. backward' = [i \in 1..n |-> [backward[i] EXCEPT !.left = @ - 1]]
  BY <1>1 DEF Tick, Closer
<1>4. n >= 1 => backward[1].left # 0
  BY <1>1 DEF Tick, Due
<1> HIDE DEF n
<1>5. \A i \in 1..n : backward[i].left \in 1..Delay
  BY <1>1, <1>2, <1>4
<1>6. \A i \in 1..n : /\ backward'[i] \in OnLinkBack
                      /\ backward'[i].left = backward[i].left - 1
                      /\ backward'[i].kind = backward[i].kind
  <2> SUFFICES ASSUME NEW i \in 1..n
               PROVE  /\ backward'[i] \in OnLinkBack
                      /\ backward'[i].left = backward[i].left - 1
                      /\ backward'[i].kind = backward[i].kind
    OBVIOUS
  <2>1. backward'[i] = [backward[i] EXCEPT !.left = @ - 1]
    BY <1>3
  <2>2. backward[i] \in [kind : Frames, left : 0..Delay]
    BY <1>2 DEF OnLinkBack
  <2> DEFINE f == backward[i]
  <2> HIDE DEF f
  <2>3. \A L : [f EXCEPT !.left = L].left = L /\ [f EXCEPT !.left = L].kind = f.kind
    BY <2>2 DEF f
  <2>4. \A L \in 0..Delay : [f EXCEPT !.left = L] \in OnLinkBack
    BY <2>2 DEF f, OnLinkBack
  <2>5. f.left - 1 \in 0..Delay
    BY <1>1, <1>5 DEF f
  <2>6. QED
    BY <2>1, <2>3, <2>4, <2>5 DEF f
<1>7. backward' \in Seq(OnLinkBack) /\ Len(backward') = n
  <2>1. backward' = [i \in 1..n |-> backward'[i]]
    BY <1>3
  <2>2. QED
    BY <1>1, <1>6, <2>1, Rebuilt
<1>8. \A i, j \in 1..n : i < j => backward'[i].left <= backward'[j].left
  <2> SUFFICES ASSUME NEW i \in 1..n, NEW j \in 1..n, i < j
               PROVE  backward'[i].left <= backward'[j].left
    OBVIOUS
  <2>1. backward[i].left <= backward[j].left
    BY <1>2
  <2>2. QED
    BY <1>2, <1>6, <2>1
<1>9. /\ UNCHANGED <<m_paused, corrupted, pfcQueue>> /\ pfcWaited' = Len(pfcQueue)
      /\ Len(pfcQueue) \in Nat
  BY Elements DEF Tick, BackwardInOrder
<1>10. QED
  BY <1>6, <1>7, <1>8, <1>9 DEF BackwardInOrder, n

LEMMA DecisionTold ==
  ASSUME BackwardInOrder, LastFrameTells, SendPfc,
         paused[pg] \in BOOLEAN, paused'[pg] \in BOOLEAN,
         UNCHANGED <<backward, m_paused, corrupted>>
  PROVE  LastFrameTells'
<1>1. CASE paused'[pg] = paused[pg]
  <2>1. pfcQueue' = pfcQueue
    BY <1>1 DEF SendPfc
  <2>2. Told' = Told
    BY <1>1 DEF Told
  <2>3. QED
    BY <1>1, <2>1, <2>2 DEF LastFrameTells
<1>2. CASE paused'[pg] # paused[pg]
  <2>1. Pfc = Told' /\ Pfc \in Frames
    BY DEF Pfc, Told, Frames
  <2>2. pfcQueue' = Append(pfcQueue, Pfc)
    BY <1>2 DEF SendPfc
  <2>3. pfcQueue \in Seq(Frames) /\ Len(pfcQueue) \in Nat
    BY Elements DEF BackwardInOrder
  <2>4. pfcQueue' # <<>> /\ pfcQueue'[Len(pfcQueue')] = Told'
    BY <2>1, <2>2, <2>3, Extended
  <2>5. QED
    BY <2>4 DEF LastFrameTells
<1>3. QED
  BY <1>1, <1>2

LEMMA NextTells ==
  ASSUME Orderly, MmuProofs!Accounting', [Next]_vars
  PROVE  BackwardInOrder' /\ LastFrameTells'
<1>1. /\ MmuProofs!Accounting /\ ForwardInOrder /\ BackwardInOrder /\ LastFrameTells
      /\ paused[pg] \in BOOLEAN /\ paused'[pg] \in BOOLEAN
  BY GroupType DEF Orderly
<1> DEFINE linkBack == <<pfcQueue, pfcWaited, backward, m_paused, corrupted>>
<1>2. CASE UNCHANGED <<linkBack, paused>>
  <2>1. Told' = Told
    BY <1>2 DEF Told
  <2>2. QED
    BY <1>1, <1>2, <2>1 DEF BackwardInOrder, LastFrameTells
<1>3. CASE Arrive \/ Leave
  <2>1. SendPfc /\ UNCHANGED <<backward, m_paused, corrupted, pfcWaited>>
    BY <1>3 DEF Arrive, Leave, linkVars
  <2>2. QED
    BY <1>1, <2>1, QueueInOrder, DecisionTold
<1>4. CASE Other
  <2>1. paused'[pg] = paused[pg]
    <3>1. PICK port \in Others, psize \in Sizes :
            \/ Mmu!Admit(<<port, Queue>>, psize)
            \/ Mmu!Dequeue(<<port, Queue>>, psize)
      BY <1>4 DEF Other
    <3>2. port \in Ports /\ port # Hop
      BY HopAssumption DEF Ports
    <3>3. QED
      BY <1>1, <3>1, <3>2, AdmitEffect, DequeueEffect
  <2>2. UNCHANGED linkBack
    BY <1>4 DEF Other, linkVars
  <2>3. Told' = Told
    BY <2>1 DEF Told
  <2>4. QED
    BY <1>1, <2>1, <2>2, <2>3 DEF BackwardInOrder, LastFrameTells
<1>5. CASE TransmitPfc
  <2>1. /\ BackwardInOrder' /\ backward' # <<>>
        /\ Len(pfcQueue') = Len(pfcQueue) - 1
        /\ backward'[Len(backward')].kind = pfcQueue[1]
    BY <1>1, <1>5, TransmitInOrder
  <2>2. Told' = Told
    BY <1>5 DEF TransmitPfc, mmuVars, Told
  <2>3. /\ pfcQueue \in Seq(Frames) /\ Len(pfcQueue) \in Nat /\ pfcQueue # <<>>
        /\ pfcQueue' = Tail(pfcQueue) /\ pfcQueue' \in Seq(Frames)
        /\ \A i \in 1..Len(pfcQueue') : pfcQueue'[i] = pfcQueue[i + 1]
    BY <1>1, <1>5, Elements, Shortened DEF TransmitPfc, BackwardInOrder
  <2>4. pfcQueue[Len(pfcQueue)] = Told
    BY <1>1, <2>3 DEF LastFrameTells
  <2>5. CASE pfcQueue' = <<>>
    <3>1. Len(pfcQueue') = 0
      BY <2>5
    <3>2. Len(pfcQueue) = 1
      BY <2>1, <2>3, <3>1
    <3>3. QED
      BY <2>1, <2>2, <2>4, <2>5, <3>2 DEF LastFrameTells
  <2>6. CASE pfcQueue' # <<>>
    <3>1. Len(pfcQueue') >= 1
      BY <2>3, <2>6, Elements
    <3>2. pfcQueue'[Len(pfcQueue')] = pfcQueue[Len(pfcQueue)]
      BY <2>1, <2>3, <3>1
    <3>3. QED
      BY <2>1, <2>2, <2>4, <2>6, <3>2 DEF LastFrameTells
  <2>7. QED
    BY <2>1, <2>5, <2>6
<1>6. CASE ReceivePfc
  <2>1. /\ backward # <<>> /\ backward' = Tail(backward)
        /\ UNCHANGED <<pfcQueue, pfcWaited, paused, corrupted>>
        /\ m_paused' = (Head(backward).kind = "pause")
    BY <1>6 DEF ReceivePfc, Due, mmuVars
  <2>2. m_paused' \in BOOLEAN /\ corrupted' \in Nat
    BY <1>1, <2>1 DEF BackwardInOrder
  <2>3. /\ BackwardInOrder'
        /\ Len(backward') = Len(backward) - 1
        /\ backward' # <<>> => backward'[Len(backward')] = backward[Len(backward)]
    BY <1>1, <2>1, <2>2, TailInOrderBack
  <2>4. Told' = Told
    BY <2>1 DEF Told
  <2>5. Head(backward) = backward[1] /\ Len(backward) \in Nat
    BY <1>1, <2>1, Elements DEF BackwardInOrder
  <2>6. CASE pfcQueue = <<>> /\ backward' = <<>>
    <3>1. Len(backward) = 1
      BY <2>3, <2>5, <2>6
    <3>2. Head(backward).kind = Told
      BY <1>1, <2>1, <2>5, <2>6, <3>1 DEF LastFrameTells
    <3>3. m_paused' = paused[pg]
      BY <1>1, <2>1, <3>2 DEF Told
    <3>4. QED
      BY <2>1, <2>3, <2>6, <3>3 DEF LastFrameTells
  <2>7. CASE pfcQueue # <<>> \/ backward' # <<>>
    BY <1>1, <2>1, <2>3, <2>4, <2>7 DEF LastFrameTells
  <2>8. QED
    BY <2>6, <2>7
<1>7. CASE Corrupt
  <2>1. /\ UNCHANGED <<pfcQueue, pfcWaited, paused, m_paused>>
        /\ corrupted' = corrupted + 1
        /\ \/ UNCHANGED backward
           \/ backward # <<>> /\ backward' = Tail(backward)
    BY <1>7 DEF Corrupt, Due, mmuVars
  <2>2. corrupted' \in Nat /\ corrupted' # 0 /\ m_paused' \in BOOLEAN
    BY <1>1, <2>1 DEF BackwardInOrder
  <2>3. Told' = Told
    BY <2>1 DEF Told
  <2>4. CASE UNCHANGED backward
    BY <1>1, <2>1, <2>2, <2>3, <2>4 DEF BackwardInOrder, LastFrameTells
  <2>5. CASE backward # <<>> /\ backward' = Tail(backward)
    <3>1. /\ BackwardInOrder'
          /\ backward' # <<>> => backward'[Len(backward')] = backward[Len(backward)]
      BY <1>1, <2>1, <2>2, <2>5, TailInOrderBack
    <3>2. /\ pfcQueue' = pfcQueue /\ corrupted' # 0
          /\ pfcQueue # <<>> => pfcQueue[Len(pfcQueue)] = Told
          /\ pfcQueue = <<>> /\ backward # <<>> => backward[Len(backward)].kind = Told
      BY <1>1, <2>1, <2>2, Zenon DEF LastFrameTells
    <3>3. QED
      BY <2>3, <2>5, <3>1, <3>2, Zenon DEF LastFrameTells
  <2>6. QED
    BY <2>1, <2>4, <2>5
<1>8. CASE Tick
  <2>1. /\ BackwardInOrder'
        /\ Len(backward') = Len(backward)
        /\ \A i \in 1..Len(backward) : backward'[i].kind = backward[i].kind
    BY <1>1, <1>8, TickInOrderBack
  <2>2. UNCHANGED <<pfcQueue, paused, m_paused, corrupted>> /\ Told' = Told
    BY <1>8 DEF Tick, mmuVars, Told
  <2>3. /\ backward' \in Seq(OnLinkBack) /\ backward \in Seq(OnLinkBack)
        /\ backward # <<>> => Len(backward) \in 1..Len(backward)
        /\ backward' # <<>> <=> backward # <<>>
    BY <1>1, <2>1, Elements DEF BackwardInOrder
  <2>4. QED
    BY <1>1, <2>1, <2>2, <2>3 DEF LastFrameTells
<1>9. CASE Send \/ Drop \/ UNCHANGED vars
  <2>1. UNCHANGED <<linkBack, paused>>
    BY <1>9 DEF Send, Drop, vars, linkVars, mmuVars
  <2>2. QED
    BY <1>2, <2>1
<1>10. QED
  BY <1>3, <1>4, <1>5, <1>6, <1>7, <1>8, <1>9 DEF Next

LEMMA NextOrderly == Orderly /\ [Next]_vars => Orderly'
  BY StaysInMmu, NextForward, NextTells DEF Orderly

LEMMA AlwaysOrderly == Spec => []Orderly
  BY InitOrderly, NextOrderly, PTL DEF Spec

\* The memory manager and the upstream device agree when no PFC frame is on its way.
THEOREM BothEndsAgree == Spec => []PauseStateAgrees
<1>1. Orderly => PauseStateAgrees
  BY DEF Orderly, LastFrameTells, PauseStateAgrees
<1>2. QED
  BY <1>1, AlwaysOrderly, PTL

\* A PFC frame with none behind it tells the upstream device what the memory manager
\* wants, whatever the error model has taken before.
THEOREM LastFrameIsRight == Spec => LastFrameDecides
<1>1. Orderly /\ [Next]_vars =>
        [ReceivePfc /\ Len(backward) = 1 /\ pfcQueue = <<>> => m_paused' = paused[pg]]_vars
  <2> SUFFICES ASSUME Orderly, ReceivePfc, Len(backward) = 1, pfcQueue = <<>>
               PROVE  m_paused' = paused[pg]
    OBVIOUS
  <2>1. backward # <<>> /\ m_paused' = (Head(backward).kind = "pause")
    BY DEF ReceivePfc, Due
  <2>2. Head(backward) = backward[1]
    BY <2>1, Elements DEF Orderly, BackwardInOrder
  <2>3. Head(backward).kind = Told
    BY <2>1, <2>2 DEF Orderly, LastFrameTells
  <2>4. paused[pg] \in BOOLEAN
    BY GroupType DEF Orderly
  <2>5. QED
    BY <2>1, <2>3, <2>4 DEF Told
<1>2. QED
  BY <1>1, AlwaysOrderly, PTL DEF Spec, LastFrameDecides

\* An upstream device that is paused has a resume on its way, or bytes in the switch
\* whose departure will send one.
THEOREM EveryPauseEnds == Spec => []PauseHasAnEnd
<1>1. Orderly => PauseHasAnEnd
  <2> SUFFICES ASSUME Orderly, m_paused, corrupted = 0, ~(queued[pg] > 0)
               PROVE  \/ "resume" \in ToSet(pfcQueue)
                      \/ \E i \in DOMAIN backward : backward[i].kind = "resume"
    BY DEF PauseHasAnEnd
  <2>1. /\ pfcQueue \in Seq(Frames) /\ backward \in Seq(OnLinkBack)
        /\ LastFrameTells
    BY DEF Orderly, BackwardInOrder
  <2>2. ~paused[pg]
    BY DEF Orderly, MmuProofs!Accounting, MmuProofs!PausedHoldsBytes,
           MmuProofs!PriorityGroups, pg, Ports
  <2>3. Told = "resume"
    BY <2>2 DEF Told
  <2>4. CASE pfcQueue # <<>>
    <3>1. Len(pfcQueue) \in DOMAIN pfcQueue /\ pfcQueue[Len(pfcQueue)] = "resume"
      BY <2>1, <2>3, <2>4, Elements DEF LastFrameTells
    <3>2. QED
      BY <3>1 DEF ToSet
  <2>5. CASE pfcQueue = <<>> /\ backward # <<>>
    BY <2>1, <2>3, <2>5, Elements DEF LastFrameTells
  <2>6. CASE pfcQueue = <<>> /\ backward = <<>>
    BY <2>1, <2>2, <2>6 DEF LastFrameTells
  <2>7. QED
    BY <2>4, <2>5, <2>6
<1>2. QED
  BY <1>1, AlwaysOrderly, PTL

-----------------------------------------------------------------------------
(***************************************************************************)
(* The headroom.  While the manager wants the upstream device paused, the  *)
(* packets that may still come are those on the link and one for each slot *)
(* until the device obeys (MaySend).  With what is in the headroom they    *)
(* never exceed 2 Delay + 3 packets: at the pause decision up to Delay + 1 *)
(* packets are on the link behind the one that has just come, the pause    *)
(* frame may wait one slot and travels Delay slots, and the device may be  *)
(* about to send in this one.                                              *)
(***************************************************************************)
ObeysIn ==
  IF pfcQueue # <<>> THEN (IF pfcWaited = Len(pfcQueue) THEN Delay ELSE Delay + 1)
                     ELSE backward[Len(backward)].left

MaySend ==
  IF pfcQueue = <<>> /\ backward = <<>> THEN 0
  ELSE ObeysIn + (IF m_busy THEN 0 ELSE 1)

Load == Len(forward) + MaySend

Budget ==
  paused[pg] /\ corrupted = 0 => hdrm_bytes[pg] + Mtu * Load <= Mtu * (2 * Delay + 3)

LEMMA LoadType ==
  ForwardInOrder /\ BackwardInOrder =>
    Load \in Nat /\ MaySend \in Nat /\ Len(forward) \in Nat
<1> SUFFICES ASSUME ForwardInOrder, BackwardInOrder
             PROVE  Load \in Nat /\ MaySend \in Nat /\ Len(forward) \in Nat
  OBVIOUS
<1>1. Len(forward) \in Nat /\ Delay \in Nat
  BY Elements, HopAssumption DEF ForwardInOrder
<1>2. backward # <<>> => backward[Len(backward)].left \in 0..Delay
  <2>1. backward \in Seq(OnLinkBack)
    BY DEF BackwardInOrder
  <2>2. backward # <<>> => Len(backward) \in 1..Len(backward)
    BY <2>1, Elements
  <2>3. QED
    BY <2>2, BackwardType
<1>3. ~(pfcQueue = <<>> /\ backward = <<>>) => ObeysIn \in Nat
  BY <1>1, <1>2 DEF ObeysIn
<1>4. MaySend \in Nat
  BY <1>3 DEF MaySend
<1>5. QED
  BY <1>1, <1>4 DEF Load

\* The arithmetic of a step.
LEMMA Times ==
  ASSUME NEW m \in Nat, NEW a \in Nat, NEW b \in Nat, a <= b
  PROVE  m * a <= m * b
  OBVIOUS

LEMMA Plus ==
  ASSUME NEW a \in Nat, NEW b \in Nat, b <= a, NEW own \in {0, 1}
  PROVE  a + own \in Nat /\ b + own \in Nat /\ b + own <= a + own
  OBVIOUS

LEMMA BudgetStep ==
  ASSUME NEW m \in Nat, NEW d \in Nat, NEW h \in Nat, NEW k \in Nat,
         NEW load \in Nat, NEW left \in Nat,
         \/ k <= h /\ left <= load /\ h + m * load <= m * (2 * d + 3)
         \/ k <= h + m /\ left + 1 <= load /\ h + m * load <= m * (2 * d + 3)
         \/ k <= m /\ left <= 2 * d + 2
  PROVE  k + m * left <= m * (2 * d + 3)
<1>1. m * load \in Nat /\ m * left \in Nat /\ m * (2 * d + 3) \in Nat
      /\ m * (left + 1) \in Nat /\ m * (2 * d + 2) \in Nat
  OBVIOUS
<1>2. m * (left + 1) = m * left + m /\ m * (2 * d + 3) = m * (2 * d + 2) + m
  OBVIOUS
<1>3. CASE k <= h /\ left <= load /\ h + m * load <= m * (2 * d + 3)
  <2>1. m * left <= m * load
    BY <1>3, Times
  <2>2. QED
    BY <1>1, <1>3, <2>1
<1>4. CASE k <= h + m /\ left + 1 <= load /\ h + m * load <= m * (2 * d + 3)
  <2>1. m * (left + 1) <= m * load
    BY <1>4, Times
  <2>2. QED
    BY <1>1, <1>2, <1>4, <2>1
<1>5. CASE k <= m /\ left <= 2 * d + 2
  <2>1. m * left <= m * (2 * d + 2)
    BY <1>5, Times
  <2>2. QED
    BY <1>1, <1>2, <1>5, <2>1
<1>6. QED
  BY <1>3, <1>4, <1>5

\* What a step leaves of the budget: no more packets to come and no more headroom used;
\* one packet less to come, and at most its bytes in the headroom; or a pause decision.
Spends ==
  \/ /\ paused[pg] /\ corrupted = 0
     /\ \/ hdrm_bytes'[pg] <= hdrm_bytes[pg] /\ Load' <= Load
        \/ hdrm_bytes'[pg] <= hdrm_bytes[pg] + Mtu /\ Load' + 1 <= Load
  \/ hdrm_bytes'[pg] <= Mtu /\ Load' <= 2 * Delay + 2

LEMMA SpendsBudget ==
  ASSUME Orderly, Orderly', Budget, paused'[pg] /\ corrupted' = 0 => Spends
  PROVE  Budget'
<1> SUFFICES ASSUME paused'[pg], corrupted' = 0
             PROVE  hdrm_bytes'[pg] + Mtu * Load' <= Mtu * (2 * Delay + 3)
  BY DEF Budget
<1>1. /\ hdrm_bytes[pg] \in Nat /\ hdrm_bytes'[pg] \in Nat
      /\ Load \in Nat /\ Load' \in Nat /\ Mtu \in Nat /\ Delay \in Nat
  <2>1. Load \in Nat /\ hdrm_bytes[pg] \in Nat
    BY LoadType, GroupType DEF Orderly
  <2>2. Load' \in Nat
    <3>1. (ForwardInOrder /\ BackwardInOrder)'
      BY DEF Orderly
    <3>2. (Load \in Nat /\ MaySend \in Nat /\ Len(forward) \in Nat)'
      BY <3>1, LoadType, PTL
    <3>3. QED
      BY <3>2
  <2>3. hdrm_bytes'[pg] \in Nat
    BY GroupType DEF Orderly
  <2>4. QED
    BY <2>1, <2>2, <2>3, HopAssumption
<1>2. Spends
  OBVIOUS
<1>3. QED
  BY <1>1, <1>2, BudgetStep DEF Spends, Budget

\* While the manager wants it paused, the device is paused or a PFC frame is on its way.
LEMMA SendSpends ==
  ASSUME Orderly, paused'[pg], corrupted' = 0, Send
  PROVE  Spends
<1>1. /\ UNCHANGED <<hdrm_bytes, paused, corrupted, pfcQueue, pfcWaited, backward>>
      /\ ~m_paused /\ ~m_busy /\ m_busy' = TRUE
  BY DEF Send, mmuVars
<1>2. Len(forward') = Len(forward) + 1
  BY SendInOrder DEF Orderly
<1>3. ~(pfcQueue = <<>> /\ backward = <<>>)
  BY <1>1 DEF Orderly, LastFrameTells
<1>4. MaySend = ObeysIn + 1 /\ MaySend' = ObeysIn /\ ObeysIn' = ObeysIn
  <2>1. ObeysIn' = ObeysIn
    BY <1>1 DEF ObeysIn
  <2>2. MaySend = ObeysIn + 1
    BY <1>1, <1>3 DEF MaySend
  <2>3. MaySend' = ObeysIn' + 0
    BY <1>1, <1>3 DEF MaySend
  <2>4. Delay \in Nat /\ ObeysIn \in Int
    <3>1. backward # <<>> => Len(backward) \in 1..Len(backward)
      BY Elements DEF Orderly, BackwardInOrder
    <3>2. QED
      BY <1>3, <3>1, BackwardType, HopAssumption DEF Orderly, ObeysIn
  <2>5. QED
    BY <2>1, <2>2, <2>3, <2>4
<1>5. Load' = Load
  <2>1. Len(forward) \in Nat /\ MaySend \in Nat
    BY LoadType DEF Orderly
  <2>2. ObeysIn \in Int
    <3>1. backward # <<>> => Len(backward) \in 1..Len(backward)
      BY Elements DEF Orderly, BackwardInOrder
    <3>2. QED
      BY <1>3, <3>1, BackwardType, HopAssumption DEF Orderly, ObeysIn
  <2>3. QED
    BY <1>2, <1>4, <2>1, <2>2 DEF Load
<1>6. hdrm_bytes[pg] \in Nat /\ Load \in Nat
  BY GroupType, LoadType DEF Orderly
<1>7. QED
  BY <1>1, <1>5, <1>6 DEF Spends

\* Only the packets on the link have changed, or the group has no more in the headroom.
LEMMA QuietSpends ==
  ASSUME Orderly, paused[pg], corrupted = 0,
         UNCHANGED <<pfcQueue, pfcWaited, backward, m_busy>>,
         Len(forward') \in Nat, hdrm_bytes'[pg] \in Nat,
         \/ hdrm_bytes'[pg] <= hdrm_bytes[pg] /\ Len(forward') <= Len(forward)
         \/ hdrm_bytes'[pg] <= hdrm_bytes[pg] + Mtu /\ Len(forward') + 1 <= Len(forward)
  PROVE  Spends
<1>1. MaySend' = MaySend
  BY DEF MaySend, ObeysIn
<1>2. Load' = Len(forward') + MaySend /\ Load = Len(forward) + MaySend
  BY <1>1 DEF Load
<1>3. MaySend \in Nat /\ Len(forward) \in Nat
  BY LoadType DEF Orderly
<1>4. QED
  BY <1>2, <1>3 DEF Spends

\* The first packet is due: the packets behind it fit in the slots behind it.
LEMMA BehindHead ==
  ASSUME ForwardInOrder, Due(forward)
  PROVE  Len(forward) \in Nat /\ Len(forward) - 1 <= Delay + (IF m_busy THEN 1 ELSE 0)
<1>1. /\ forward # <<>> /\ forward[1].left = 0
      /\ Len(forward) \in Nat /\ Len(forward) >= 1 /\ Delay \in Nat
  BY HeadOfForward, Elements, HopAssumption DEF ForwardInOrder
<1>2. Len(forward) = 1 \/ Len(forward) - 1 <= forward[Len(forward)].left
  <2>1. CASE Len(forward) > 1
    <3>1. forward[1].left + (Len(forward) - 1) <= forward[Len(forward)].left
      BY <1>1, <2>1 DEF ForwardInOrder
    <3>2. QED
      BY <1>1, <3>1
  <2>2. QED
    BY <1>1, <2>1
<1>3. /\ forward[Len(forward)].left \in 0..(Delay + 1)
      /\ ~m_busy => forward[Len(forward)].left <= Delay
  BY <1>1, ForwardType DEF ForwardInOrder
<1>4. QED
  BY <1>1, <1>2, <1>3

LEMMA HeadFits ==
  ASSUME ForwardInOrder, Due(forward)
  PROVE  /\ forward # <<>> /\ Head(forward).size \in Sizes
         /\ Head(forward).size \in Nat /\ Head(forward).size <= Mtu
<1>1. forward # <<>> /\ Head(forward).size \in Sizes
  BY HeadOfForward
<1>2. Head(forward).size \in 1..Mtu /\ Mtu \in Nat
  BY <1>1, HopAssumption
<1>3. QED
  BY <1>1, <1>2

LEMMA ArriveSpends ==
  ASSUME Orderly, MmuProofs!Accounting', paused'[pg], corrupted' = 0, Arrive
  PROVE  Spends
<1>1. /\ UNCHANGED <<m_busy, backward, corrupted, pfcWaited>> /\ SendPfc
      /\ Due(forward) /\ forward' = Tail(forward)
      /\ Mmu!Admit(<<Hop, Queue>>, Head(forward).size)
  BY DEF Arrive, pg
<1>2. /\ hdrm_bytes[pg] \in Nat /\ hdrm_bytes'[pg] \in Nat
      /\ paused[pg] \in BOOLEAN /\ paused'[pg] \in BOOLEAN
      /\ Mtu \in Nat /\ Delay \in Nat
  BY GroupType, HopAssumption DEF Orderly
<1>3. /\ forward # <<>> /\ Head(forward).size \in Sizes
      /\ Head(forward).size \in Nat /\ Head(forward).size <= Mtu
  BY <1>1, HeadFits DEF Orderly
<1>4. hdrm_bytes'[pg] <= hdrm_bytes[pg] + Head(forward).size
  BY <1>1, <1>3, AdmitEffect DEF Orderly, Ports
<1>5. Len(forward') = Len(forward) - 1 /\ Len(forward') \in Nat /\ Len(forward) \in Nat
  <2>1. forward \in Seq(OnLink) /\ Len(forward) \in Nat /\ Len(forward) >= 1
    BY <1>3, Elements DEF Orderly, ForwardInOrder
  <2>2. QED
    BY <1>1, <1>3, <2>1, Shortened
<1>6. CASE paused[pg]
  <2>1. pfcQueue' = pfcQueue
    BY <1>1, <1>2, <1>6 DEF SendPfc
  <2>2. hdrm_bytes'[pg] <= hdrm_bytes[pg] + Mtu /\ Len(forward') + 1 <= Len(forward)
    BY <1>2, <1>3, <1>4, <1>5
  <2>3. corrupted = 0
    BY <1>1
  <2>4. QED
    BY <1>1, <1>2, <1>5, <1>6, <2>1, <2>2, <2>3, QuietSpends
<1>7. CASE ~paused[pg]
  <2>1. hdrm_bytes[pg] = 0
    BY <1>2, <1>7 DEF Orderly, MmuProofs!Accounting, MmuProofs!HeadroomOnlyWhilePaused,
                      MmuProofs!PriorityGroups, pg, Ports
  <2>2. pfcQueue' = Append(pfcQueue, Pfc) /\ Pfc \in Frames
    BY <1>1, <1>2, <1>7 DEF SendPfc, Pfc, Frames
  <2>3. /\ pfcQueue' # <<>> /\ pfcWaited' # Len(pfcQueue')
    <3>1. /\ pfcQueue \in Seq(Frames) /\ Len(pfcQueue) \in Nat
          /\ pfcWaited \in 0..Len(pfcQueue)
      BY Elements DEF Orderly, BackwardInOrder
    <3>2. pfcQueue' # <<>> /\ Len(pfcQueue') = Len(pfcQueue) + 1
      BY <2>2, <3>1, Extended
    <3>3. QED
      BY <1>1, <3>1, <3>2
  <2>4. MaySend' = Delay + 1 + (IF m_busy THEN 0 ELSE 1)
    BY <1>1, <2>3 DEF MaySend, ObeysIn
  <2>5. Len(forward') <= Delay + (IF m_busy THEN 1 ELSE 0)
    BY <1>1, <1>5, BehindHead DEF Orderly
  <2>6. Load' <= 2 * Delay + 2
    BY <1>2, <1>5, <2>4, <2>5 DEF Load
  <2>7. hdrm_bytes'[pg] <= Mtu
    BY <1>2, <1>3, <1>4, <2>1
  <2>8. QED
    BY <2>6, <2>7 DEF Spends
<1>8. QED
  BY <1>2, <1>6, <1>7

LEMMA OtherSpends ==
  ASSUME Orderly, MmuProofs!Accounting', paused'[pg], corrupted' = 0, Leave \/ Other \/ Drop
  PROVE  Spends
<1>1. /\ hdrm_bytes[pg] \in Nat /\ hdrm_bytes'[pg] \in Nat
      /\ paused[pg] \in BOOLEAN /\ paused'[pg] \in BOOLEAN
      /\ Len(forward) \in Nat
  BY GroupType, LoadType DEF Orderly
<1>2. CASE Leave
  <2>1. /\ UNCHANGED <<m_busy, backward, corrupted, pfcWaited, forward>> /\ SendPfc
        /\ \E psize \in Sizes : Mmu!Dequeue(<<Hop, Queue>>, psize)
    BY <1>2 DEF Leave, linkVars, pg
  <2>2. hdrm_bytes'[pg] <= hdrm_bytes[pg] /\ paused[pg]
    BY <2>1, DequeueEffect DEF Orderly, Ports
  <2>3. pfcQueue' = pfcQueue
    BY <1>1, <2>1, <2>2 DEF SendPfc
  <2>4. QED
    BY <1>1, <2>1, <2>2, <2>3, QuietSpends
<1>3. CASE Other
  <2>1. /\ UNCHANGED <<m_busy, backward, corrupted, pfcQueue, pfcWaited, forward>>
        /\ \E port \in Others, psize \in Sizes :
             \/ Mmu!Admit(<<port, Queue>>, psize)
             \/ Mmu!Dequeue(<<port, Queue>>, psize)
    BY <1>3 DEF Other, linkVars
  <2>2. hdrm_bytes'[pg] = hdrm_bytes[pg] /\ paused[pg]
    BY <2>1, AdmitEffect, DequeueEffect, HopAssumption DEF Orderly, Ports
  <2>3. QED
    BY <1>1, <2>1, <2>2, QuietSpends
<1>4. CASE Drop
  <2>1. /\ UNCHANGED <<m_busy, backward, corrupted, pfcQueue, pfcWaited, hdrm_bytes, paused>>
        /\ forward' = Tail(forward) /\ forward # <<>>
    BY <1>4 DEF Drop, mmuVars, Due
  <2>2. Len(forward') = Len(forward) - 1 /\ Len(forward) >= 1
    BY <2>1, Elements, Shortened DEF Orderly, ForwardInOrder
  <2>3. QED
    BY <1>1, <2>1, <2>2, QuietSpends
<1>5. QED
  BY <1>2, <1>3, <1>4

\* Steps of the PFC frames and of time: the upstream device obeys no later.
LEMMA ObeysSpends ==
  ASSUME Orderly, paused[pg], corrupted = 0, UNCHANGED hdrm_bytes,
         MaySend' \in Nat, MaySend' <= MaySend, Len(forward') = Len(forward)
  PROVE  Spends
<1>1. MaySend \in Nat /\ Len(forward) \in Nat /\ hdrm_bytes[pg] \in Nat
  BY LoadType, GroupType DEF Orderly
<1>2. Load' <= Load
  BY <1>1 DEF Load
<1>3. QED
  BY <1>1, <1>2 DEF Spends

LEMMA TransmitSpends ==
  ASSUME Orderly, paused'[pg], corrupted' = 0, TransmitPfc
  PROVE  Spends
<1>1. /\ UNCHANGED <<hdrm_bytes, paused, corrupted, forward, m_busy>>
      /\ pfcQueue # <<>> /\ pfcQueue' = Tail(pfcQueue)
      /\ pfcWaited' = IF pfcWaited = 0 THEN 0 ELSE pfcWaited - 1
  BY DEF TransmitPfc, mmuVars
<1>2. /\ Len(pfcQueue') = Len(pfcQueue) - 1
      /\ backward' # <<>> /\ backward'[Len(backward')].left = Delay
  BY TransmitInOrder DEF Orderly
<1>3. /\ Len(pfcQueue) \in Nat /\ pfcWaited \in 0..Len(pfcQueue) /\ Delay \in Nat
      /\ Len(pfcQueue) >= 1
      /\ pfcQueue' # <<>> => Len(pfcQueue') >= 1
  BY <1>1, Elements, Shortened, HopAssumption DEF Orderly, BackwardInOrder
<1>4. ObeysIn = IF pfcWaited = Len(pfcQueue) THEN Delay ELSE Delay + 1
  BY <1>1 DEF ObeysIn
<1>5. ObeysIn' = IF pfcQueue' # <<>> /\ pfcWaited' # Len(pfcQueue') THEN Delay + 1 ELSE Delay
  BY <1>2 DEF ObeysIn
<1>6. pfcWaited = Len(pfcQueue) => pfcWaited' = Len(pfcQueue')
  BY <1>1, <1>2, <1>3
<1>7. ObeysIn \in Nat /\ ObeysIn' \in Nat /\ ObeysIn' <= ObeysIn
  BY <1>3, <1>4, <1>5, <1>6
<1>8. /\ MaySend = ObeysIn + (IF m_busy THEN 0 ELSE 1)
      /\ MaySend' = ObeysIn' + (IF m_busy THEN 0 ELSE 1)
  BY <1>1, <1>2 DEF MaySend
<1>9. MaySend' \in Nat /\ MaySend' <= MaySend
  <2>1. PICK own \in {0, 1} : MaySend = ObeysIn + own /\ MaySend' = ObeysIn' + own
    <3>1. CASE m_busy
      BY <1>8, <3>1, Zenon
    <3>2. CASE ~m_busy
      BY <1>8, <3>2, Zenon
    <3>3. QED
      BY <3>1, <3>2, Zenon
  <2>2. /\ ObeysIn + own \in Nat /\ ObeysIn' + own \in Nat
        /\ ObeysIn' + own <= ObeysIn + own
    BY <1>7, Plus, Zenon
  <2>3. QED
    BY <2>1, <2>2, Zenon
<1>10. QED
  BY <1>1, <1>9, ObeysSpends

LEMMA ReceiveSpends ==
  ASSUME Orderly, paused'[pg], corrupted' = 0, ReceivePfc
  PROVE  Spends
<1>1. /\ UNCHANGED <<hdrm_bytes, paused, corrupted, forward, m_busy, pfcQueue, pfcWaited>>
      /\ backward # <<>> /\ backward' = Tail(backward)
  BY DEF ReceivePfc, mmuVars, Due
<1>2. MaySend \in Nat
  BY LoadType DEF Orderly
<1>3. CASE pfcQueue = <<>> /\ backward' = <<>>
  <2>1. MaySend' = 0
    BY <1>1, <1>3 DEF MaySend
  <2>2. QED
    BY <1>1, <1>2, <2>1, ObeysSpends
<1>4. CASE pfcQueue # <<>> \/ backward' # <<>>
  <2>1. m_paused' \in BOOLEAN /\ corrupted' \in Nat
    BY DEF ReceivePfc
  <2>2. backward' # <<>> => backward'[Len(backward')] = backward[Len(backward)]
    BY <1>1, <2>1, TailInOrderBack DEF Orderly
  <2>3. ObeysIn' = ObeysIn
    BY <1>1, <1>4, <2>2 DEF ObeysIn
  <2>4. MaySend' = MaySend
    BY <1>1, <1>4, <2>3 DEF MaySend
  <2>5. QED
    BY <1>1, <1>2, <2>4, ObeysSpends
<1>5. QED
  BY <1>3, <1>4

LEMMA TickSpends ==
  ASSUME Orderly, paused'[pg], corrupted' = 0, Tick
  PROVE  Spends
<1>1. /\ UNCHANGED <<hdrm_bytes, paused, corrupted, pfcQueue>>
      /\ pfcWaited = 0 /\ pfcWaited' = Len(pfcQueue) /\ m_busy' = FALSE
      /\ ~Due(backward)
  BY DEF Tick, mmuVars
<1>2. Len(forward') = Len(forward)
  BY TickInOrder DEF Orderly
<1>3. /\ Len(backward') = Len(backward)
      /\ \A i \in 1..Len(backward) : backward'[i].left = backward[i].left - 1
      /\ BackwardInOrder'
  BY TickInOrderBack DEF Orderly
<1>4. /\ backward' # <<>> <=> backward # <<>>
      /\ backward # <<>> => Len(backward) \in 1..Len(backward) /\ 1 \in 1..Len(backward)
      /\ pfcQueue # <<>> => Len(pfcQueue) \in Nat /\ Len(pfcQueue) >= 1
      /\ Delay \in Nat
  BY <1>3, Elements, HopAssumption DEF Orderly, BackwardInOrder
<1>5. MaySend \in Nat
  BY LoadType DEF Orderly
<1>6. CASE pfcQueue # <<>>
  <2>1. ObeysIn = Delay + 1 /\ ObeysIn' = Delay
    BY <1>1, <1>4, <1>6 DEF ObeysIn
  <2>2. MaySend >= Delay + 1 /\ MaySend' = Delay + 1
    BY <1>1, <1>4, <1>6, <2>1 DEF MaySend
  <2>3. QED
    BY <1>1, <1>2, <1>4, <1>5, <2>2, ObeysSpends
<1>7. CASE pfcQueue = <<>> /\ backward # <<>>
  <2> DEFINE left == backward[Len(backward)].left
  <2>1. left \in Nat /\ left >= 1
    <3>1. /\ backward[1].left \in Nat /\ left \in Nat
          /\ Head(backward) = backward[1]
          /\ Len(backward) \in Nat
      BY <1>4, <1>7, BackwardType, Elements, HopAssumption DEF Orderly, BackwardInOrder
    <3>2. backward[1].left # 0
      BY <1>1, <1>7, <3>1 DEF Due
    <3>3. 1 = Len(backward) \/ backward[1].left <= left
      BY <1>4, <1>7, <3>1 DEF Orderly, BackwardInOrder
    <3>4. QED
      BY <3>1, <3>2, <3>3
  <2>2. ObeysIn = left /\ ObeysIn' = left - 1
    BY <1>1, <1>3, <1>4, <1>7 DEF ObeysIn
  <2> HIDE DEF left
  <2>3. MaySend >= left /\ MaySend' = left
    BY <1>1, <1>4, <1>7, <2>1, <2>2 DEF MaySend
  <2>4. QED
    BY <1>1, <1>2, <1>5, <2>1, <2>3, ObeysSpends
<1>8. CASE pfcQueue = <<>> /\ backward = <<>>
  <2>1. MaySend' = 0 /\ MaySend = 0
    BY <1>1, <1>4, <1>8 DEF MaySend
  <2>2. QED
    BY <1>1, <1>2, <2>1, ObeysSpends
<1>9. QED
  BY <1>6, <1>7, <1>8

LEMMA NextBudget == Orderly /\ Budget /\ [Next]_vars => Budget'
<1> SUFFICES ASSUME Orderly, Budget, [Next]_vars
             PROVE  Budget'
  OBVIOUS
<1>1. Orderly'
  BY NextOrderly
<1>2. CASE UNCHANGED vars
  BY <1>2 DEF vars, mmuVars, linkVars, Budget, Load, MaySend, ObeysIn
<1>3. CASE Next /\ paused'[pg] /\ corrupted' = 0
  <2>1. MmuProofs!Accounting'
    BY <1>1 DEF Orderly
  <2>2. ~Corrupt
    BY <1>3 DEF Corrupt, Orderly, BackwardInOrder
  <2>3. Spends
    BY <1>3, <2>1, <2>2, SendSpends, ArriveSpends, OtherSpends, TransmitSpends,
       ReceiveSpends, TickSpends DEF Next
  <2>4. QED
    BY <1>1, <2>3, SpendsBudget
<1>4. CASE ~(paused'[pg] /\ corrupted' = 0)
  BY <1>4 DEF Budget
<1>5. QED
  BY <1>2, <1>3, <1>4

\* From a delay of three slots on, the headroom of three one-way delays loses nothing.
THEOREM HeadroomSuffices ==
  ASSUME Delay >= 3
  PROVE  Spec => []NoLoss
<1>1. Init => Budget
  <2>1. Init => paused[pg] = FALSE
    BY DEF Init, Mmu!Init, Mmu!PriorityGroups, pg, Ports
  <2>2. QED
    BY <2>1 DEF Budget
<1>2. Orderly /\ Budget => NoLoss
  <2> SUFFICES ASSUME Orderly, Budget, Due(forward), corrupted = 0
               PROVE  Mmu!CheckIngressAdmission(pg, Head(forward).size)
    BY DEF NoLoss
  <2> DEFINE size == Head(forward).size
  <2>1. /\ size \in Nat /\ size <= Mtu /\ Mtu \in Nat /\ Delay \in Nat
        /\ Len(forward) \in Nat /\ Len(forward) >= 1
        /\ hdrm_bytes[pg] \in Nat /\ paused[pg] \in BOOLEAN
    <3>1. Len(forward) \in Nat /\ Len(forward) >= 1
      BY HeadOfForward, Elements DEF Orderly, ForwardInOrder
    <3>2. size \in Nat /\ size <= Mtu
      BY HeadFits DEF Orderly
    <3>3. QED
      BY <3>1, <3>2, GroupType, HopAssumption DEF Orderly
  <2>2. MaySend \in Nat /\ Load \in Nat /\ Load >= 1
    BY <2>1, LoadType DEF Orderly, Load
  <2> HIDE DEF size
  <2>3. size + hdrm_bytes[pg] <= 3 * Mtu * Delay
    <3>1. /\ Mtu * 1 <= Mtu * Load /\ Mtu * (2 * Delay + 3) <= Mtu * (3 * Delay)
          /\ Mtu * 1 <= Mtu * (2 * Delay + 3)
      BY <2>1, <2>2, Times
    <3>2. Mtu * Load \in Nat /\ Mtu * (2 * Delay + 3) \in Nat
          /\ Mtu * (3 * Delay) \in Nat /\ Mtu * 1 = Mtu
      BY <2>1, <2>2
    <3>3. CASE paused[pg]
      <4>1. hdrm_bytes[pg] + Mtu * Load <= Mtu * (2 * Delay + 3)
        BY <3>3 DEF Budget
      <4> DEFINE load == Mtu * Load
                 most == Mtu * (2 * Delay + 3)
                 all == Mtu * (3 * Delay)
      <4>2. Mtu <= load /\ hdrm_bytes[pg] + load <= most /\ most <= all
            /\ load \in Nat /\ most \in Nat /\ all \in Nat
        BY <3>1, <3>2, <4>1, Zenon
      <4>3. all = 3 * Mtu * Delay
        BY <2>1
      <4> HIDE DEF load, most, all
      <4>4. size + hdrm_bytes[pg] <= all
        BY <2>1, <4>2
      <4>5. QED
        BY <4>3, <4>4, Zenon
    <3>4. CASE ~paused[pg]
      <4>1. hdrm_bytes[pg] = 0
        BY <2>1, <3>4 DEF Orderly, MmuProofs!Accounting,
           MmuProofs!HeadroomOnlyWhilePaused, MmuProofs!PriorityGroups, pg, Ports
      <4>2. QED
        BY <2>1, <3>1, <3>2, <4>1
    <3>5. QED
      BY <3>3, <3>4
  <2>4. QED
    BY <2>3 DEF Mmu!CheckIngressAdmission, ConfigHdrm, size, pg, Ports
<1>3. QED
  BY <1>1, <1>2, NextBudget, AlwaysOrderly, PTL DEF Spec
=============================================================================
