-------------------------- MODULE SwitchNode_proofs --------------------------
(***************************************************************************)
(* A whole switch, for every number of ports and queues: it implements the *)
(* memory manager, so the theorems about SwitchMmu hold of it; its         *)
(* counters match its FIFOs, the PFC frames it sends alternate and tell    *)
(* the truth, and its round robin passes over no queue.                    *)
(***************************************************************************)
EXTENDS SwitchNode, FiniteSetTheorems, TLAPS

\* The theorems about the memory manager, for the one of this switch.
MmuProofs == INSTANCE SwitchMmu_proofs WITH queued <- ChargedBytes

-----------------------------------------------------------------------------
(***************************************************************************)
(* The lemmas on sums, for SumOf as this module sees it.                   *)
(***************************************************************************)
LEMMA MmuConstants == MmuProofs!ConstantsAssumption /\ MmuProofs!PoolAssumption
<1>1. MmuProofs!ConstantsAssumption
  BY MmuAssumption DEF Mmu!ConstantsAssumption, MmuProofs!ConstantsAssumption,
     Mmu!IsFiniteSet, MmuProofs!IsFiniteSet
<1>2. MmuProofs!PoolAssumption
  BY MmuAssumption DEF Mmu!PoolAssumption, MmuProofs!PoolAssumption,
     Mmu!Pool, MmuProofs!Pool, Mmu!TotalHdrm, MmuProofs!TotalHdrm,
     Mmu!TotalRsrv, MmuProofs!TotalRsrv, Mmu!Cardinality, MmuProofs!Cardinality,
     Mmu!SumOf, MmuProofs!SumOf, Mmu!UnitsOf, MmuProofs!UnitsOf
<1>3. QED
  BY <1>1, <1>2

LEMMA SameSums ==
  /\ \A f : MmuProofs!SumOf(f) = SumOf(f) /\ MmuProofs!UnitsOf(f) = UnitsOf(f)
  /\ \A S : MmuProofs!IsFiniteSet(S) <=> IsFiniteSet(S)
<1>1. \A f : MmuProofs!UnitsOf(f) = UnitsOf(f)
  BY DEF MmuProofs!UnitsOf, UnitsOf
<1>2. \A S : MmuProofs!Cardinality(S) = Cardinality(S)
  BY DEF MmuProofs!Cardinality, Cardinality
<1>3. \A S : MmuProofs!IsFiniteSet(S) <=> IsFiniteSet(S)
  BY DEF MmuProofs!IsFiniteSet, IsFiniteSet
<1>4. QED
  BY <1>1, <1>2, <1>3 DEF MmuProofs!SumOf, SumOf

LEMMA UnitsFinite ==
  ASSUME NEW S, IsFiniteSet(S), NEW f \in [S -> Nat]
  PROVE  IsFiniteSet(UnitsOf(f)) /\ SumOf(f) \in Nat
  BY MmuConstants, SameSums, MmuProofs!UnitsFinite
     DEF MmuProofs!ConstantsAssumption, MmuProofs!PoolAssumption

LEMMA TermBelowSum ==
  ASSUME NEW S, IsFiniteSet(S), NEW f \in [S -> Nat], NEW c \in S
  PROVE  f[c] <= SumOf(f)
  BY MmuConstants, SameSums, MmuProofs!TermBelowSum
     DEF MmuProofs!ConstantsAssumption, MmuProofs!PoolAssumption

LEMMA SumUpdate ==
  ASSUME NEW S, IsFiniteSet(S), NEW f \in [S -> Nat], NEW c \in S,
         NEW g \in [S -> Nat], \A x \in S \ {c} : g[x] = f[x]
  PROVE  SumOf(g) = SumOf(f) - f[c] + g[c]
  BY MmuConstants, SameSums, MmuProofs!SumUpdate
     DEF MmuProofs!ConstantsAssumption, MmuProofs!PoolAssumption

LEMMA SumOfZeros ==
  ASSUME NEW S, NEW f \in [S -> Nat], \A x \in S : f[x] = 0
  PROVE  SumOf(f) = 0
  BY MmuConstants, SameSums, MmuProofs!SumOfZeros
     DEF MmuProofs!ConstantsAssumption, MmuProofs!PoolAssumption

LEMMA SumExtended ==
  ASSUME NEW n \in Nat, NEW f \in [1..n -> Nat], NEW g \in [1..(n + 1) -> Nat],
         \A i \in 1..n : g[i] = f[i]
  PROVE  SumOf(g) = SumOf(f) + g[n + 1]
  BY MmuConstants, SameSums, MmuProofs!SumExtended
     DEF MmuProofs!ConstantsAssumption, MmuProofs!PoolAssumption

LEMMA SumShortened ==
  ASSUME NEW n \in Nat, NEW f \in [1..(n + 1) -> Nat], NEW g \in [1..n -> Nat],
         \A i \in 1..n : g[i] = f[i + 1]
  PROVE  SumOf(f) = SumOf(g) + f[1]
  BY MmuConstants, SameSums, MmuProofs!SumShortened
     DEF MmuProofs!ConstantsAssumption, MmuProofs!PoolAssumption

-----------------------------------------------------------------------------
\* What the FIFOs hold.
Packets == [kind : {"packet"}, in : Ports, size : Sizes]
ControlPackets == [kind : {"packet"}, in : Ports, size : {1}]
PfcFrames == [kind : {"pause", "resume"}, queue : Queues]
Frames == Packets \cup ControlPackets \cup PfcFrames

Typed ==
  /\ paused \in [PriorityGroups -> BOOLEAN]
  /\ stranded \in [PriorityGroups -> Nat]
  /\ m_linkUp \in [Ports -> BOOLEAN]
  /\ m_rrlast \in [Ports -> 0..(qCnt - 1)]
  /\ lastPfc \in [Ports -> [Queues -> {"pause", "resume"}]]
  /\ m_bytes \in [Ports -> [Ports -> [AllQueues -> Int]]]
  /\ egress_bytes \in [Ports -> [Queues -> Int]]
  /\ egressQ \in [Ports -> [AllQueues -> Seq(Frames)]]
  /\ \A p \in Ports, q \in Queues : egressQ[p][q] \in Seq(Packets)

-----------------------------------------------------------------------------

\* Sequences, once for all the FIFOs.
LEMMA Elements ==
  ASSUME NEW S, NEW s \in Seq(S)
  PROVE  /\ Len(s) \in Nat /\ DOMAIN s = 1..Len(s)
         /\ \A i \in 1..Len(s) : s[i] \in S
         /\ s # <<>> => Len(s) >= 1 /\ Head(s) = s[1] /\ s[1] \in S
  OBVIOUS

LEMMA Shortened ==
  ASSUME NEW S, NEW s \in Seq(S), s # <<>>
  PROVE  /\ Tail(s) \in Seq(S) /\ Len(Tail(s)) = Len(s) - 1
         /\ \A i \in 1..Len(Tail(s)) : Tail(s)[i] = s[i + 1]
  OBVIOUS

LEMMA Extended ==
  ASSUME NEW S, NEW s \in Seq(S), NEW x \in S
  PROVE  /\ Append(s, x) \in Seq(S) /\ Len(Append(s, x)) = Len(s) + 1
         /\ \A i \in 1..Len(s) : Append(s, x)[i] = s[i]
         /\ Append(s, x)[Len(s) + 1] = x
  OBVIOUS

LEMMA DataQueues ==
  /\ ControlQueue \notin Queues /\ Queues \subseteq AllQueues /\ ControlQueue \in AllQueues
  /\ \A q \in Queues : q \in 1..7
  BY NodeAssumption DEF ControlQueue, AllQueues, qCnt

-----------------------------------------------------------------------------
(***************************************************************************)
(* The bytes of a FIFO.                                                    *)
(***************************************************************************)
LEMMA SizesFromType ==
  ASSUME NEW in, NEW fifo \in Seq(Packets)
  PROVE  SizesFrom(in, fifo) \in [1..Len(fifo) -> Nat]
<1>1. Sizes \subseteq Nat
  BY MmuAssumption DEF Mmu!ConstantsAssumption
<1>2. /\ DOMAIN fifo = 1..Len(fifo)
      /\ \A i \in 1..Len(fifo) : fifo[i] \in Packets
  BY Elements
<1>3. \A i \in 1..Len(fifo) : fifo[i].size \in Nat
  BY <1>1, <1>2 DEF Packets
<1>4. QED
  BY <1>2, <1>3 DEF SizesFrom

LEMMA BytesFromType ==
  ASSUME NEW in, NEW fifo \in Seq(Packets)
  PROVE  BytesFrom(in, fifo) \in Nat
<1>1. IsFiniteSet(1..Len(fifo))
  BY FS_Interval
<1>2. QED
  BY <1>1, SizesFromType, UnitsFinite DEF BytesFrom

\* What a packet counts among those that came in by a port.
SizeFrom(in, frame) == IF frame.in = in THEN frame.size ELSE 0

LEMMA BytesAppended ==
  ASSUME NEW in, NEW fifo \in Seq(Packets), NEW frame \in Packets
  PROVE  BytesFrom(in, Append(fifo, frame)) = BytesFrom(in, fifo) + SizeFrom(in, frame)
<1> DEFINE longer == Append(fifo, frame)
           n == Len(fifo)
<1>1. /\ n \in Nat /\ longer \in Seq(Packets) /\ Len(longer) = n + 1
      /\ \A i \in 1..n : longer[i] = fifo[i]
      /\ longer[n + 1] = frame
      /\ DOMAIN fifo = 1..n /\ DOMAIN longer = 1..(n + 1)
  BY Extended, Elements
<1>2. /\ SizesFrom(in, fifo) \in [1..n -> Nat]
      /\ SizesFrom(in, longer) \in [1..(n + 1) -> Nat]
  BY <1>1, SizesFromType
<1> HIDE DEF n, longer
<1>3. \A i \in 1..n : SizesFrom(in, longer)[i] = SizesFrom(in, fifo)[i]
  BY <1>1 DEF SizesFrom
<1>4. SizesFrom(in, longer)[n + 1] = SizeFrom(in, frame)
  <2>1. n + 1 \in 1..(n + 1) /\ frame.kind = "packet"
    BY <1>1 DEF Packets
  <2>2. QED
    BY <1>1, <2>1 DEF SizesFrom, SizeFrom, IsPacketFrom
<1>5. QED
  BY <1>1, <1>2, <1>3, <1>4, SumExtended DEF BytesFrom, longer

LEMMA BytesTail ==
  ASSUME NEW in, NEW fifo \in Seq(Packets), fifo # <<>>
  PROVE  /\ Head(fifo) \in Packets
         /\ BytesFrom(in, Tail(fifo)) = BytesFrom(in, fifo) - SizeFrom(in, Head(fifo))
<1> DEFINE shorter == Tail(fifo)
           n == Len(shorter)
<1>1. /\ n \in Nat /\ shorter \in Seq(Packets) /\ Len(fifo) = n + 1
      /\ \A i \in 1..n : shorter[i] = fifo[i + 1]
      /\ Head(fifo) = fifo[1] /\ fifo[1] \in Packets
      /\ DOMAIN fifo = 1..(n + 1) /\ DOMAIN shorter = 1..n
  BY Shortened, Elements
<1>2. /\ SizesFrom(in, fifo) \in [1..(n + 1) -> Nat]
      /\ SizesFrom(in, shorter) \in [1..n -> Nat]
  BY <1>1, SizesFromType
<1>3. BytesFrom(in, fifo) \in Nat /\ BytesFrom(in, shorter) \in Nat
  BY <1>1, BytesFromType
<1> HIDE DEF n, shorter
<1>4. \A i \in 1..n : SizesFrom(in, shorter)[i] = SizesFrom(in, fifo)[i + 1]
  <2>1. \A i \in 1..n : i + 1 \in 1..(n + 1)
    BY <1>1
  <2>2. QED
    BY <1>1, <2>1 DEF SizesFrom
<1>5. SizesFrom(in, fifo)[1] = SizeFrom(in, Head(fifo)) /\ SizesFrom(in, fifo)[1] \in Nat
  <2>1. 1 \in 1..(n + 1) /\ Head(fifo).kind = "packet"
    BY <1>1 DEF Packets
  <2>2. QED
    BY <1>1, <1>2, <2>1 DEF SizesFrom, SizeFrom, IsPacketFrom
<1>6. BytesFrom(in, fifo) = BytesFrom(in, shorter) + SizesFrom(in, fifo)[1]
  BY <1>1, <1>2, <1>4, SumShortened DEF BytesFrom
<1>7. QED
  BY <1>1, <1>3, <1>5, <1>6 DEF shorter

LEMMA BytesOfEmpty == \A in : BytesFrom(in, <<>>) = 0
<1>1. \A in : DOMAIN SizesFrom(in, <<>>) = {}
  BY DEF SizesFrom
<1>2. \A in : UnitsOf(SizesFrom(in, <<>>)) = {}
  BY <1>1 DEF UnitsOf
<1>3. QED
  BY <1>2, FS_EmptySet DEF BytesFrom, SumOf

-----------------------------------------------------------------------------
(***************************************************************************)
(* Types.                                                                  *)
(***************************************************************************)
LEMMA InitTyped == Init => Typed
<1> SUFFICES ASSUME Init PROVE Typed
  OBVIOUS
<1>1. \A S : <<>> \in Seq(S)
  OBVIOUS
<1>2. egressQ = [p \in Ports |-> [q \in AllQueues |-> <<>>]]
  BY DEF Init
<1>3. egressQ \in [Ports -> [AllQueues -> Seq(Frames)]]
  BY <1>1, <1>2
<1>4. \A p \in Ports, q \in Queues : egressQ[p][q] \in Seq(Packets)
  BY <1>1, <1>2, DataQueues
<1>5. /\ paused \in [PriorityGroups -> BOOLEAN] /\ stranded \in [PriorityGroups -> Nat]
      /\ m_linkUp \in [Ports -> BOOLEAN]
      /\ m_rrlast \in [Ports -> 0..(qCnt - 1)]
  BY DEF Init, qCnt
<1>6. lastPfc \in [Ports -> [Queues -> {"pause", "resume"}]]
  BY DEF Init
<1>7. /\ m_bytes \in [Ports -> [Ports -> [AllQueues -> Int]]]
      /\ egress_bytes \in [Ports -> [Queues -> Int]]
  BY DEF Init
<1>8. QED
  BY <1>3, <1>4, <1>5, <1>6, <1>7 DEF Typed

-----------------------------------------------------------------------------
(***************************************************************************)
(* The choice of the queue.                                                *)
(***************************************************************************)
LEMMA Least ==
  ASSUME NEW D \in SUBSET (0..7), D # {}
  PROVE  \E m \in D : \A n \in D : m <= n
<1> SUFFICES ASSUME \A m \in D : \E n \in D : n < m
             PROVE  FALSE
  OBVIOUS
<1>1. 0 \notin D
  OBVIOUS
<1>2. 1 \notin D
  BY <1>1
<1>3. 2 \notin D
  BY <1>1, <1>2
<1>4. 3 \notin D
  BY <1>1, <1>2, <1>3
<1>5. 4 \notin D
  BY <1>1, <1>2, <1>3, <1>4
<1>6. 5 \notin D
  BY <1>1, <1>2, <1>3, <1>4, <1>5
<1>7. 6 \notin D
  BY <1>1, <1>2, <1>3, <1>4, <1>5, <1>6
<1>8. 7 \notin D
  BY <1>1, <1>2, <1>3, <1>4, <1>5, <1>6, <1>7
<1>9. PICK m \in D : m \in 0..7
  OBVIOUS
<1>10. QED
  BY <1>1, <1>2, <1>3, <1>4, <1>5, <1>6, <1>7, <1>8, <1>9

LEMMA NextIsEligible ==
  ASSUME Typed, NEW p \in Ports, Eligible(p) # {}
  PROVE  /\ NextQueue(p) \in Eligible(p)
         /\ \A r \in Eligible(p) :
              RoundRobinDistance(p, NextQueue(p)) <= RoundRobinDistance(p, r)
<1> DEFINE D == {RoundRobinDistance(p, r) : r \in Eligible(p)}
<1>1. \A r \in Eligible(p) : RoundRobinDistance(p, r) \in 0..7
  <2>1. \A r \in Eligible(p) : r \in Int
    BY DataQueues DEF Eligible, ControlQueue
  <2>2. m_rrlast[p] \in Int
    <3>1. m_rrlast \in [Ports -> 0..(qCnt - 1)]
      BY DEF Typed
    <3>2. QED
      BY <3>1 DEF qCnt
  <2>3. QED
    BY <2>1, <2>2 DEF RoundRobinDistance, qCnt
<1>2. \E q \in Eligible(p) : \A r \in Eligible(p) :
        RoundRobinDistance(p, q) <= RoundRobinDistance(p, r)
  <2>1. D \in SUBSET (0..7) /\ D # {}
    BY <1>1
  <2>2. PICK m \in D : \A n \in D : m <= n
    BY <2>1, Least
  <2>3. QED
    BY <2>2
<1>3. QED
  BY <1>2 DEF NextQueue

\* A packet of a data queue is sent: the first of the queue whose turn it is.
LEMMA SendDataEffect ==
  ASSUME Typed, NEW p \in Ports, CanSend(p), SendData(p)
  PROVE  \E q \in Queues, frame \in Packets :
           /\ q = NextQueue(p) /\ q \in Eligible(p)
           /\ egressQ[p][q] # <<>> /\ frame = Head(egressQ[p][q])
           /\ NotifyDequeue(p, q, frame)
<1>1. PICK q \in Queues : /\ NextQueue(p) = q
                          /\ NotifyDequeue(p, q, Head(egressQ[p][q]))
  BY DEF SendData
<1>2. q \in Eligible(p)
  BY <1>1, NextIsEligible DEF CanSend
<1>3. egressQ[p][q] # <<>>
  BY <1>2, DataQueues DEF Eligible
<1>4. Head(egressQ[p][q]) \in Packets
  BY <1>3, Elements DEF Typed
<1>5. QED
  BY <1>1, <1>2, <1>3, <1>4

-----------------------------------------------------------------------------
(***************************************************************************)
(* What the actions do to the FIFOs.                                       *)
(***************************************************************************)
LEMMA PfcFrame == \A q \in Queues : Pfc("pause", q) \in Frames /\ Pfc("resume", q) \in Frames
  BY DEF Pfc, Frames, PfcFrames

LEMMA QueuesAreFunctions ==
  ASSUME Typed
  PROVE  /\ DOMAIN egressQ = Ports
         /\ \A o \in Ports : egressQ[o] = [r \in AllQueues |-> egressQ[o][r]]
  BY DEF Typed

\* A dequeue writes the queue served and the control queue of the packet's ingress port.
LEMMA DequeueFifos ==
  ASSUME Typed, NEW p \in Ports, NEW q \in Queues, NEW frame \in Packets,
         egressQ[p][q] # <<>>, NotifyDequeue(p, q, frame)
  PROVE  \A o \in Ports, r \in Queues :
           egressQ'[o][r] = IF o = p /\ r = q THEN Tail(egressQ[o][r]) ELSE egressQ[o][r]
<1>1. /\ egressQ' = [egressQ EXCEPT
           ![p][q] = Tail(@),
           ![frame.in][ControlQueue] =
              IF ResumeDue(<<frame.in, q>>) THEN Append(@, Pfc("resume", q)) ELSE @]
      /\ frame.in \in Ports
  BY DEF NotifyDequeue, SendPfc, Packets
<1>2. QED
  BY <1>1, QueuesAreFunctions, DataQueues

LEMMA DequeueControlFifo ==
  ASSUME Typed, NEW p \in Ports, NEW q \in Queues, NEW frame \in Packets,
         egressQ[p][q] # <<>>, NotifyDequeue(p, q, frame)
  PROVE  \A o \in Ports :
           egressQ'[o][ControlQueue] =
             IF o = frame.in /\ ResumeDue(<<frame.in, q>>)
             THEN Append(egressQ[o][ControlQueue], Pfc("resume", q))
             ELSE egressQ[o][ControlQueue]
<1>1. /\ egressQ' = [egressQ EXCEPT
           ![p][q] = Tail(@),
           ![frame.in][ControlQueue] =
              IF ResumeDue(<<frame.in, q>>) THEN Append(@, Pfc("resume", q)) ELSE @]
      /\ frame.in \in Ports
  BY DEF NotifyDequeue, SendPfc, Packets
<1>2. QED
  BY <1>1, QueuesAreFunctions, DataQueues

LEMMA DequeueShape ==
  ASSUME Typed, NEW p \in Ports, NEW q \in Queues, NEW frame \in Packets,
         egressQ[p][q] # <<>>, NotifyDequeue(p, q, frame)
  PROVE  /\ DOMAIN egressQ' = Ports
         /\ \A o \in Ports : egressQ'[o] = [r \in AllQueues |-> egressQ'[o][r]]
<1>1. /\ egressQ' = [egressQ EXCEPT
           ![p][q] = Tail(@),
           ![frame.in][ControlQueue] =
              IF ResumeDue(<<frame.in, q>>) THEN Append(@, Pfc("resume", q)) ELSE @]
      /\ frame.in \in Ports
  BY DEF NotifyDequeue, SendPfc, Packets
<1>2. QED
  BY <1>1, QueuesAreFunctions, DataQueues

LEMMA DequeueLeavesOthers ==
  ASSUME Typed, NEW p \in Ports, NEW q \in Queues, NEW frame \in Packets,
         egressQ[p][q] # <<>>, NotifyDequeue(p, q, frame),
         NEW o \in Ports, NEW r \in Queues, o # p \/ r # q
  PROVE  egressQ'[o][r] = egressQ[o][r]
<1>1. egressQ'[o][r] = IF o = p /\ r = q THEN Tail(egressQ[o][r]) ELSE egressQ[o][r]
  BY DequeueFifos
<1>2. QED
  BY <1>1

LEMMA SendDataFifos ==
  ASSUME Typed, NEW in \in Ports, NEW out \in Ports, NEW q \in Queues, NEW psize \in Sizes,
         SendToDev(in, out, q, psize)
  PROVE  /\ egressQ'[out][q] = Append(egressQ[out][q], Packet(in, psize))
         /\ \A o \in Ports, r \in Queues :
              ~(o = out /\ r = q) => egressQ'[o][r] = egressQ[o][r]
<1>1. egressQ' = [egressQ EXCEPT
           ![out][q] = Append(@, Packet(in, psize)),
           ![in][ControlQueue] =
              IF PauseDue(<<in, q>>) THEN Append(@, Pfc("pause", q)) ELSE @]
  BY DEF SendToDev, SendPfc
<1>2. /\ DOMAIN egressQ = Ports
      /\ \A o \in Ports : egressQ[o] = [r \in AllQueues |-> egressQ[o][r]]
      /\ ControlQueue \in AllQueues /\ q \in AllQueues /\ q # ControlQueue
      /\ \A r \in Queues : r \in AllQueues /\ r # ControlQueue
  BY DataQueues DEF Typed
<1>3. QED
  BY <1>1, <1>2

LEMMA SendControlFifos ==
  ASSUME Typed, NEW in \in Ports, NEW out \in Ports, NEW q \in Queues, NEW psize \in Sizes,
         SendToDev(in, out, q, psize)
  PROVE  /\ \A o \in Ports :
              egressQ'[o][ControlQueue] =
                IF o = in /\ PauseDue(<<in, q>>)
                THEN Append(egressQ[o][ControlQueue], Pfc("pause", q))
                ELSE egressQ[o][ControlQueue]
         /\ DOMAIN egressQ' = Ports
         /\ \A o \in Ports : egressQ'[o] = [r \in AllQueues |-> egressQ'[o][r]]
<1>1. egressQ' = [egressQ EXCEPT
           ![out][q] = Append(@, Packet(in, psize)),
           ![in][ControlQueue] =
              IF PauseDue(<<in, q>>) THEN Append(@, Pfc("pause", q)) ELSE @]
  BY DEF SendToDev, SendPfc
<1>2. /\ DOMAIN egressQ = Ports
      /\ \A o \in Ports : egressQ[o] = [r \in AllQueues |-> egressQ[o][r]]
      /\ ControlQueue \in AllQueues /\ q \in AllQueues /\ q # ControlQueue
      /\ \A r \in Queues : r \in AllQueues /\ r # ControlQueue
  BY DataQueues DEF Typed
<1>3. QED
  BY <1>1, <1>2

\* The types of the FIFOs follow from the types of each.
LEMMA FifoTypes ==
  ASSUME DOMAIN egressQ' = Ports, egressQ' = [o \in Ports |-> egressQ'[o]],
         \A o \in Ports : egressQ'[o] = [r \in AllQueues |-> egressQ'[o][r]],
         \A o \in Ports, r \in Queues : egressQ'[o][r] \in Seq(Packets),
         \A o \in Ports : egressQ'[o][ControlQueue] \in Seq(Frames)
  PROVE  /\ egressQ' \in [Ports -> [AllQueues -> Seq(Frames)]]
         /\ \A p \in Ports, q \in Queues : egressQ'[p][q] \in Seq(Packets)
<1>1. Seq(Packets) \subseteq Seq(Frames)
  BY DEF Frames
<1>2. \A o \in Ports, r \in AllQueues : egressQ'[o][r] \in Seq(Frames)
  BY <1>1 DEF AllQueues
<1>3. QED
  BY <1>2

LEMMA PacketType ==
  /\ \A frame \in Packets :
       frame.in \in Ports /\ frame.size \in Sizes /\ frame.size \in Int /\ frame.kind = "packet"
  /\ \A in \in Ports, psize \in Sizes :
       Packet(in, psize) \in Packets /\ Packet(in, psize).in = in
       /\ Packet(in, psize).size = psize /\ psize \in Int
  /\ \A in \in Ports : Packet(in, 1) \in Frames /\ Packet(in, 1).kind = "packet"
<1>1. Sizes \subseteq Int
  BY MmuAssumption DEF Mmu!ConstantsAssumption
<1>2. QED
  BY <1>1 DEF Packets, Packet, Frames, ControlPackets

\* Types, action by action.
LEMMA SendControlTyped ==
  ASSUME Typed, NEW p \in Ports, CanSend(p), SendControl(p),
         UNCHANGED <<m_paused, m_linkUp, stranded>>
  PROVE  /\ Typed'
         /\ egressQ[p][ControlQueue] # <<>>
<1>1. ControlQueue \in Eligible(p)
  BY NextIsEligible DEF CanSend, SendControl
<1>2. egressQ[p][ControlQueue] # <<>> /\ egressQ[p][ControlQueue] \in Seq(Frames)
  BY <1>1, DataQueues DEF Eligible, Typed
<1> DEFINE frame == Head(egressQ[p][ControlQueue])
<1>3. frame \in Frames /\ Tail(egressQ[p][ControlQueue]) \in Seq(Frames)
  BY <1>2, Elements, Shortened
<1>4. frame.kind # "packet" => frame.kind \in {"pause", "resume"} /\ frame.queue \in Queues
  BY <1>3 DEF Frames, Packets, ControlPackets, PfcFrames
<1>5. lastPfc' \in [Ports -> [Queues -> {"pause", "resume"}]]
  BY <1>4 DEF Typed, SendControl
<1>6. egressQ' = [egressQ EXCEPT ![p][ControlQueue] = Tail(@)]
  BY DEF SendControl
<1>7. /\ egressQ' \in [Ports -> [AllQueues -> Seq(Frames)]]
      /\ \A o \in Ports, r \in Queues : egressQ'[o][r] = egressQ[o][r]
  BY <1>3, <1>6, DataQueues DEF Typed
<1>8. \A o \in Ports, r \in Queues : egressQ'[o][r] \in Seq(Packets)
  BY <1>7 DEF Typed
<1>9. Typed'
  BY <1>5, <1>7, <1>8 DEF Typed, SendControl, mmuVars
<1>10. QED
  BY <1>2, <1>9

LEMMA SendDataTyped ==
  ASSUME Typed, NEW p \in Ports, CanSend(p), SendData(p),
         UNCHANGED <<m_paused, m_linkUp, stranded>>
  PROVE  Typed'
<1>1. PICK q \in Queues, frame \in Packets :
        /\ q = NextQueue(p) /\ q \in Eligible(p)
        /\ egressQ[p][q] # <<>> /\ frame = Head(egressQ[p][q])
        /\ NotifyDequeue(p, q, frame)
  BY SendDataEffect
<1>2. frame.in \in Ports /\ frame.size \in Int
  BY PacketType
<1>3. \A o \in Ports, r \in Queues : egressQ'[o][r] \in Seq(Packets)
  <2>1. \A o \in Ports, r \in Queues :
          egressQ'[o][r] = IF o = p /\ r = q THEN Tail(egressQ[o][r]) ELSE egressQ[o][r]
    BY <1>1, DequeueFifos
  <2>2. Tail(egressQ[p][q]) \in Seq(Packets)
    BY <1>1, Shortened DEF Typed
  <2>3. \A o \in Ports, r \in Queues : egressQ[o][r] \in Seq(Packets)
    BY DEF Typed
  <2>4. ASSUME NEW o \in Ports, NEW r \in Queues
        PROVE  egressQ'[o][r] \in Seq(Packets)
    <3>1. CASE o = p /\ r = q
      <4>1. egressQ'[o][r] = Tail(egressQ[p][q])
        BY <2>1, <3>1
      <4>2. QED
        BY <2>2, <4>1, Zenon
    <3>2. CASE ~(o = p /\ r = q)
      <4>1. egressQ'[o][r] = egressQ[o][r]
        BY <2>1, <3>2
      <4>2. QED
        BY <2>3, <4>1, Zenon
    <3>3. QED
      BY <3>1, <3>2
  <2>5. QED
    BY <2>4
<1>4. \A o \in Ports : egressQ'[o][ControlQueue] \in Seq(Frames)
  <2>1. \A o \in Ports :
          egressQ'[o][ControlQueue] =
            IF o = frame.in /\ ResumeDue(<<frame.in, q>>)
            THEN Append(egressQ[o][ControlQueue], Pfc("resume", q))
            ELSE egressQ[o][ControlQueue]
    BY <1>1, DequeueControlFifo
  <2>2. \A o \in Ports : egressQ[o][ControlQueue] \in Seq(Frames)
    BY DataQueues DEF Typed
  <2>3. \A o \in Ports : Append(egressQ[o][ControlQueue], Pfc("resume", q)) \in Seq(Frames)
    BY <2>2, PfcFrame, Extended
  <2>4. QED
    BY <2>1, <2>2, <2>3
<1>5. /\ egressQ' \in [Ports -> [AllQueues -> Seq(Frames)]]
      /\ \A o \in Ports, r \in Queues : egressQ'[o][r] \in Seq(Packets)
  <2>1. /\ DOMAIN egressQ' = Ports
        /\ \A o \in Ports : egressQ'[o] = [r \in AllQueues |-> egressQ'[o][r]]
    BY <1>1, DequeueShape, Zenon
  <2>2. egressQ' = [o \in Ports |-> egressQ'[o]]
    BY <1>1 DEF NotifyDequeue, Typed
  <2>3. QED
    BY <1>3, <1>4, <2>1, <2>2, FifoTypes
<1>6. m_rrlast' \in [Ports -> 0..(qCnt - 1)]
  <2>1. q \in 0..(qCnt - 1)
    BY DataQueues DEF qCnt
  <2>2. m_rrlast' = [m_rrlast EXCEPT ![p] = NextQueue(p)]
    BY <1>1 DEF SendData
  <2>3. m_rrlast \in [Ports -> 0..(qCnt - 1)]
    BY DEF Typed
  <2>4. QED
    BY <1>1, <2>1, <2>2, <2>3
<1>7. paused' \in [PriorityGroups -> BOOLEAN]
  <2>1. paused \in [PriorityGroups -> BOOLEAN]
    BY DEF Typed
  <2>2. paused' = [paused EXCEPT ![<<frame.in, q>>] = @ /\ ~ResumeDue(<<frame.in, q>>)]
    BY <1>1 DEF NotifyDequeue
  <2>3. QED
    BY <2>1, <2>2
<1>8. /\ m_bytes' \in [Ports -> [Ports -> [AllQueues -> Int]]]
      /\ egress_bytes' \in [Ports -> [Queues -> Int]]
  <2>1. /\ m_bytes \in [Ports -> [Ports -> [AllQueues -> Int]]]
        /\ egress_bytes \in [Ports -> [Queues -> Int]]
    BY Zenon DEF Typed
  <2>2. /\ egress_bytes' = [egress_bytes EXCEPT ![p][q] = @ - frame.size]
        /\ m_bytes' = [m_bytes EXCEPT ![frame.in][p][q] = @ - frame.size]
    BY <1>1 DEF NotifyDequeue
  <2>3. q \in AllQueues
    BY DataQueues
  <2>4. QED
    BY <1>2, <2>1, <2>2, <2>3
<1>9. UNCHANGED <<m_linkUp, stranded, lastPfc>>
  BY DEF SendData
<1>10. QED
  BY <1>5, <1>6, <1>7, <1>8, <1>9 DEF Typed

LEMMA SendToDevTyped ==
  ASSUME Typed, NEW in \in Ports, NEW out \in Ports, NEW q \in Queues, NEW psize \in Sizes,
         SendToDev(in, out, q, psize)
  PROVE  Typed'
<1>1. \A o \in Ports, r \in Queues : egressQ'[o][r] \in Seq(Packets)
  <2>1. /\ egressQ'[out][q] = Append(egressQ[out][q], Packet(in, psize))
        /\ \A o \in Ports, r \in Queues :
             ~(o = out /\ r = q) => egressQ'[o][r] = egressQ[o][r]
    BY SendDataFifos
  <2>2. Append(egressQ[out][q], Packet(in, psize)) \in Seq(Packets)
    BY PacketType, Extended DEF Typed
  <2>3. QED
    BY <2>1, <2>2 DEF Typed
<1>2. \A o \in Ports : egressQ'[o][ControlQueue] \in Seq(Frames)
  <2>1. \A o \in Ports :
          egressQ'[o][ControlQueue] =
            IF o = in /\ PauseDue(<<in, q>>)
            THEN Append(egressQ[o][ControlQueue], Pfc("pause", q))
            ELSE egressQ[o][ControlQueue]
    BY SendControlFifos
  <2>2. \A o \in Ports : egressQ[o][ControlQueue] \in Seq(Frames)
    BY DataQueues DEF Typed
  <2>3. \A o \in Ports : Append(egressQ[o][ControlQueue], Pfc("pause", q)) \in Seq(Frames)
    BY <2>2, PfcFrame, Extended
  <2>4. QED
    BY <2>1, <2>2, <2>3
<1>3. /\ egressQ' \in [Ports -> [AllQueues -> Seq(Frames)]]
      /\ \A o \in Ports, r \in Queues : egressQ'[o][r] \in Seq(Packets)
  <2>1. /\ DOMAIN egressQ' = Ports
        /\ \A o \in Ports : egressQ'[o] = [r \in AllQueues |-> egressQ'[o][r]]
    BY SendControlFifos
  <2>2. egressQ' = [o \in Ports |-> egressQ'[o]]
    BY DEF SendToDev, Typed
  <2>3. QED
    BY <1>1, <1>2, <2>1, <2>2, FifoTypes
<1>4. paused' \in [PriorityGroups -> BOOLEAN]
  <2>1. paused \in [PriorityGroups -> BOOLEAN]
    BY DEF Typed
  <2>2. paused' = [paused EXCEPT ![<<in, q>>] = @ \/ PauseDue(<<in, q>>)]
    BY DEF SendToDev
  <2>3. QED
    BY <2>1, <2>2
<1>5. /\ m_bytes' \in [Ports -> [Ports -> [AllQueues -> Int]]]
      /\ egress_bytes' \in [Ports -> [Queues -> Int]]
  <2>1. /\ m_bytes \in [Ports -> [Ports -> [AllQueues -> Int]]]
        /\ egress_bytes \in [Ports -> [Queues -> Int]]
    BY DEF Typed
  <2>2. /\ egress_bytes' = [egress_bytes EXCEPT ![out][q] = @ + psize]
        /\ m_bytes' = [m_bytes EXCEPT ![in][out][q] = @ + psize]
    BY DEF SendToDev
  <2>3. q \in AllQueues /\ psize \in Int
    BY DataQueues, PacketType
  <2>4. QED
    BY <2>1, <2>2, <2>3
<1>6. UNCHANGED <<m_linkUp, stranded, lastPfc, m_rrlast>>
  BY DEF SendToDev, deviceVars
<1>7. QED
  BY <1>3, <1>4, <1>5, <1>6 DEF Typed

LEMMA SendToDevControlTyped ==
  ASSUME Typed, NEW in \in Ports, NEW out \in Ports, SendToDevControl(in, out)
  PROVE  /\ Typed'
         /\ \A o \in Ports, r \in Queues : egressQ'[o][r] = egressQ[o][r]
         /\ \A i, o \in Ports, r \in Queues : m_bytes'[i][o][r] = m_bytes[i][o][r]
<1>1. /\ egressQ' = [egressQ EXCEPT ![out][ControlQueue] = Append(@, Packet(in, 1))]
      /\ m_bytes' = [m_bytes EXCEPT ![in][out][ControlQueue] = @ + 1]
      /\ UNCHANGED <<mmuVars, egress_bytes, m_linkUp, stranded, deviceVars>>
  BY DEF SendToDevControl
<1>2. Append(egressQ[out][ControlQueue], Packet(in, 1)) \in Seq(Frames)
  BY PacketType, Extended, DataQueues DEF Typed
<1>3. /\ egressQ' \in [Ports -> [AllQueues -> Seq(Frames)]]
      /\ \A o \in Ports, r \in Queues : egressQ'[o][r] = egressQ[o][r]
  BY <1>1, <1>2, DataQueues DEF Typed
<1>4. \A o \in Ports, r \in Queues : egressQ'[o][r] \in Seq(Packets)
  BY <1>3 DEF Typed
<1>5. /\ m_bytes' \in [Ports -> [Ports -> [AllQueues -> Int]]]
      /\ \A i, o \in Ports, r \in Queues : m_bytes'[i][o][r] = m_bytes[i][o][r]
  <2>1. m_bytes \in [Ports -> [Ports -> [AllQueues -> Int]]]
    BY DEF Typed
  <2>2. ControlQueue \in AllQueues /\ \A r \in Queues : r \in AllQueues /\ r # ControlQueue
    BY DataQueues
  <2>3. m_bytes' \in [Ports -> [Ports -> [AllQueues -> Int]]]
    BY <1>1, <2>1, <2>2
  <2>4. \A i, o \in Ports, r \in Queues : m_bytes'[i][o][r] = m_bytes[i][o][r]
    BY <1>1, <2>1, <2>2
  <2>5. QED
    BY <2>3, <2>4
<1>6. QED
  BY <1>1, <1>3, <1>4, <1>5 DEF Typed, mmuVars, deviceVars

LEMMA TakeDownTyped ==
  ASSUME Typed, NEW p \in Ports, TakeDown(p)
  PROVE  /\ Typed' /\ m_linkUp'[p] = FALSE
         /\ \A o \in Ports \ {p} : m_linkUp'[o] = m_linkUp[o] /\ egressQ'[o] = egressQ[o]
         /\ \A r \in AllQueues : egressQ'[p][r] = <<>>
<1>1. /\ egressQ' = [egressQ EXCEPT ![p] = [q \in AllQueues |-> <<>>]]
      /\ stranded' = [pg \in PriorityGroups |->
                        stranded[pg] + BytesFrom(pg[1], egressQ[p][pg[2]])]
      /\ m_linkUp' = [m_linkUp EXCEPT ![p] = FALSE]
      /\ UNCHANGED <<mmuVars, egress_bytes, m_bytes, deviceVars>>
  BY DEF TakeDown, EmptyQueues
<1>2. \A S : <<>> \in Seq(S)
  OBVIOUS
<1>3. /\ egressQ' \in [Ports -> [AllQueues -> Seq(Frames)]]
      /\ \A o \in Ports \ {p} : egressQ'[o] = egressQ[o]
      /\ \A r \in AllQueues : egressQ'[p][r] = <<>>
  BY <1>1, <1>2 DEF Typed
<1>4. \A o \in Ports, r \in Queues : egressQ'[o][r] \in Seq(Packets)
  <2> SUFFICES ASSUME NEW o \in Ports, NEW r \in Queues
               PROVE  egressQ'[o][r] \in Seq(Packets)
    OBVIOUS
  <2>1. CASE o = p
    <3>1. egressQ'[p][r] = <<>>
      BY <1>3, DataQueues
    <3>2. QED
      BY <1>2, <2>1, <3>1
  <2>2. CASE o # p
    <3>1. egressQ'[o] = egressQ[o]
      BY <1>3, <2>2
    <3>2. egressQ[o][r] \in Seq(Packets)
      BY DEF Typed
    <3>3. QED
      BY <3>1, <3>2, Zenon
  <2>3. QED
    BY <2>1, <2>2
<1>5. stranded' \in [PriorityGroups -> Nat]
  <2>1. \A pg \in PriorityGroups : BytesFrom(pg[1], egressQ[p][pg[2]]) \in Nat
    BY BytesFromType DEF Typed, PriorityGroups
  <2>2. stranded \in [PriorityGroups -> Nat]
    BY DEF Typed
  <2>3. QED
    BY <1>1, <2>1, <2>2
<1>6. /\ m_linkUp' \in [Ports -> BOOLEAN] /\ m_linkUp'[p] = FALSE
      /\ \A o \in Ports \ {p} : m_linkUp'[o] = m_linkUp[o]
  BY <1>1 DEF Typed
<1>7. QED
  BY <1>1, <1>3, <1>4, <1>5, <1>6 DEF Typed, mmuVars, deviceVars

-----------------------------------------------------------------------------
(***************************************************************************)
(* The PFC frames of a FIFO.                                               *)
(***************************************************************************)
IsAbout(frame, q) == frame.kind # "packet" /\ frame.queue = q

Truthful(fifo, last, q, kind) == Alternates(fifo, last, q) /\ Tells(fifo, last, q, kind)

\* A frame about something else joins.
LEMMA OtherJoins ==
  ASSUME NEW fifo \in Seq(Frames), NEW frame \in Frames, NEW last, NEW q, NEW kind,
         ~IsAbout(frame, q), Truthful(fifo, last, q, kind)
  PROVE  Truthful(Append(fifo, frame), last, q, kind)
<1> DEFINE longer == Append(fifo, frame)
           n == Len(fifo)
<1>1. /\ n \in Nat /\ DOMAIN fifo = 1..n /\ DOMAIN longer = 1..(n + 1)
      /\ \A i \in 1..n : longer[i] = fifo[i]
      /\ longer[n + 1] = frame
  BY Extended, Elements
<1> HIDE DEF n, longer
<1>2. About(longer, q) = About(fifo, q)
  BY <1>1 DEF About, IsAbout
<1>3. \A i \in About(fifo, q) : longer[i] = fifo[i]
  BY <1>1 DEF About
<1>4. Truthful(longer, last, q, kind)
  BY <1>2, <1>3 DEF Truthful, Alternates, Tells, Precedes
<1>5. QED
  BY <1>4 DEF longer

\* A frame of the other kind joins.
LEMMA NewFrameJoins ==
  ASSUME NEW fifo \in Seq(Frames), NEW frame \in Frames, NEW last, NEW q, NEW kind,
         IsAbout(frame, q), frame.kind # kind, Truthful(fifo, last, q, kind)
  PROVE  Truthful(Append(fifo, frame), last, q, frame.kind)
<1> DEFINE longer == Append(fifo, frame)
           n == Len(fifo)
<1>1. /\ n \in Nat /\ DOMAIN fifo = 1..n /\ DOMAIN longer = 1..(n + 1)
      /\ \A i \in 1..n : longer[i] = fifo[i]
      /\ longer[n + 1] = frame
  BY Extended, Elements
<1> HIDE DEF n, longer
<1>2. About(longer, q) = About(fifo, q) \cup {n + 1}
  <2>1. 1..(n + 1) = (1..n) \cup {n + 1} /\ n + 1 \notin 1..n
    BY <1>1
  <2>2. \A i \in 1..n : i \in About(longer, q) <=> i \in About(fifo, q)
    BY <1>1, <2>1 DEF About
  <2>3. n + 1 \in About(longer, q)
    BY <1>1, <2>1 DEF About, IsAbout
  <2>4. About(longer, q) \subseteq 1..(n + 1) /\ About(fifo, q) \subseteq 1..n
    BY <1>1 DEF About
  <2>5. QED
    BY <2>1, <2>2, <2>3, <2>4
<1>3. \A i \in About(fifo, q) : i \in 1..n /\ longer[i] = fifo[i]
  BY <1>1 DEF About
<1>4. Tells(longer, last, q, frame.kind)
  BY <1>1, <1>2, <1>3 DEF Tells
<1>5. ASSUME NEW j \in About(longer, q)
      PROVE  /\ Precedes(longer, q, 0, j) => longer[j].kind # last
             /\ \A i \in About(longer, q) :
                  Precedes(longer, q, i, j) => longer[i].kind # longer[j].kind
  <2>1. CASE j = n + 1
    <3>1. Precedes(longer, q, 0, j) => longer[j].kind # last
      <4>1. Precedes(longer, q, 0, j) => About(fifo, q) = {}
        <5> SUFFICES ASSUME Precedes(longer, q, 0, j), NEW k \in About(fifo, q)
                     PROVE  FALSE
          OBVIOUS
        <5>1. k \in 1..n /\ k \in About(longer, q)
          BY <1>2, <1>3
        <5>2. k <= 0 \/ n + 1 <= k
          BY <2>1, <5>1 DEF Precedes
        <5>3. QED
          BY <1>1, <5>1, <5>2
      <4>2. QED
        BY <1>1, <2>1, <4>1 DEF Truthful, Tells
    <3>2. ASSUME NEW i \in About(longer, q), Precedes(longer, q, i, j)
          PROVE  longer[i].kind # longer[j].kind
      <4>1. i \in About(fifo, q) /\ \A k \in About(fifo, q) : k <= i
        BY <1>1, <1>2, <1>3, <2>1, <3>2 DEF Precedes
      <4>2. fifo[i].kind = kind
        BY <4>1 DEF Truthful, Tells
      <4>3. QED
        BY <1>1, <1>3, <2>1, <4>1, <4>2
    <3>3. QED
      BY <3>1, <3>2
  <2>2. CASE j \in About(fifo, q)
    <3>1. \A i \in Int : Precedes(longer, q, i, j) => Precedes(fifo, q, i, j)
      BY <1>2 DEF Precedes
    <3>2. Precedes(longer, q, 0, j) => longer[j].kind # last
      BY <1>3, <2>2, <3>1 DEF Truthful, Alternates
    <3>3. ASSUME NEW i \in About(longer, q), Precedes(longer, q, i, j)
          PROVE  longer[i].kind # longer[j].kind
      <4>1. i \in About(fifo, q)
        BY <1>1, <1>2, <1>3, <2>2, <3>3 DEF Precedes
      <4>2. QED
        BY <1>3, <2>2, <3>1, <3>3, <4>1 DEF Truthful, Alternates
    <3>4. QED
      BY <3>2, <3>3
  <2>3. QED
    BY <1>2, <2>1, <2>2
<1>6. Truthful(longer, last, q, frame.kind)
  BY <1>4, <1>5 DEF Truthful, Alternates
<1>7. QED
  BY <1>6 DEF longer

\* The first frame leaves: what it said, if it was about the queue, is now on the wire.
LEMMA FirstLeaves ==
  ASSUME NEW fifo \in Seq(Frames), fifo # <<>>, NEW last, NEW q, NEW kind,
         Truthful(fifo, last, q, kind)
  PROVE  Truthful(Tail(fifo), IF IsAbout(Head(fifo), q) THEN Head(fifo).kind ELSE last,
                  q, kind)
<1> DEFINE shorter == Tail(fifo)
           n == Len(shorter)
           now == IF IsAbout(Head(fifo), q) THEN Head(fifo).kind ELSE last
<1>1. /\ n \in Nat /\ DOMAIN shorter = 1..n /\ DOMAIN fifo = 1..(n + 1)
      /\ \A i \in 1..n : shorter[i] = fifo[i + 1]
      /\ Head(fifo) = fifo[1]
  BY Shortened, Elements
<1> HIDE DEF n, shorter
<1>2. \A i \in 1..n : i \in About(shorter, q) <=> i + 1 \in About(fifo, q)
  BY <1>1 DEF About
<1>3. 1 \in About(fifo, q) <=> IsAbout(Head(fifo), q)
  BY <1>1 DEF About, IsAbout
<1>4. About(shorter, q) \subseteq 1..n /\ About(fifo, q) \subseteq 1..(n + 1)
  BY <1>1 DEF About
<1>5. \A k \in About(fifo, q) : k = 1 \/ (k - 1 \in 1..n /\ k - 1 \in About(shorter, q))
  <2> SUFFICES ASSUME NEW k \in About(fifo, q), k # 1
               PROVE  k - 1 \in 1..n /\ k - 1 \in About(shorter, q)
    OBVIOUS
  <2>1. k - 1 \in 1..n /\ (k - 1) + 1 = k
    BY <1>1, <1>4
  <2>2. QED
    BY <1>2, <2>1
<1>6. Tells(shorter, now, q, kind)
  <2>1. ASSUME About(shorter, q) = {}
        PROVE  now = kind
    <3>1. CASE IsAbout(Head(fifo), q)
      <4>1. 1 \in About(fifo, q) /\ \A k \in About(fifo, q) : k <= 1
        BY <1>3, <1>5, <2>1, <3>1
      <4>2. QED
        BY <1>1, <3>1, <4>1 DEF Truthful, Tells
    <3>2. CASE ~IsAbout(Head(fifo), q)
      <4>1. About(fifo, q) = {}
        BY <1>3, <1>5, <2>1, <3>2
      <4>2. QED
        BY <3>2, <4>1 DEF Truthful, Tells
    <3>3. QED
      BY <3>1, <3>2
  <2>2. ASSUME NEW i \in About(shorter, q), \A j \in About(shorter, q) : j <= i
        PROVE  shorter[i].kind = kind
    <3>1. i \in 1..n /\ i + 1 \in About(fifo, q) /\ shorter[i] = fifo[i + 1]
      BY <1>1, <1>2, <1>4
    <3>2. \A k \in About(fifo, q) : k <= i + 1
      BY <1>1, <1>4, <1>5, <2>2, <3>1
    <3>3. QED
      BY <3>1, <3>2 DEF Truthful, Tells
  <2>3. QED
    BY <2>1, <2>2 DEF Tells
<1>7. ASSUME NEW j \in About(shorter, q)
      PROVE  /\ Precedes(shorter, q, 0, j) => shorter[j].kind # now
             /\ \A i \in About(shorter, q) :
                  Precedes(shorter, q, i, j) => shorter[i].kind # shorter[j].kind
  <2>1. j \in 1..n /\ j + 1 \in About(fifo, q) /\ shorter[j] = fifo[j + 1]
    BY <1>1, <1>2, <1>4
  <2>2. ASSUME NEW i \in 0..n, i = 0 \/ i \in About(shorter, q), Precedes(shorter, q, i, j)
        PROVE  Precedes(fifo, q, i + 1, j + 1)
    <3>1. i + 1 < j + 1
      BY <2>1, <2>2 DEF Precedes
    <3>2. \A k \in About(fifo, q) : k <= i + 1 \/ j + 1 <= k
      <4> SUFFICES ASSUME NEW k \in About(fifo, q)
                   PROVE  k <= i + 1 \/ j + 1 <= k
        OBVIOUS
      <4>1. CASE k = 1
        BY <4>1
      <4>2. CASE k - 1 \in 1..n /\ k - 1 \in About(shorter, q)
        <5>1. k - 1 <= i \/ j <= k - 1
          BY <2>2, <4>2 DEF Precedes
        <5>2. k \in Int
          BY <1>4
        <5>3. QED
          BY <2>1, <5>1, <5>2
      <4>3. QED
        BY <1>5, <4>1, <4>2
    <3>3. QED
      BY <3>1, <3>2 DEF Precedes
  <2>3. ASSUME Precedes(shorter, q, 0, j)
        PROVE  shorter[j].kind # now
    <3>1. Precedes(fifo, q, 1, j + 1)
      BY <1>1, <2>2, <2>3
    <3>2. CASE IsAbout(Head(fifo), q)
      BY <1>1, <1>3, <2>1, <3>1, <3>2 DEF Truthful, Alternates
    <3>3. CASE ~IsAbout(Head(fifo), q)
      <4>1. 1 \notin About(fifo, q)
        BY <1>3, <3>3
      <4>2. Precedes(fifo, q, 0, j + 1)
        BY <1>4, <2>1, <3>1, <4>1 DEF Precedes
      <4>3. QED
        BY <2>1, <3>3, <4>2 DEF Truthful, Alternates
    <3>4. QED
      BY <3>2, <3>3
  <2>4. ASSUME NEW i \in About(shorter, q), Precedes(shorter, q, i, j)
        PROVE  shorter[i].kind # shorter[j].kind
    <3>1. i \in 1..n /\ i + 1 \in About(fifo, q) /\ shorter[i] = fifo[i + 1]
      BY <1>1, <1>2, <1>4
    <3>2. Precedes(fifo, q, i + 1, j + 1)
      BY <2>2, <2>4, <3>1
    <3>3. QED
      BY <2>1, <3>1, <3>2 DEF Truthful, Alternates
  <2>5. QED
    BY <2>3, <2>4
<1>8. Truthful(shorter, now, q, kind)
  BY <1>6, <1>7 DEF Truthful, Alternates
<1>9. QED
  BY <1>8 DEF shorter

-----------------------------------------------------------------------------
(***************************************************************************)
(* The PFC frames alternate and tell what the memory manager believes.     *)
(***************************************************************************)
Believed(p, q) == IF paused[<<p, q>>] THEN "pause" ELSE "resume"

PfcTruth ==
  \A p \in Ports, q \in Queues :
    m_linkUp[p] => Truthful(egressQ[p][ControlQueue], lastPfc[p][q], q, Believed(p, q))

LEMMA InitTruth == Init => PfcTruth
<1> SUFFICES ASSUME Init, NEW p \in Ports, NEW q \in Queues
             PROVE  Truthful(egressQ[p][ControlQueue], lastPfc[p][q], q, Believed(p, q))
  BY DEF PfcTruth
<1>1. egressQ[p][ControlQueue] = <<>> /\ lastPfc[p][q] = "resume" /\ Believed(p, q) = "resume"
  BY DataQueues DEF Init, Believed, PriorityGroups
<1>2. About(<<>>, q) = {}
  BY DEF About
<1>3. QED
  BY <1>1, <1>2 DEF Truthful, Alternates, Tells

\* A decision about one group is announced, or there is none.
LEMMA Announced ==
  ASSUME Typed, PfcTruth, NEW in \in Ports, NEW q \in Queues, NEW kind \in {"pause", "resume"},
         NEW due \in BOOLEAN, UNCHANGED <<m_linkUp, lastPfc>>,
         \A o \in Ports :
           egressQ'[o][ControlQueue] =
             IF o = in /\ due THEN Append(egressQ[o][ControlQueue], Pfc(kind, q))
                              ELSE egressQ[o][ControlQueue],
         \A o \in Ports, r \in Queues :
           Believed(o, r)' = IF o = in /\ r = q /\ due THEN kind ELSE Believed(o, r),
         due => Believed(in, q) # kind
  PROVE  PfcTruth'
<1> SUFFICES ASSUME NEW o \in Ports, NEW r \in Queues, m_linkUp[o]
             PROVE  Truthful(egressQ'[o][ControlQueue], lastPfc[o][r], r, Believed(o, r)')
  BY DEF PfcTruth
<1>1. /\ Truthful(egressQ[o][ControlQueue], lastPfc[o][r], r, Believed(o, r))
      /\ egressQ[o][ControlQueue] \in Seq(Frames)
  BY DataQueues DEF PfcTruth, Typed
<1>2. /\ Pfc(kind, q) \in Frames /\ Pfc(kind, q).kind = kind /\ Pfc(kind, q).queue = q
      /\ IsAbout(Pfc(kind, q), q)
      /\ r # q => ~IsAbout(Pfc(kind, q), r)
  BY PfcFrame DEF Pfc, IsAbout
<1>3. CASE o = in /\ due /\ r = q
  <2>1. egressQ'[o][ControlQueue] = Append(egressQ[o][ControlQueue], Pfc(kind, q))
    BY <1>3
  <2>2. Believed(o, r)' = kind /\ Believed(o, r) # kind
    BY <1>3
  <2>3. Truthful(Append(egressQ[o][ControlQueue], Pfc(kind, q)), lastPfc[o][r], r,
                 Pfc(kind, q).kind)
    BY <1>1, <1>2, <1>3, <2>2, NewFrameJoins
  <2>4. QED
    BY <1>2, <2>1, <2>2, <2>3
<1>4. CASE o = in /\ due /\ r # q
  <2>1. egressQ'[o][ControlQueue] = Append(egressQ[o][ControlQueue], Pfc(kind, q))
    BY <1>4
  <2>2. Believed(o, r)' = Believed(o, r)
    BY <1>4
  <2>3. Truthful(Append(egressQ[o][ControlQueue], Pfc(kind, q)), lastPfc[o][r], r,
                 Believed(o, r))
    BY <1>1, <1>2, <1>4, OtherJoins
  <2>4. QED
    BY <2>1, <2>2, <2>3
<1>5. CASE ~(o = in /\ due)
  <2>1. egressQ'[o][ControlQueue] = egressQ[o][ControlQueue] /\ Believed(o, r)' = Believed(o, r)
    BY <1>5
  <2>2. QED
    BY <1>1, <2>1
<1>6. QED
  BY <1>3, <1>4, <1>5

LEMMA SendDataTruth ==
  ASSUME Typed, PfcTruth, NEW p \in Ports, CanSend(p), SendData(p), UNCHANGED m_linkUp
  PROVE  PfcTruth'
<1>1. PICK q \in Queues, frame \in Packets :
        /\ egressQ[p][q] # <<>>
        /\ NotifyDequeue(p, q, frame)
  BY SendDataEffect
<1>2. frame.in \in Ports
  BY PacketType
<1> DEFINE pg == <<frame.in, q>>
           due == paused[pg] /\ Mmu!CheckShouldResume(pg)'
<1>3. due \in BOOLEAN /\ (ResumeDue(pg) <=> due)
  BY DEF ResumeDue
<1>4. \A o \in Ports :
        egressQ'[o][ControlQueue] =
          IF o = frame.in /\ due THEN Append(egressQ[o][ControlQueue], Pfc("resume", q))
                                 ELSE egressQ[o][ControlQueue]
  <2>1. \A o \in Ports :
          egressQ'[o][ControlQueue] =
            IF o = frame.in /\ ResumeDue(<<frame.in, q>>)
            THEN Append(egressQ[o][ControlQueue], Pfc("resume", q))
            ELSE egressQ[o][ControlQueue]
    BY <1>1, DequeueControlFifo
  <2>2. QED
    BY <1>3, <2>1
<1>5. /\ paused' = [paused EXCEPT ![pg] = @ /\ ~ResumeDue(pg)]
      /\ paused \in [PriorityGroups -> BOOLEAN] /\ pg \in PriorityGroups
      /\ UNCHANGED lastPfc
  BY <1>1, <1>2 DEF NotifyDequeue, Typed, PriorityGroups, SendData
<1>6. due => paused[pg]
  OBVIOUS
<1> HIDE DEF due
<1>7. \A o \in Ports, r \in Queues :
        paused'[<<o, r>>] = IF o = frame.in /\ r = q /\ due THEN FALSE ELSE paused[<<o, r>>]
  <2>1. paused'[pg] = (paused[pg] /\ ~due)
    BY <1>3, <1>5
  <2>2. \A o \in Ports, r \in Queues :
          ~(o = frame.in /\ r = q) => paused'[<<o, r>>] = paused[<<o, r>>]
    BY <1>5 DEF PriorityGroups
  <2>3. (due => paused'[pg] = FALSE) /\ (~due => paused'[pg] = paused[pg])
    <3>1. paused[pg] \in BOOLEAN
      BY <1>5
    <3>2. QED
      BY <1>6, <2>1, <3>1
  <2>4. ASSUME NEW o \in Ports, NEW r \in Queues
        PROVE  paused'[<<o, r>>] =
                 IF o = frame.in /\ r = q /\ due THEN FALSE ELSE paused[<<o, r>>]
    BY <2>2, <2>3
  <2>5. QED
    BY <2>4
<1>8. \A o \in Ports, r \in Queues :
        Believed(o, r)' = IF o = frame.in /\ r = q /\ due THEN "resume" ELSE Believed(o, r)
  BY <1>7 DEF Believed
<1>9. due => Believed(frame.in, q) # "resume"
  BY <1>6 DEF Believed
<1>10. due \in BOOLEAN
  BY <1>3
<1>11. QED
  BY <1>2, <1>4, <1>5, <1>8, <1>9, <1>10, Announced

LEMMA SendToDevTruth ==
  ASSUME Typed, PfcTruth, NEW in \in Ports, NEW out \in Ports, NEW q \in Queues,
         NEW psize \in Sizes, SendToDev(in, out, q, psize)
  PROVE  PfcTruth'
<1> DEFINE pg == <<in, q>>
           due == ~paused[pg] /\ Mmu!CheckShouldPause(pg)'
<1>1. due \in BOOLEAN /\ (PauseDue(pg) <=> due)
  BY DEF PauseDue
<1>2. \A o \in Ports :
        egressQ'[o][ControlQueue] =
          IF o = in /\ due THEN Append(egressQ[o][ControlQueue], Pfc("pause", q))
                           ELSE egressQ[o][ControlQueue]
  <2>1. \A o \in Ports :
          egressQ'[o][ControlQueue] =
            IF o = in /\ PauseDue(<<in, q>>)
            THEN Append(egressQ[o][ControlQueue], Pfc("pause", q))
            ELSE egressQ[o][ControlQueue]
    BY SendControlFifos
  <2>2. QED
    BY <1>1, <2>1
<1>3. /\ paused' = [paused EXCEPT ![pg] = @ \/ PauseDue(pg)]
      /\ paused \in [PriorityGroups -> BOOLEAN] /\ pg \in PriorityGroups
      /\ UNCHANGED <<lastPfc, m_linkUp>>
  BY DEF SendToDev, Typed, PriorityGroups, deviceVars
<1>4. due => ~paused[pg]
  OBVIOUS
<1> HIDE DEF due
<1>5. \A o \in Ports, r \in Queues :
        paused'[<<o, r>>] = IF o = in /\ r = q /\ due THEN TRUE ELSE paused[<<o, r>>]
  <2>1. paused'[pg] = (paused[pg] \/ due)
    BY <1>1, <1>3
  <2>2. \A o \in Ports, r \in Queues :
          ~(o = in /\ r = q) => paused'[<<o, r>>] = paused[<<o, r>>]
    BY <1>3 DEF PriorityGroups
  <2>3. QED
    BY <1>3, <2>1, <2>2
<1>6. \A o \in Ports, r \in Queues :
        Believed(o, r)' = IF o = in /\ r = q /\ due THEN "pause" ELSE Believed(o, r)
  BY <1>5 DEF Believed
<1>7. due => Believed(in, q) # "pause"
  BY <1>4 DEF Believed
<1>8. due \in BOOLEAN
  BY <1>1
<1>9. QED
  BY <1>2, <1>3, <1>6, <1>7, <1>8, Announced

LEMMA SendControlTruth ==
  ASSUME Typed, PfcTruth, NEW p \in Ports, CanSend(p), SendControl(p),
         UNCHANGED <<m_paused, m_linkUp, stranded>>
  PROVE  PfcTruth'
<1> SUFFICES ASSUME NEW o \in Ports, NEW r \in Queues, m_linkUp[o]
             PROVE  Truthful(egressQ'[o][ControlQueue], lastPfc'[o][r], r, Believed(o, r)')
  BY DEF PfcTruth
<1> DEFINE fifo == egressQ[p][ControlQueue]
           frame == Head(fifo)
<1>1. /\ fifo # <<>> /\ fifo \in Seq(Frames)
      /\ Truthful(egressQ[o][ControlQueue], lastPfc[o][r], r, Believed(o, r))
  <2>1. fifo # <<>>
    BY SendControlTyped
  <2>2. fifo \in Seq(Frames)
    BY DataQueues DEF Typed
  <2>3. Truthful(egressQ[o][ControlQueue], lastPfc[o][r], r, Believed(o, r))
    BY DEF PfcTruth
  <2>4. QED
    BY <2>1, <2>2, <2>3
<1>2. /\ egressQ' = [egressQ EXCEPT ![p][ControlQueue] = Tail(@)]
      /\ lastPfc' = IF frame.kind = "packet" THEN lastPfc
                    ELSE [lastPfc EXCEPT ![p][frame.queue] = frame.kind]
      /\ UNCHANGED paused
  BY DEF SendControl, mmuVars
<1>3. Believed(o, r)' = Believed(o, r)
  BY <1>2 DEF Believed
<1>4. CASE o # p
  <2>1. egressQ'[o] = egressQ[o] /\ lastPfc'[o] = lastPfc[o]
    BY <1>2, <1>4 DEF Typed
  <2>2. QED
    BY <1>1, <1>3, <2>1
<1>5. CASE o = p
  <2>1. egressQ'[o][ControlQueue] = Tail(fifo)
    BY <1>2, <1>5, DataQueues DEF Typed
  <2>2. lastPfc'[o][r] = IF IsAbout(frame, r) THEN frame.kind ELSE lastPfc[o][r]
    <3>1. lastPfc \in [Ports -> [Queues -> {"pause", "resume"}]]
      BY DEF Typed
    <3>2. CASE frame.kind = "packet"
      BY <1>2, <3>2 DEF IsAbout
    <3>3. CASE frame.kind # "packet"
      BY <1>2, <1>5, <3>1, <3>3 DEF IsAbout
    <3>4. QED
      BY <3>2, <3>3
  <2>3. Truthful(Tail(fifo), IF IsAbout(frame, r) THEN frame.kind ELSE lastPfc[o][r],
                 r, Believed(o, r))
    BY <1>1, <1>5, FirstLeaves
  <2>4. QED
    BY <1>3, <2>1, <2>2, <2>3
<1>6. QED
  BY <1>4, <1>5

LEMMA SendToDevControlTruth ==
  ASSUME Typed, PfcTruth, NEW in \in Ports, NEW out \in Ports, SendToDevControl(in, out)
  PROVE  PfcTruth'
<1> SUFFICES ASSUME NEW o \in Ports, NEW r \in Queues, m_linkUp[o]
             PROVE  Truthful(egressQ'[o][ControlQueue], lastPfc[o][r], r, Believed(o, r))
  BY DEF PfcTruth, SendToDevControl, mmuVars, deviceVars, Believed
<1>1. /\ Truthful(egressQ[o][ControlQueue], lastPfc[o][r], r, Believed(o, r))
      /\ egressQ[o][ControlQueue] \in Seq(Frames)
  BY DataQueues DEF PfcTruth, Typed
<1>2. Packet(in, 1) \in Frames /\ ~IsAbout(Packet(in, 1), r)
  BY PacketType DEF IsAbout
<1>3. egressQ' = [egressQ EXCEPT ![out][ControlQueue] = Append(@, Packet(in, 1))]
  BY DEF SendToDevControl
<1>4. CASE o = out
  <2>1. egressQ'[o][ControlQueue] = Append(egressQ[o][ControlQueue], Packet(in, 1))
    BY <1>3, <1>4, DataQueues DEF Typed
  <2>2. QED
    BY <1>1, <1>2, <2>1, OtherJoins
<1>5. CASE o # out
  BY <1>1, <1>3, <1>5 DEF Typed
<1>6. QED
  BY <1>4, <1>5

LEMMA TakeDownTruth ==
  ASSUME Typed, PfcTruth, NEW p \in Ports, TakeDown(p)
  PROVE  PfcTruth'
<1>1. /\ m_linkUp'[p] = FALSE
      /\ \A o \in Ports \ {p} : m_linkUp'[o] = m_linkUp[o] /\ egressQ'[o] = egressQ[o]
      /\ UNCHANGED <<lastPfc, paused>>
  BY TakeDownTyped DEF TakeDown, mmuVars, deviceVars
<1>2. QED
  BY <1>1 DEF PfcTruth, Believed

-----------------------------------------------------------------------------
(***************************************************************************)
(* The bytes of the groups and the counters, when one FIFO changes.        *)
(***************************************************************************)
LEMMA PortsFinite == IsFiniteSet(Ports)
  BY MmuAssumption DEF Mmu!ConstantsAssumption, Mmu!IsFiniteSet, IsFiniteSet

LEMMA PerPortType ==
  ASSUME Typed, NEW pg \in PriorityGroups
  PROVE  /\ BytesPerPort(pg) \in [Ports -> Nat]
         /\ SumOf(BytesPerPort(pg)) \in Nat
         /\ ChargedBytes[pg] = SumOf(BytesPerPort(pg)) + stranded[pg]
         /\ ChargedBytes[pg] \in Nat
<1>1. pg[1] \in Ports /\ pg[2] \in Queues
  BY DEF PriorityGroups
<1>2. BytesPerPort(pg) \in [Ports -> Nat]
  BY <1>1, BytesFromType DEF BytesPerPort, Typed
<1>3. SumOf(BytesPerPort(pg)) \in Nat
  BY <1>2, PortsFinite, UnitsFinite
<1>4. ChargedBytes[pg] = SumOf(BytesPerPort(pg)) + stranded[pg]
  BY DEF ChargedBytes
<1>5. stranded[pg] \in Nat
  BY DEF Typed
<1>6. QED
  BY <1>2, <1>3, <1>4, <1>5

\* The bytes of one FIFO that came in by a port change by n, the others do not.
FifoChanges(c, q, in, n) ==
  /\ \A o \in Ports, r \in Queues : ~(o = c /\ r = q) => egressQ'[o][r] = egressQ[o][r]
  /\ \A i \in Ports :
       BytesFrom(i, egressQ'[c][q])
         = BytesFrom(i, egressQ[c][q]) + (IF i = in THEN n ELSE 0)

LEMMA ChargedStep ==
  ASSUME Typed, Typed', NEW c \in Ports, NEW q \in Queues, NEW in \in Ports, NEW n \in Int,
         FifoChanges(c, q, in, n), UNCHANGED stranded
  PROVE  ChargedBytes' = [ChargedBytes EXCEPT ![<<in, q>>] = @ + n]
<1>1. ASSUME NEW i \in Ports, NEW r \in Queues
      PROVE  ChargedBytes'[<<i, r>>]
               = ChargedBytes[<<i, r>>] + (IF i = in /\ r = q THEN n ELSE 0)
  <2> DEFINE pg == <<i, r>>
             f == [out \in Ports |-> BytesFrom(i, egressQ[out][r])]
             g == [out \in Ports |-> BytesFrom(i, egressQ'[out][r])]
  <2>1. pg \in PriorityGroups /\ pg[1] = i /\ pg[2] = r
    BY DEF PriorityGroups
  <2>2. /\ f \in [Ports -> Nat] /\ g \in [Ports -> Nat] /\ SumOf(f) \in Nat /\ SumOf(g) \in Nat
    <3>1. \A out \in Ports : BytesFrom(i, egressQ[out][r]) \in Nat
      BY BytesFromType DEF Typed
    <3>2. \A out \in Ports : BytesFrom(i, egressQ'[out][r]) \in Nat
      BY BytesFromType DEF Typed
    <3>3. f \in [Ports -> Nat] /\ g \in [Ports -> Nat]
      BY <3>1, <3>2
    <3>4. QED
      BY <3>3, PortsFinite, UnitsFinite
  <2>3. /\ ChargedBytes[pg] = SumOf(f) + stranded[pg]
        /\ ChargedBytes'[pg] = SumOf(g) + stranded[pg]
    BY <2>1 DEF ChargedBytes, BytesPerPort
  <2>4. stranded[pg] \in Nat
    BY <2>1 DEF Typed
  <2>5. SumOf(g) = SumOf(f) + (IF i = in /\ r = q THEN n ELSE 0)
    <3>1. CASE r # q
      <4>1. f = g
        BY <3>1 DEF FifoChanges
      <4>2. QED
        BY <2>2, <3>1, <4>1
    <3>2. CASE r = q
      <4>1. \A o \in Ports \ {c} : g[o] = f[o]
        BY <3>2 DEF FifoChanges
      <4>2. g[c] = f[c] + (IF i = in THEN n ELSE 0)
        BY <3>2 DEF FifoChanges
      <4>3. SumOf(g) = SumOf(f) - f[c] + g[c]
        BY <2>2, <4>1, PortsFinite, SumUpdate
      <4>4. f[c] \in Nat /\ g[c] \in Nat
        BY <2>2
      <4> HIDE DEF f, g
      <4>5. QED
        BY <2>2, <3>2, <4>2, <4>3, <4>4
    <3>3. QED
      BY <3>1, <3>2
  <2> HIDE DEF f, g
  <2>6. QED
    BY <2>2, <2>3, <2>4, <2>5
<1>2. /\ ChargedBytes = [pg \in PriorityGroups |-> ChargedBytes[pg]]
      /\ ChargedBytes' = [pg \in PriorityGroups |-> ChargedBytes'[pg]]
  BY DEF ChargedBytes
<1>3. \A pg \in PriorityGroups :
        ChargedBytes'[pg] = IF pg = <<in, q>> THEN ChargedBytes[pg] + n ELSE ChargedBytes[pg]
  <2> SUFFICES ASSUME NEW pg \in PriorityGroups
               PROVE  ChargedBytes'[pg] =
                        IF pg = <<in, q>> THEN ChargedBytes[pg] + n ELSE ChargedBytes[pg]
    OBVIOUS
  <2>1. PICK i \in Ports, r \in Queues : pg = <<i, r>>
    BY DEF PriorityGroups
  <2>2. ChargedBytes[pg] \in Nat
    BY PerPortType
  <2>3. ChargedBytes'[pg] = ChargedBytes[pg] + (IF i = in /\ r = q THEN n ELSE 0)
    BY <1>1, <2>1
  <2>4. QED
    BY <2>1, <2>2, <2>3
<1>4. QED
  BY <1>2, <1>3

LEMMA CountersStep ==
  ASSUME Typed, Typed', CountersMatchQueues,
         NEW c \in Ports, NEW q \in Queues, NEW in \in Ports, NEW n \in Int,
         FifoChanges(c, q, in, n), UNCHANGED m_linkUp,
         \A i, o \in Ports, r \in Queues :
           m_bytes'[i][o][r]
             = m_bytes[i][o][r] + (IF i = in /\ o = c /\ r = q THEN n ELSE 0),
         \A o \in Ports, r \in Queues :
           egress_bytes'[o][r] = egress_bytes[o][r] + (IF o = c /\ r = q THEN n ELSE 0)
  PROVE  CountersMatchQueues'
<1> SUFFICES ASSUME NEW o \in Ports, NEW r \in Queues, m_linkUp[o]
             PROVE  /\ \A i \in Ports : m_bytes'[i][o][r] = BytesFrom(i, egressQ'[o][r])
                    /\ egress_bytes'[o][r]
                         = SumOf([i \in Ports |-> BytesFrom(i, egressQ'[o][r])])
  BY DEF CountersMatchQueues
<1> DEFINE f == [i \in Ports |-> BytesFrom(i, egressQ[o][r])]
           g == [i \in Ports |-> BytesFrom(i, egressQ'[o][r])]
<1>1. /\ \A i \in Ports : m_bytes[i][o][r] = f[i]
      /\ egress_bytes[o][r] = SumOf(f)
  BY DEF CountersMatchQueues
<1>2. f \in [Ports -> Nat] /\ g \in [Ports -> Nat] /\ SumOf(f) \in Nat
  <2>1. \A i \in Ports : BytesFrom(i, egressQ[o][r]) \in Nat
    BY BytesFromType DEF Typed
  <2>2. \A i \in Ports : BytesFrom(i, egressQ'[o][r]) \in Nat
    BY BytesFromType DEF Typed
  <2>3. f \in [Ports -> Nat] /\ g \in [Ports -> Nat]
    BY <2>1, <2>2
  <2>4. QED
    BY <2>3, PortsFinite, UnitsFinite
<1>3. CASE ~(o = c /\ r = q)
  <2>1. f = g
    BY <1>3 DEF FifoChanges
  <2>2. /\ \A i \in Ports : m_bytes'[i][o][r] = m_bytes[i][o][r] + 0
        /\ egress_bytes'[o][r] = egress_bytes[o][r] + 0
    BY <1>3
  <2> HIDE DEF f, g
  <2>3. /\ \A i \in Ports : m_bytes'[i][o][r] = g[i]
        /\ egress_bytes'[o][r] = SumOf(g)
    BY <1>1, <1>2, <2>1, <2>2
  <2>4. QED
    BY <2>3 DEF g
<1>4. CASE o = c /\ r = q
  <2>1. \A i \in Ports : g[i] = f[i] + (IF i = in THEN n ELSE 0)
    BY <1>4 DEF FifoChanges
  <2>2. \A i \in Ports \ {in} : g[i] = f[i]
    BY <1>2, <2>1
  <2>3. SumOf(g) = SumOf(f) - f[in] + g[in]
    BY <1>2, <2>2, PortsFinite, SumUpdate
  <2>4. \A i \in Ports : m_bytes'[i][o][r] = m_bytes[i][o][r] + (IF i = in THEN n ELSE 0)
    BY <1>4
  <2>5. egress_bytes'[o][r] = egress_bytes[o][r] + n
    BY <1>4
  <2>6. f[in] \in Nat /\ g[in] \in Nat
    BY <1>2
  <2> HIDE DEF f, g
  <2>7. SumOf(g) = SumOf(f) + n
    BY <1>2, <2>1, <2>3, <2>6
  <2>8. /\ \A i \in Ports : m_bytes'[i][o][r] = g[i]
        /\ egress_bytes'[o][r] = SumOf(g)
    BY <1>1, <2>1, <2>4, <2>5, <2>7
  <2>9. QED
    BY <2>8 DEF g
<1>5. QED
  BY <1>3, <1>4

-----------------------------------------------------------------------------
(***************************************************************************)
(* Every packet that is enqueued or dequeued is a step of the memory       *)
(* manager.                                                                *)
(***************************************************************************)
MmuVars == <<shared_used_bytes, hdrm_bytes, ingress_bytes, paused, ChargedBytes>>

LEMMA SendToDevStep ==
  ASSUME Typed, Typed', CountersMatchQueues,
         NEW in \in Ports, NEW out \in Ports, NEW q \in Queues, NEW psize \in Sizes,
         SendToDev(in, out, q, psize)
  PROVE  CountersMatchQueues' /\ Mmu!Next
<1>1. FifoChanges(out, q, in, psize)
  <2>1. /\ egressQ'[out][q] = Append(egressQ[out][q], Packet(in, psize))
        /\ \A o \in Ports, r \in Queues :
             ~(o = out /\ r = q) => egressQ'[o][r] = egressQ[o][r]
    BY SendDataFifos
  <2>2. ASSUME NEW i \in Ports
        PROVE  BytesFrom(i, egressQ'[out][q])
                 = BytesFrom(i, egressQ[out][q]) + (IF i = in THEN psize ELSE 0)
    <3>1. BytesFrom(i, egressQ'[out][q])
            = BytesFrom(i, egressQ[out][q]) + SizeFrom(i, Packet(in, psize))
      BY <2>1, PacketType, BytesAppended DEF Typed
    <3>2. SizeFrom(i, Packet(in, psize)) = IF i = in THEN psize ELSE 0
      BY PacketType DEF SizeFrom
    <3>3. QED
      BY <3>1, <3>2
  <2>3. QED
    BY <2>1, <2>2 DEF FifoChanges
<1>2. psize \in Int /\ q \in AllQueues
  BY PacketType, DataQueues
<1>3. CountersMatchQueues'
  <2>1. /\ egress_bytes' = [egress_bytes EXCEPT ![out][q] = @ + psize]
        /\ m_bytes' = [m_bytes EXCEPT ![in][out][q] = @ + psize]
        /\ UNCHANGED m_linkUp
    BY DEF SendToDev
  <2>2. /\ m_bytes \in [Ports -> [Ports -> [AllQueues -> Int]]]
        /\ egress_bytes \in [Ports -> [Queues -> Int]]
        /\ Queues \subseteq AllQueues
    BY DataQueues DEF Typed
  <2>3. \A i, o \in Ports, r \in Queues :
          m_bytes'[i][o][r]
            = m_bytes[i][o][r] + (IF i = in /\ o = out /\ r = q THEN psize ELSE 0)
    BY <1>2, <2>1, <2>2
  <2>4. \A o \in Ports, r \in Queues :
          egress_bytes'[o][r] = egress_bytes[o][r] + (IF o = out /\ r = q THEN psize ELSE 0)
    BY <1>2, <2>1, <2>2
  <2>5. QED
    BY <1>1, <1>2, <2>1, <2>3, <2>4, CountersStep
<1>4. Mmu!Admit(<<in, q>>, psize)
  <2> DEFINE pg == <<in, q>>
  <2>1. ChargedBytes' = [ChargedBytes EXCEPT ![pg] = @ + psize]
    BY <1>1, <1>2, ChargedStep DEF SendToDev
  <2>2. paused' = [paused EXCEPT ![pg] = @ \/ Mmu!CheckShouldPause(pg)']
    <3>1. paused' = [paused EXCEPT ![pg] = @ \/ PauseDue(pg)]
      BY DEF SendToDev
    <3>2. (paused[pg] \/ PauseDue(pg)) = (paused[pg] \/ Mmu!CheckShouldPause(pg)')
      BY DEF PauseDue
    <3>3. QED
      BY <3>1, <3>2
  <2>3. /\ Mmu!CheckIngressAdmission(pg, psize)
        /\ Mmu!UpdateIngressAdmission(pg, psize)
    BY DEF SendToDev
  <2>4. QED
    BY <2>1, <2>2, <2>3 DEF Mmu!Admit
<1>5. <<in, q>> \in Mmu!PriorityGroups
  BY DEF Mmu!PriorityGroups
<1>6. QED
  BY <1>3, <1>4, <1>5 DEF Mmu!Next

LEMMA SendDataStep ==
  ASSUME Typed, Typed', CountersMatchQueues, NEW p \in Ports, CanSend(p), SendData(p),
         UNCHANGED <<m_paused, m_linkUp, stranded>>
  PROVE  CountersMatchQueues' /\ Mmu!Next
<1>1. PICK q \in Queues, frame \in Packets :
        /\ egressQ[p][q] # <<>> /\ frame = Head(egressQ[p][q])
        /\ NotifyDequeue(p, q, frame)
  BY SendDataEffect
<1> DEFINE in == frame.in
           psize == frame.size
<1>2. in \in Ports /\ psize \in Sizes /\ psize \in Int /\ -psize \in Int /\ q \in AllQueues
  BY PacketType, DataQueues
<1>3. /\ \A i \in Ports :
           BytesFrom(i, Tail(egressQ[p][q])) = BytesFrom(i, egressQ[p][q]) - SizeFrom(i, frame)
      /\ \A i \in Ports : BytesFrom(i, egressQ[p][q]) \in Nat
      /\ \A i \in Ports : BytesFrom(i, Tail(egressQ[p][q])) \in Nat
  <2>1. egressQ[p][q] \in Seq(Packets) /\ Tail(egressQ[p][q]) \in Seq(Packets)
    BY <1>1, Shortened DEF Typed
  <2>2. QED
    BY <1>1, <2>1, BytesTail, BytesFromType
<1>4. FifoChanges(p, q, in, -psize)
  <2>1. \A o \in Ports, r \in Queues :
          egressQ'[o][r] = IF o = p /\ r = q THEN Tail(egressQ[o][r]) ELSE egressQ[o][r]
    BY <1>1, DequeueFifos
  <2>2. egressQ'[p][q] = Tail(egressQ[p][q])
    BY <2>1
  <2>3. ASSUME NEW i \in Ports
        PROVE  BytesFrom(i, egressQ'[p][q])
                 = BytesFrom(i, egressQ[p][q]) + (IF i = in THEN -psize ELSE 0)
    <3>1. BytesFrom(i, egressQ'[p][q]) = BytesFrom(i, egressQ[p][q]) - SizeFrom(i, frame)
      BY <1>3, <2>2
    <3>2. SizeFrom(i, frame) = IF i = in THEN psize ELSE 0
      BY DEF SizeFrom
    <3>3. BytesFrom(i, egressQ[p][q]) \in Nat
      BY <1>3
    <3>4. QED
      BY <1>2, <3>1, <3>2, <3>3
  <2>4. QED
    BY <2>1, <2>3 DEF FifoChanges
<1>5. CountersMatchQueues'
  <2>1. /\ egress_bytes' = [egress_bytes EXCEPT ![p][q] = @ - psize]
        /\ m_bytes' = [m_bytes EXCEPT ![in][p][q] = @ - psize]
    BY <1>1 DEF NotifyDequeue
  <2>2. /\ m_bytes \in [Ports -> [Ports -> [AllQueues -> Int]]]
        /\ egress_bytes \in [Ports -> [Queues -> Int]]
        /\ Queues \subseteq AllQueues
    BY DataQueues DEF Typed
  <2> HIDE DEF in, psize
  <2>3. \A i, o \in Ports, r \in Queues :
          m_bytes'[i][o][r]
            = m_bytes[i][o][r] + (IF i = in /\ o = p /\ r = q THEN -psize ELSE 0)
    BY <1>2, <2>1, <2>2
  <2>4. \A o \in Ports, r \in Queues :
          egress_bytes'[o][r] = egress_bytes[o][r] + (IF o = p /\ r = q THEN -psize ELSE 0)
    BY <1>2, <2>1, <2>2
  <2>5. QED
    BY <1>2, <1>4, <2>3, <2>4, CountersStep, Zenon
<1>6. Mmu!Dequeue(<<in, q>>, psize)
  <2> DEFINE pg == <<in, q>>
  <2>1. pg \in PriorityGroups /\ pg[1] = in /\ pg[2] = q
    BY <1>2 DEF PriorityGroups
  <2>2. ChargedBytes' = [ChargedBytes EXCEPT ![pg] = @ - psize]
    <3>1. ChargedBytes' = [ChargedBytes EXCEPT ![pg] = @ + (-psize)]
      BY <1>2, <1>4, ChargedStep
    <3>2. ChargedBytes[pg] \in Nat
      BY <2>1, PerPortType
    <3>3. ChargedBytes[pg] + (-psize) = ChargedBytes[pg] - psize
      BY <1>2, <3>2
    <3>4. QED
      BY <3>1, <3>3
  <2>3. psize <= ChargedBytes[pg]
    <3>1. SizeFrom(in, frame) = psize
      BY DEF SizeFrom
    <3>2. /\ BytesFrom(in, egressQ[p][q]) \in Nat
          /\ BytesFrom(in, egressQ[p][q]) - psize \in Nat
      BY <1>2, <1>3, <3>1
    <3>3. psize <= BytesFrom(in, egressQ[p][q])
      BY <1>2, <3>2
    <3>4. BytesPerPort(pg)[p] <= SumOf(BytesPerPort(pg))
      BY <2>1, PerPortType, PortsFinite, TermBelowSum
    <3>5. BytesPerPort(pg)[p] = BytesFrom(in, egressQ[p][q])
      BY <2>1 DEF BytesPerPort
    <3>6. stranded[pg] \in Nat
      BY <2>1 DEF Typed
    <3>7. SumOf(BytesPerPort(pg)) \in Nat
          /\ ChargedBytes[pg] = SumOf(BytesPerPort(pg)) + stranded[pg]
      BY <2>1, PerPortType
    <3> HIDE DEF psize, pg
    <3>8. QED
      BY <1>2, <3>2, <3>3, <3>4, <3>5, <3>6, <3>7
  <2>4. paused' = [paused EXCEPT ![pg] = @ /\ ~Mmu!CheckShouldResume(pg)']
    <3>1. paused' = [paused EXCEPT ![pg] = @ /\ ~ResumeDue(pg)]
      BY <1>1 DEF NotifyDequeue
    <3>2. (paused[pg] /\ ~ResumeDue(pg)) = (paused[pg] /\ ~Mmu!CheckShouldResume(pg)')
      BY Zenon DEF ResumeDue
    <3>3. QED
      BY <3>1, <3>2
  <2>5. Mmu!RemoveFromIngressAdmission(pg, psize)
    BY <1>1 DEF NotifyDequeue
  <2>6. QED
    BY <2>2, <2>3, <2>4, <2>5 DEF Mmu!Dequeue
<1>7. <<in, q>> \in Mmu!PriorityGroups
  BY <1>2 DEF Mmu!PriorityGroups
<1>8. QED
  BY <1>2, <1>5, <1>6, <1>7 DEF Mmu!Next

\* A step that leaves the data queues and what was thrown away alone.
LEMMA DataUntouched ==
  ASSUME Typed, CountersMatchQueues,
         \A o \in Ports, r \in Queues : egressQ'[o][r] = egressQ[o][r],
         \A i, o \in Ports, r \in Queues : m_bytes'[i][o][r] = m_bytes[i][o][r],
         UNCHANGED <<mmuVars, egress_bytes, m_linkUp, stranded>>
  PROVE  CountersMatchQueues' /\ UNCHANGED MmuVars
<1>1. CountersMatchQueues'
  BY DEF CountersMatchQueues
<1>2. ChargedBytes' = ChargedBytes
  <2>1. \A pg \in PriorityGroups : BytesPerPort(pg)' = BytesPerPort(pg)
    BY DEF BytesPerPort, PriorityGroups
  <2>2. QED
    BY <2>1 DEF ChargedBytes
<1>3. QED
  BY <1>1, <1>2 DEF MmuVars, mmuVars

\* TakeDown throws bytes away and tells nobody: they stay charged.
LEMMA TakeDownStep ==
  ASSUME Typed, Typed', CountersMatchQueues, NEW p \in Ports, TakeDown(p)
  PROVE  CountersMatchQueues' /\ UNCHANGED MmuVars
<1>1. /\ m_linkUp'[p] = FALSE
      /\ \A o \in Ports \ {p} : m_linkUp'[o] = m_linkUp[o] /\ egressQ'[o] = egressQ[o]
      /\ \A r \in Queues : egressQ'[p][r] = <<>>
      /\ UNCHANGED <<mmuVars, egress_bytes, m_bytes>>
      /\ stranded' = [pg \in PriorityGroups |->
                        stranded[pg] + BytesFrom(pg[1], egressQ[p][pg[2]])]
  BY TakeDownTyped, DataQueues DEF TakeDown, EmptyQueues
<1>2. CountersMatchQueues'
  BY <1>1 DEF CountersMatchQueues
<1>3. ASSUME NEW pg \in PriorityGroups
      PROVE  ChargedBytes'[pg] = ChargedBytes[pg]
  <2> DEFINE f == [out \in Ports |-> BytesFrom(pg[1], egressQ[out][pg[2]])]
             g == [out \in Ports |-> BytesFrom(pg[1], egressQ'[out][pg[2]])]
  <2>1. pg[1] \in Ports /\ pg[2] \in Queues
    BY DEF PriorityGroups
  <2>2. /\ f \in [Ports -> Nat] /\ g \in [Ports -> Nat] /\ SumOf(f) \in Nat
    <3>1. \A out \in Ports : BytesFrom(pg[1], egressQ[out][pg[2]]) \in Nat
      BY <2>1, BytesFromType DEF Typed
    <3>2. \A out \in Ports : BytesFrom(pg[1], egressQ'[out][pg[2]]) \in Nat
      BY <2>1, BytesFromType DEF Typed
    <3>3. f \in [Ports -> Nat] /\ g \in [Ports -> Nat]
      BY <3>1, <3>2
    <3>4. QED
      BY <3>3, PortsFinite, UnitsFinite
  <2>3. g[p] = 0 /\ \A o \in Ports \ {p} : g[o] = f[o]
    BY <1>1, <2>1, BytesOfEmpty
  <2>4. SumOf(g) = SumOf(f) - f[p] + g[p]
    BY <2>2, <2>3, PortsFinite, SumUpdate
  <2>5. /\ ChargedBytes[pg] = SumOf(f) + stranded[pg]
        /\ ChargedBytes'[pg] = SumOf(g) + stranded'[pg]
    BY DEF ChargedBytes, BytesPerPort
  <2>6. stranded'[pg] = stranded[pg] + f[p] /\ stranded[pg] \in Nat /\ f[p] \in Nat
    BY <1>1, <2>2 DEF Typed
  <2> HIDE DEF f, g
  <2>7. QED
    BY <2>2, <2>3, <2>4, <2>5, <2>6
<1>4. /\ ChargedBytes = [pg \in PriorityGroups |-> ChargedBytes[pg]]
      /\ ChargedBytes' = [pg \in PriorityGroups |-> ChargedBytes'[pg]]
  BY DEF ChargedBytes
<1>5. ChargedBytes' = ChargedBytes
  BY <1>3, <1>4
<1>6. QED
  BY <1>1, <1>2, <1>5 DEF MmuVars, mmuVars

-----------------------------------------------------------------------------
(***************************************************************************)
(* The invariant, and the theorems.                                        *)
(***************************************************************************)
Honest == Typed /\ PfcTruth /\ CountersMatchQueues

LEMMA InitHonest == Init => Honest /\ Mmu!Init
<1> SUFFICES ASSUME Init PROVE Honest /\ Mmu!Init
  OBVIOUS
<1>1. Typed /\ PfcTruth
  BY InitTyped, InitTruth
<1>2. \A i \in Ports, o \in Ports, q \in Queues : BytesFrom(i, egressQ[o][q]) = 0
  BY DataQueues, BytesOfEmpty DEF Init
<1>3. CountersMatchQueues
  <2> SUFFICES ASSUME NEW o \in Ports, NEW q \in Queues
               PROVE  /\ \A i \in Ports : m_bytes[i][o][q] = BytesFrom(i, egressQ[o][q])
                      /\ egress_bytes[o][q]
                           = SumOf([i \in Ports |-> BytesFrom(i, egressQ[o][q])])
    BY DEF CountersMatchQueues
  <2>1. \A i \in Ports : m_bytes[i][o][q] = 0
    BY DataQueues DEF Init
  <2>2. egress_bytes[o][q] = 0
    BY DEF Init
  <2>3. SumOf([i \in Ports |-> BytesFrom(i, egressQ[o][q])]) = 0
    BY <1>2, SumOfZeros
  <2>4. QED
    BY <1>2, <2>1, <2>2, <2>3
<1>4. ChargedBytes = [pg \in PriorityGroups |-> 0]
  <2>1. ASSUME NEW pg \in PriorityGroups
        PROVE  SumOf(BytesPerPort(pg)) + stranded[pg] = 0
    <3>1. /\ BytesPerPort(pg) \in [Ports -> Nat]
          /\ \A o \in Ports : BytesPerPort(pg)[o] = 0
      BY <1>2 DEF BytesPerPort, PriorityGroups
    <3>2. SumOf(BytesPerPort(pg)) = 0
      BY <3>1, SumOfZeros
    <3>3. stranded[pg] = 0
      BY DEF Init
    <3>4. QED
      BY <3>2, <3>3
  <2>2. QED
    BY <2>1 DEF ChargedBytes
<1>5. Mmu!Init
  BY <1>4 DEF Init, Mmu!Init, Mmu!PriorityGroups, PriorityGroups
<1>6. QED
  BY <1>1, <1>3, <1>5 DEF Honest

LEMMA TransmitHonest ==
  ASSUME Honest, NEW p \in Ports, DequeueAndTransmit(p)
  PROVE  Honest' /\ (Mmu!Next \/ UNCHANGED MmuVars)
<1>1. CanSend(p) /\ UNCHANGED <<m_paused, m_linkUp, stranded>>
  BY DEF DequeueAndTransmit
<1>2. CASE SendControl(p)
  <2>1. Typed' /\ PfcTruth'
    BY <1>1, <1>2, SendControlTyped, SendControlTruth DEF Honest
  <2>2. egressQ' = [egressQ EXCEPT ![p][ControlQueue] = Tail(@)]
        /\ UNCHANGED <<mmuVars, egress_bytes, m_bytes>>
    BY <1>2 DEF SendControl
  <2>3. \A o \in Ports, r \in Queues : egressQ'[o][r] = egressQ[o][r]
    BY <2>2, DataQueues DEF Honest, Typed
  <2>4. CountersMatchQueues' /\ UNCHANGED MmuVars
    BY <1>1, <2>2, <2>3, DataUntouched DEF Honest
  <2>5. QED
    BY <2>1, <2>4 DEF Honest
<1>3. CASE SendData(p)
  <2>1. Typed' /\ PfcTruth'
    BY <1>1, <1>3, SendDataTyped, SendDataTruth DEF Honest
  <2>2. CountersMatchQueues' /\ Mmu!Next
    BY <1>1, <1>3, <2>1, SendDataStep DEF Honest
  <2>3. QED
    BY <2>1, <2>2 DEF Honest
<1>4. QED
  BY <1>2, <1>3 DEF DequeueAndTransmit

\* Steps that concern neither packets nor PFC frames.
LEMMA QuietHonest ==
  ASSUME Honest,
         UNCHANGED <<mmuVars, egress_bytes, m_bytes, egressQ, m_linkUp, stranded,
                     m_rrlast, lastPfc>>
  PROVE  Honest' /\ UNCHANGED MmuVars
<1>1. Typed'
  BY DEF Honest, Typed, mmuVars
<1>2. PfcTruth'
  BY DEF Honest, PfcTruth, Believed, mmuVars
<1>3. CountersMatchQueues' /\ UNCHANGED MmuVars
  BY DataUntouched DEF Honest
<1>4. QED
  BY <1>1, <1>2, <1>3 DEF Honest

LEMMA NextHonest ==
  Honest /\ [Next]_vars => Honest' /\ (Mmu!Next \/ UNCHANGED MmuVars)
<1> SUFFICES ASSUME Honest, [Next]_vars
             PROVE  Honest' /\ (Mmu!Next \/ UNCHANGED MmuVars)
  OBVIOUS
<1>1. ASSUME NEW p \in Ports, StartIdle(p) \/ TransmitNext(p)
      PROVE  Honest' /\ (Mmu!Next \/ UNCHANGED MmuVars)
  BY <1>1, TransmitHonest DEF StartIdle, TransmitNext
<1>2. ASSUME NEW p \in Ports, TransmitLast(p)
      PROVE  Honest' /\ UNCHANGED MmuVars
  BY <1>2, QuietHonest DEF TransmitLast
<1>3. ASSUME NEW p \in Ports, TakeDown(p)
      PROVE  Honest' /\ UNCHANGED MmuVars
  BY <1>3, TakeDownTyped, TakeDownTruth, TakeDownStep DEF Honest
<1>4. ASSUME NEW in \in Ports, NEW out \in Ports, NEW q \in Queues, NEW psize \in Sizes,
             SendToDev(in, out, q, psize)
      PROVE  Honest' /\ Mmu!Next
  BY <1>4, SendToDevTyped, SendToDevTruth, SendToDevStep DEF Honest
<1>5. ASSUME NEW in \in Ports, NEW out \in Ports, SendToDevControl(in, out)
      PROVE  Honest' /\ UNCHANGED MmuVars
  <2>1. Typed' /\ PfcTruth'
    BY <1>5, SendToDevControlTyped, SendToDevControlTruth DEF Honest
  <2>2. CountersMatchQueues' /\ UNCHANGED MmuVars
    <3>1. /\ \A o \in Ports, r \in Queues : egressQ'[o][r] = egressQ[o][r]
          /\ \A i, o \in Ports, r \in Queues : m_bytes'[i][o][r] = m_bytes[i][o][r]
      BY <1>5, SendToDevControlTyped DEF Honest
    <3>2. UNCHANGED <<mmuVars, egress_bytes, m_linkUp, stranded>>
      BY <1>5 DEF SendToDevControl
    <3>3. QED
      BY <3>1, <3>2, DataUntouched DEF Honest
  <2>3. QED
    BY <2>1, <2>2 DEF Honest
<1>6. ASSUME NEW p \in Ports, NEW q \in Queues, ReceivePause(p, q) \/ ReceiveResume(p, q)
      PROVE  Honest' /\ UNCHANGED MmuVars
  BY <1>6, QuietHonest DEF ReceivePause, ReceiveResume, deviceVars
<1>7. CASE UNCHANGED vars
  BY <1>7, QuietHonest DEF vars, deviceVars
<1>8. QED
  BY <1>1, <1>2, <1>3, <1>4, <1>5, <1>6, <1>7 DEF Next, TransmitComplete

LEMMA AlwaysHonest == Spec => []Honest
  BY InitHonest, NextHonest, PTL DEF Spec

\* Every enqueue and dequeue of a packet, through whatever ports, is an Admit or a
\* Dequeue of the memory manager: what is proved of SwitchMmu holds of the switch.
THEOREM SwitchImplementsMmu == Spec => ImplementsMmu
<1>1. Honest /\ [Next]_vars => [Mmu!Next]_(Mmu!vars)
  BY NextHonest DEF MmuVars, Mmu!vars
<1>2. QED
  BY <1>1, InitHonest, AlwaysHonest, PTL DEF Spec, ImplementsMmu, Mmu!Spec

\* The counters of the data queues agree with the FIFOs of every port whose link is up.
THEOREM CountersAgree == Spec => []CountersMatchQueues
<1>1. Honest => CountersMatchQueues
  BY DEF Honest
<1>2. QED
  BY <1>1, AlwaysHonest, PTL

\* Pause and resume frames alternate.
THEOREM FramesAlternate == Spec => []PfcAlternates
<1>1. Honest => PfcAlternates
  BY DEF Honest, PfcTruth, Truthful, PfcAlternates
<1>2. QED
  BY <1>1, AlwaysHonest, PTL

\* The last PFC frame sent or waiting says what the memory manager believes.
THEOREM LastFrameTells == Spec => []PfcTellsPaused
<1>1. Honest => PfcTellsPaused
  BY DEF Honest, PfcTruth, Truthful, PfcTellsPaused, Believed
<1>2. QED
  BY <1>1, AlwaysHonest, PTL

\* The arithmetic of the round robin.
LEMMA Remainder == \A x \in -8..7 : x % 8 = IF x < 0 THEN x + 8 ELSE x
  OBVIOUS

LEMMA Nearer ==
  ASSUME NEW q \in 1..7, NEW r \in 1..7, NEW l \in 0..7, q # r,
         (r - l - 1) % 8 <= (q - l - 1) % 8
  PROVE  (q - r - 1) % 8 < (q - l - 1) % 8
<1>1. q - r - 1 \in -8..7 /\ q - l - 1 \in -8..7 /\ r - l - 1 \in -8..7
  OBVIOUS
<1>2. /\ (q - r - 1) % 8 = IF q - r - 1 < 0 THEN (q - r - 1) + 8 ELSE q - r - 1
      /\ (q - l - 1) % 8 = IF q - l - 1 < 0 THEN (q - l - 1) + 8 ELSE q - l - 1
      /\ (r - l - 1) % 8 = IF r - l - 1 < 0 THEN (r - l - 1) + 8 ELSE r - l - 1
  BY <1>1, Remainder
<1>3. QED
  BY <1>2

\* A queue that could send and sees another served has its turn come closer.
THEOREM NoQueuePassedOver == Spec => TurnComesCloser
<1>1. ASSUME Honest, Honest', [Next]_vars, NEW p \in Ports, NEW q \in Queues, NEW r \in Queues,
             q \in Eligible(p), r # q,
             Len(egressQ'[p][r]) < Len(egressQ[p][r]), m_linkUp'[p]
      PROVE  RoundRobinDistance(p, q)' < RoundRobinDistance(p, q)
  <2>1. egressQ[p][r] \in Seq(Packets) /\ Len(egressQ[p][r]) \in Nat
    BY <1>1, Elements DEF Honest, Typed
  <2>2. egressQ'[p][r] # egressQ[p][r]
    BY <1>1, <2>1
  <2>3. ASSUME NEW x \in Ports, DequeueAndTransmit(x)
        PROVE  RoundRobinDistance(p, q)' < RoundRobinDistance(p, q)
    <3>1. ~SendControl(x)
      <4> SUFFICES ASSUME SendControl(x) PROVE FALSE
        OBVIOUS
      <4>1. egressQ' = [egressQ EXCEPT ![x][ControlQueue] = Tail(@)]
        BY DEF SendControl
      <4>2. egressQ \in [Ports -> [AllQueues -> Seq(Frames)]]
        BY <1>1 DEF Honest, Typed
      <4>3. egressQ'[p][r] = egressQ[p][r]
        BY <4>1, <4>2, DataQueues
      <4>4. QED
        BY <2>2, <4>3
    <3>2. CanSend(x) /\ SendData(x)
      BY <2>3, <3>1 DEF DequeueAndTransmit
    <3>3. PICK c \in Queues, frame \in Packets :
            /\ c = NextQueue(x) /\ egressQ[x][c] # <<>>
            /\ NotifyDequeue(x, c, frame)
      BY <1>1, <3>2, SendDataEffect DEF Honest
    <3>4. Typed
      BY <1>1 DEF Honest
    <3>5. p = x /\ r = c
      <4>1. p # x \/ r # c => egressQ'[p][r] = egressQ[p][r]
        BY <1>1, <2>3, <3>3, <3>4, DequeueLeavesOthers
      <4>2. QED
        BY <2>2, <4>1, Zenon
    <3>6. RoundRobinDistance(p, r) <= RoundRobinDistance(p, q)
      BY <1>1, <3>3, <3>5, NextIsEligible DEF Honest
    <3>7. m_rrlast \in [Ports -> 0..7]
      BY <1>1 DEF Honest, Typed, qCnt
    <3>8. m_rrlast'[p] = r
      BY <3>2, <3>3, <3>5, <3>7 DEF SendData
    <3>9. m_rrlast[p] \in 0..7 /\ q \in 1..7 /\ r \in 1..7
      BY <3>7, DataQueues
    <3>10. (q - r - 1) % 8 < (q - m_rrlast[p] - 1) % 8
      BY <1>1, <3>6, <3>9, Nearer DEF RoundRobinDistance, qCnt
    <3>11. QED
      BY <3>8, <3>10 DEF RoundRobinDistance, qCnt
  <2>4. ASSUME NEW x \in Ports, TakeDown(x)
        PROVE  FALSE
    <3>1. /\ m_linkUp'[x] = FALSE
          /\ \A o \in Ports \ {x} : egressQ'[o] = egressQ[o]
      BY <1>1, <2>4, TakeDownTyped DEF Honest
    <3>2. QED
      BY <1>1, <2>2, <3>1
  <2>5. ASSUME NEW in \in Ports, NEW out \in Ports, NEW c \in Queues, NEW psize \in Sizes,
               SendToDev(in, out, c, psize)
        PROVE  FALSE
    <3>1. /\ egressQ'[out][c] = Append(egressQ[out][c], Packet(in, psize))
          /\ \A o \in Ports, s \in Queues :
               ~(o = out /\ s = c) => egressQ'[o][s] = egressQ[o][s]
      BY <1>1, <2>5, SendDataFifos DEF Honest
    <3>2. out = p /\ c = r
      BY <2>2, <3>1
    <3>3. Len(egressQ'[p][r]) = Len(egressQ[p][r]) + 1
      BY <2>1, <3>1, <3>2, PacketType, Extended
    <3>4. QED
      BY <1>1, <2>1, <3>3
  <2>6. ASSUME NEW in \in Ports, NEW out \in Ports, SendToDevControl(in, out)
        PROVE  FALSE
    BY <1>1, <2>2, <2>6, SendToDevControlTyped DEF Honest
  <2>7. ASSUME UNCHANGED egressQ
        PROVE  FALSE
    BY <2>2, <2>7
  <2>8. QED
    BY <1>1, <2>3, <2>4, <2>5, <2>6, <2>7
       DEF Next, StartIdle, TransmitComplete, TransmitNext, TransmitLast, ReceivePause,
           ReceiveResume, vars
<1>2. Honest /\ Honest' /\ [Next]_vars =>
        [\A p \in Ports, q, r \in Queues :
           /\ q \in Eligible(p) /\ r # q
           /\ Len(egressQ'[p][r]) < Len(egressQ[p][r]) /\ m_linkUp'[p]
           => RoundRobinDistance(p, q)' < RoundRobinDistance(p, q)]_vars
  BY <1>1
<1>3. QED
  BY <1>2, AlwaysHonest, PTL DEF Spec, TurnComesCloser

-----------------------------------------------------------------------------
(***************************************************************************)
(* What the theorems about the memory manager say of the switch.           *)
(***************************************************************************)
LEMMA SameThreshold == \A port \in Ports :
    /\ Mmu!GetPfcThreshold(port) = MmuProofs!GetPfcThreshold(port)
    /\ Mmu!GetPfcThreshold(port)' = MmuProofs!GetPfcThreshold(port)'
  BY DEF Mmu!GetPfcThreshold, MmuProofs!GetPfcThreshold,
     Mmu!Pool, MmuProofs!Pool, Mmu!TotalHdrm, MmuProofs!TotalHdrm,
     Mmu!TotalRsrv, MmuProofs!TotalRsrv, Mmu!Cardinality, MmuProofs!Cardinality,
     Mmu!SumOf, MmuProofs!SumOf, Mmu!UnitsOf, MmuProofs!UnitsOf

LEMMA SameNext == Mmu!Next => MmuProofs!Next
<1> SUFFICES ASSUME NEW pg \in PriorityGroups, NEW psize \in Sizes,
                    Mmu!Admit(pg, psize) \/ Mmu!Dequeue(pg, psize)
             PROVE  MmuProofs!Next
  BY DEF Mmu!Next, Mmu!PriorityGroups, PriorityGroups
<1> HIDE DEF ChargedBytes
<1>1. pg[1] \in Ports
  BY DEF PriorityGroups
<1>2. CASE Mmu!Admit(pg, psize)
  <2>1. MmuProofs!Admit(pg, psize)
    BY <1>1, <1>2, SameThreshold
       DEF Mmu!Admit, MmuProofs!Admit, Mmu!CheckIngressAdmission,
           MmuProofs!CheckIngressAdmission, Mmu!UpdateIngressAdmission,
           MmuProofs!UpdateIngressAdmission, Mmu!ChargeReserve, MmuProofs!ChargeReserve,
           Mmu!ChargeHeadroom, MmuProofs!ChargeHeadroom, Mmu!ChargePool,
           MmuProofs!ChargePool, Mmu!CheckShouldPause, MmuProofs!CheckShouldPause,
           Mmu!GetSharedUsed, MmuProofs!GetSharedUsed
  <2>2. QED
    BY <2>1 DEF MmuProofs!Next, MmuProofs!PriorityGroups, PriorityGroups
<1>3. CASE Mmu!Dequeue(pg, psize)
  <2>1. MmuProofs!Dequeue(pg, psize)
    BY <1>1, <1>3, SameThreshold
       DEF Mmu!Dequeue, MmuProofs!Dequeue, Mmu!RemoveFromIngressAdmission,
           MmuProofs!RemoveFromIngressAdmission, Mmu!FromHdrm, MmuProofs!FromHdrm,
           Mmu!FromShared, MmuProofs!FromShared, Mmu!CheckShouldResume,
           MmuProofs!CheckShouldResume, Mmu!GetSharedUsed, MmuProofs!GetSharedUsed
  <2>2. QED
    BY <2>1 DEF MmuProofs!Next, MmuProofs!PriorityGroups, PriorityGroups
<1>4. QED
  BY <1>2, <1>3

Accounts ==
  /\ Mmu!BytesConserved /\ Mmu!PoolNotOverdrawn /\ Mmu!HeadroomRespected
  /\ Mmu!HeadroomOnlyWhilePaused /\ Mmu!PausedHoldsBytes

\* In a whole switch, what the memory manager has charged is what the FIFOs hold and what
\* TakeDown dropped, the pool is not overdrawn, no group has more than its headroom, and
\* none of it without a pause.
THEOREM SwitchKeepsAccounts == Spec => []Accounts
<1>1. Mmu!Init => MmuProofs!Accounting
  <2>1. MmuProofs!Init => MmuProofs!Accounting
    BY MmuConstants, MmuProofs!InitAccounting
       DEF MmuProofs!ConstantsAssumption, MmuProofs!PoolAssumption
  <2>2. QED
    BY <2>1 DEF Mmu!Init, MmuProofs!Init, Mmu!PriorityGroups, MmuProofs!PriorityGroups
<1>2. MmuProofs!Accounting /\ [Mmu!Next]_(Mmu!vars) => MmuProofs!Accounting'
  <2>1. MmuProofs!Accounting /\ [MmuProofs!Next]_(MmuProofs!vars) => MmuProofs!Accounting'
    BY MmuConstants, MmuProofs!AccountingInductive
       DEF MmuProofs!ConstantsAssumption, MmuProofs!PoolAssumption
  <2>2. QED
    BY <2>1, SameNext DEF Mmu!vars, MmuProofs!vars
<1>3. MmuProofs!Accounting => Accounts
  BY DEF Accounts, MmuProofs!Accounting, Mmu!BytesConserved, MmuProofs!BytesConserved,
     Mmu!PoolNotOverdrawn, MmuProofs!PoolNotOverdrawn, Mmu!Pool, MmuProofs!Pool,
     Mmu!TotalHdrm, MmuProofs!TotalHdrm, Mmu!TotalRsrv, MmuProofs!TotalRsrv,
     Mmu!Cardinality, MmuProofs!Cardinality, Mmu!SumOf, MmuProofs!SumOf,
     Mmu!UnitsOf, MmuProofs!UnitsOf,
     Mmu!HeadroomRespected, MmuProofs!HeadroomRespected,
     Mmu!HeadroomOnlyWhilePaused, MmuProofs!HeadroomOnlyWhilePaused,
     Mmu!PausedHoldsBytes, MmuProofs!PausedHoldsBytes,
     Mmu!PriorityGroups, MmuProofs!PriorityGroups
<1>4. QED
  BY <1>1, <1>2, <1>3, SwitchImplementsMmu, PTL DEF ImplementsMmu, Mmu!Spec
=============================================================================
