-------------------------- MODULE Telemetry_proofs ---------------------------
(***************************************************************************)
(* What is read from the telemetry of a port is exact, and the meter never *)
(* misses traffic, for any flows, hashes, epochs and packets               *)
(* (SwitchTelemetry); and the packets that the provenance graph takes to   *)
(* have stood in one queue are in proportion to the counts it was given,   *)
(* and the heavier of two flows is blamed more (TelemetryGraph).           *)
(*                                                                         *)
(* The argument is that an entry always stands for the packets of one      *)
(* epoch, that of its time (FlowBook, PortBook), and that the ages the     *)
(* code compares tell epochs of the same parity apart (EpochAges).         *)
(* For the meter it is that each slot covers the packets of the window     *)
(* that came in it, and that the window is the sum of its slots            *)
(* (MeterBook).  For the graph it is that every beginning of the layout    *)
(* has the flows in proportion but for one packet (LayoutBook), and any    *)
(* stretch is the difference of two beginnings; and that each packet was   *)
(* laid out as one of a flow least advanced (TurnBook).                    *)
(***************************************************************************)
EXTENDS SwitchTelemetry, TelemetryGraph, WellFoundedInduction, FiniteSetTheorems, TLAPS

-----------------------------------------------------------------------------
(***************************************************************************)
(* Epochs and slots.                                                       *)
(***************************************************************************)

\* The quotient of time by the length of an epoch or slot.
LEMMA Quotient ==
  ASSUME NEW n \in Nat, NEW d \in Nat \ {0}
  PROVE  n \div d \in Nat /\ (n \div d) * d <= n /\ n < (n \div d) * d + d
<1>1. PICK q, r : q = n \div d /\ r = n % d
  OBVIOUS
<1>2. q \in Nat /\ r \in 0..(d - 1) /\ n = d * q + r
  <2>1. q \in Nat
    BY <1>1
  <2>2. r \in 0..(d - 1)
    BY <1>1
  <2>3. n = d * q + r
    BY <1>1, <2>1, <2>2
  <2>4. QED
    BY <2>1, <2>2, <2>3
<1>3. q * d = d * q /\ d * q \in Nat
  BY <1>2
<1>4. q * d <= n /\ n < q * d + d
  BY <1>2, <1>3
<1>5. QED
  BY <1>1, <1>2, <1>4

\* How far apart two times are, from how far apart their quotients are.
LEMMA Apart ==
  ASSUME NEW d \in Nat \ {0}, NEW a \in Nat, NEW b \in Nat, a <= b
  PROVE  LET p == a \div d
             q == b \div d
         IN  /\ p \in Nat /\ q \in Nat /\ p <= q
             /\ q = p => b - a < d
             /\ q = p + 1 => b - a < 2 * d
             /\ q >= p + 2 => b - a > d
             /\ q >= p + 3 => b - a > 2 * d
<1> DEFINE p == a \div d
           q == b \div d
<1>1. /\ p \in Nat /\ q \in Nat
      /\ p * d <= a /\ a < p * d + d
      /\ q * d <= b /\ b < q * d + d
  BY Quotient
<1> HIDE DEF p, q
<1>2. p * d \in Nat /\ q * d \in Nat /\ (q - p) * d = q * d - p * d
  BY <1>1
<1>3. p <= q
  <2>1. SUFFICES ASSUME q - p <= -1 PROVE FALSE
    BY <1>1
  <2>2. (q - p) * d <= -d
    BY <1>1, <2>1
  <2>3. QED
    BY <1>1, <1>2, <2>2
<1>4. q = p => b - a < d
  BY <1>1, <1>2
<1>5. q = p + 1 => b - a < 2 * d
  <2>1. SUFFICES ASSUME q = p + 1 PROVE b - a < 2 * d
    OBVIOUS
  <2>2. (q - p) * d = d
    BY <1>1, <2>1
  <2>3. QED
    BY <1>1, <1>2, <2>2
<1>6. q >= p + 2 => b - a > d
  <2>1. SUFFICES ASSUME q - p >= 2 PROVE b - a > d
    BY <1>1
  <2>2. (q - p) * d >= 2 * d
    BY <1>1, <2>1
  <2>3. QED
    BY <1>1, <1>2, <2>2
<1>7. q >= p + 3 => b - a > 2 * d
  <2>1. SUFFICES ASSUME q - p >= 3 PROVE b - a > 2 * d
    BY <1>1
  <2>2. (q - p) * d >= 3 * d
    BY <1>1, <2>1
  <2>3. QED
    BY <1>1, <1>2, <2>2
<1>8. QED
  BY <1>1, <1>3, <1>4, <1>5, <1>6, <1>7 DEF p, q

\* The age of an entry tells by how many epochs it is behind.
LEMMA EpochAges ==
  ASSUME NEW a \in Nat, NEW b \in Nat, a <= b
  PROVE  /\ EpochOf(a) \in Nat /\ EpochOf(b) \in Nat /\ EpochOf(a) <= EpochOf(b)
         /\ EpochOf(b) = EpochOf(a) => b - a < epochTime
         /\ EpochOf(b) = EpochOf(a) + 1 => b - a < 2 * epochTime
         /\ EpochOf(b) >= EpochOf(a) + 2 => b - a > epochTime
         /\ EpochOf(b) >= EpochOf(a) + 3 => b - a > 2 * epochTime
  BY Apart, TelemetryAssumption DEF EpochOf

LEMMA SlotWidth == epochTime \div portToPortSlot \in Nat \ {0}
<1>1. epochTime \in Nat \ {0} /\ epochTime % 5 = 0 /\ epochTime >= 5
  BY TelemetryAssumption DEF portToPortSlot
<1>2. QED
  BY <1>1 DEF portToPortSlot

LEMMA SlotOrder ==
  ASSUME NEW a \in Nat, NEW b \in Nat, a <= b
  PROVE  SlotOf(a) \in Nat /\ SlotOf(b) \in Nat /\ SlotOf(a) <= SlotOf(b)
  BY Apart, SlotWidth DEF SlotOf

-----------------------------------------------------------------------------
(***************************************************************************)
(* The invariant.                                                          *)
(***************************************************************************)
Indices == 0..(epochNum - 1)
Packets == [time : Nat, flow : Flows, paused : BOOLEAN]
PortEntries == [packetNum : Nat, pfcPausedPacketNum : Nat, enqQdepth : Nat, lastTimeStep : Nat]
FlowEntries == [flow : Flows \cup {NoFlow}, packetNum : Nat, pfcPausedPacketNum : Nat,
                enqQdepth : Nat, lastTimeStep : Nat]

Typed ==
  /\ now \in Nat /\ m_paused \in BOOLEAN
  /\ m_flowTelemetryData \in [Indices -> [Hashes -> FlowEntries]]
  /\ m_portTelemetryData \in [Indices -> PortEntries]
  /\ log \in Seq(Packets)

\* Packets are logged in the order of their times.
InOrder ==
  /\ \A i \in 1..Len(log) : log[i].time <= now
  /\ \A i, j \in 1..Len(log) : i <= j => log[i].time <= log[j].time

Last(packets) == \E m \in packets : \A i \in packets : m >= i
First(packets) == \E m \in packets : \A i \in packets : m <= i

\* The history, as operators of a log.
EpochIn(l, epoch) == {i \in DOMAIN l : EpochOf(l[i].time) = epoch}
SameIn(l, epoch, hash) == {i \in EpochIn(l, epoch) : FiveTupleHash[l[i].flow] = hash}
RunIn(l, epoch, hash) ==
  {i \in SameIn(l, epoch, hash) :
     \A j \in SameIn(l, epoch, hash) : j > i => l[j].flow = l[i].flow}
PausedIn(l, packets) == {i \in packets : l[i].paused}

\* The packets of one place in the ring.
PastIn(l, e, hash) ==
  {i \in DOMAIN l : FiveTupleHash[l[i].flow] = hash /\ EpochOf(l[i].time) % epochNum = e}

LEMMA SameHistory ==
  /\ \A epoch : InEpoch(epoch) = EpochIn(log, epoch)
  /\ \A epoch, hash : LastRun(epoch, hash) = RunIn(log, epoch, hash)
  /\ \A packets : Paused(packets) = PausedIn(log, packets)
  BY DEF InEpoch, EpochIn, LastRun, SameIn, RunIn, Paused, PausedIn

\* The entry is that of the flow of these packets of a log, and counts them.
StandsFor(l, entry, packets) ==
  /\ packets # {} /\ Last(packets)
  /\ \A i \in packets : l[i].flow = entry.flow
  /\ entry.packetNum = Cardinality(packets)
  /\ entry.pfcPausedPacketNum = Cardinality(PausedIn(l, packets))

\* The entry of the port counts these packets, and of all but the first the paused ones.
CountsFrom(l, entry, packets) ==
  /\ First(packets)
  /\ entry.packetNum = Cardinality(packets)
  /\ \A m \in packets : (\A i \in packets : m <= i) =>
       entry.pfcPausedPacketNum = Cardinality(PausedIn(l, packets \ {m}))

\* A flow entry stands for packets of the epoch of its time, and no later packet had
\* the same place in the ring.
FlowBook(e, hash) ==
  LET entry == m_flowTelemetryData[e][hash]
      epoch == EpochOf(entry.lastTimeStep)
  IN  IF entry.flow = NoFlow
      THEN PastIn(log, e, hash) = {}
      ELSE /\ entry.lastTimeStep <= now /\ epoch % epochNum = e
           /\ \A i \in PastIn(log, e, hash) : EpochOf(log[i].time) <= epoch
           /\ StandsFor(log, entry, RunIn(log, epoch, hash))

\* So does the port entry, from the third epoch on.
PortBook(e) ==
  LET entry == m_portTelemetryData[e]
      epoch == EpochOf(entry.lastTimeStep)
  IN  /\ entry.lastTimeStep <= now
      /\ entry.lastTimeStep = 0 \/ epoch % epochNum = e
      /\ \A i \in 1..Len(log) :
           EpochOf(log[i].time) % epochNum = e => EpochOf(log[i].time) <= epoch
      /\ epoch >= epochNum => CountsFrom(log, entry, EpochIn(log, epoch))

Books ==
  /\ Typed /\ InOrder
  /\ \A e \in Indices, hash \in Hashes : FlowBook(e, hash)
  /\ now < Wrap => \A e \in Indices : PortBook(e)

LEMMA InitBooks == Init => Books
<1> SUFFICES ASSUME Init PROVE Books
  OBVIOUS
<1>1. log = <<>> /\ Len(log) = 0 /\ now = 0
  BY DEF Init
<1>2. Typed
  <2>1. [flow |-> NoFlow, packetNum |-> 0, pfcPausedPacketNum |-> 0,
         enqQdepth |-> 0, lastTimeStep |-> 0] \in FlowEntries
    BY DEF FlowEntries
  <2>2. m_flowTelemetryData \in [Indices -> [Hashes -> FlowEntries]]
    BY <2>1, Zenon DEF Init, Indices
  <2>3. [packetNum |-> 0, pfcPausedPacketNum |-> 0, enqQdepth |-> 0,
         lastTimeStep |-> 0] \in PortEntries
    BY DEF PortEntries
  <2>4. m_portTelemetryData \in [Indices -> PortEntries]
    BY <2>3, Zenon DEF Init, Indices
  <2>5. log \in Seq(Packets)
    BY <1>1
  <2>6. m_paused \in BOOLEAN
    BY DEF Init
  <2>7. QED
    BY <1>1, <2>2, <2>4, <2>5, <2>6 DEF Typed
<1>3. InOrder
  BY <1>1 DEF InOrder
<1>4. ASSUME NEW e \in Indices, NEW hash \in Hashes PROVE FlowBook(e, hash)
  <2>1. m_flowTelemetryData[e][hash].flow = NoFlow
    BY <1>4 DEF Init, Indices
  <2>2. QED
    BY <1>1, <2>1 DEF FlowBook, PastIn
<1>5. ASSUME NEW e \in Indices PROVE PortBook(e)
  <2>1. m_portTelemetryData[e].lastTimeStep = 0
    BY <1>5 DEF Init, Indices
  <2>2. EpochOf(0) = 0
    BY TelemetryAssumption DEF EpochOf
  <2>3. QED
    BY <1>1, <2>1, <2>2 DEF PortBook, epochNum
<1>6. QED
  BY <1>2, <1>3, <1>4, <1>5 DEF Books

-----------------------------------------------------------------------------
(***************************************************************************)
(* What a packet adds to the log.                                          *)
(***************************************************************************)
LEMMA LogFinite ==
  ASSUME Typed, NEW packets \in SUBSET (1..Len(log))
  PROVE  IsFiniteSet(packets)
<1>1. Len(log) \in Nat
  BY DEF Typed
<1>2. IsFiniteSet(1..Len(log))
  BY <1>1, FS_Interval
<1>3. QED
  BY <1>2, FS_Subset

\* One more packet in a set of packets of the log.
LEMMA OneMore ==
  ASSUME Typed, NEW packets \in SUBSET (1..Len(log)), NEW n, n \notin 1..Len(log)
  PROVE  /\ Cardinality(packets) \in Nat
         /\ Cardinality(packets \cup {n}) = Cardinality(packets) + 1
  BY LogFinite, FS_AddElement, FS_CardinalityType

\* The log after SendToDev.
LEMMA Logged ==
  ASSUME Typed, NEW f \in Flows, NEW depth \in Depths, SendToDev(f, depth)
  PROVE  /\ Len(log) \in Nat /\ Len(log') = Len(log) + 1
         /\ DOMAIN log = 1..Len(log) /\ DOMAIN log' = 1..(Len(log) + 1)
         /\ \A i \in 1..Len(log) : log'[i] = log[i]
         /\ log'[Len(log) + 1].time = now
         /\ log'[Len(log) + 1].flow = f
         /\ log'[Len(log) + 1].paused = m_paused
         /\ log' \in Seq(Packets)
         /\ now' = now /\ m_paused' = m_paused
<1>1. log \in Seq(Packets) /\ [time |-> now, flow |-> f, paused |-> m_paused] \in Packets
  BY DEF Typed, Packets
<1>2. log' = Append(log, [time |-> now, flow |-> f, paused |-> m_paused])
  BY DEF SendToDev
<1>3. now' = now /\ m_paused' = m_paused
  BY DEF SendToDev
<1>4. QED
  BY <1>1, <1>2, <1>3

\* The epoch of the packet has one packet more, the others have what they had.
LEMMA EpochLogged ==
  ASSUME Typed, NEW f \in Flows, NEW depth \in Depths, SendToDev(f, depth), NEW epoch
  PROVE  EpochIn(log', epoch) = IF epoch = EpochOf(now) THEN EpochIn(log, epoch) \cup {Len(log) + 1}
                           ELSE EpochIn(log, epoch)
<1> DEFINE n == Len(log) + 1
<1>1. /\ DOMAIN log = 1..Len(log) /\ DOMAIN log' = 1..n
      /\ \A i \in 1..Len(log) : log'[i] = log[i]
      /\ log'[n].time = now
      /\ Len(log) \in Nat
  BY Logged
<1>0. 1..n = (1..Len(log)) \cup {n} /\ n \notin 1..Len(log)
  BY <1>1
<1> HIDE DEF n
<1>2. EpochIn(log', epoch) = {i \in 1..n : EpochOf(log'[i].time) = epoch}
  BY <1>1 DEF EpochIn
<1>3. EpochIn(log, epoch) = {i \in 1..Len(log) : EpochOf(log[i].time) = epoch}
  BY <1>1 DEF EpochIn
<1>4. QED
  BY <1>0, <1>1, <1>2, <1>3 DEF n

\* The run that an entry should stand for: it grows, or begins again with the packet.
LEMMA RunLogged ==
  ASSUME Typed, NEW f \in Flows, NEW depth \in Depths, SendToDev(f, depth),
         NEW epoch, NEW hash
  PROVE  RunIn(log', epoch, hash) =
           IF epoch = EpochOf(now) /\ hash = FiveTupleHash[f]
           THEN {i \in RunIn(log, epoch, hash) : log[i].flow = f} \cup {Len(log) + 1}
           ELSE RunIn(log, epoch, hash)
<1> DEFINE n == Len(log) + 1
<1>1. /\ Len(log) \in Nat /\ DOMAIN log = 1..Len(log)
      /\ \A i \in 1..Len(log) : log'[i] = log[i]
      /\ log'[n].flow = f
  BY Logged
<1>2. n \notin 1..Len(log) /\ \A i \in 1..Len(log) : n > i /\ ~(i > n)
  BY <1>1
<1>3. EpochIn(log, epoch) \subseteq 1..Len(log)
  BY <1>1 DEF EpochIn
<1>4. EpochIn(log', epoch) = IF epoch = EpochOf(now) THEN EpochIn(log, epoch) \cup {n} ELSE EpochIn(log, epoch)
  BY EpochLogged
<1> HIDE DEF n
<1> DEFINE same == SameIn(log, epoch, hash)
           same1 == SameIn(log', epoch, hash)
<1>5. RunIn(log, epoch, hash) = {i \in same : \A j \in same : j > i => log[j].flow = log[i].flow}
  BY DEF RunIn
<1>6. RunIn(log', epoch, hash) =
        {i \in same1 : \A j \in same1 : j > i => log'[j].flow = log'[i].flow}
  BY DEF RunIn
<1>7. same1 = IF epoch = EpochOf(now) /\ hash = FiveTupleHash[f] THEN same \cup {n} ELSE same
  BY <1>1, <1>2, <1>3, <1>4 DEF SameIn
<1>8. same \subseteq 1..Len(log) /\ \A i \in same : log'[i] = log[i]
  BY <1>1, <1>3 DEF SameIn
<1> HIDE DEF same, same1
<1>9. CASE epoch = EpochOf(now) /\ hash = FiveTupleHash[f]
  <2>1. same1 = same \cup {n}
    BY <1>7, <1>9
  <2>2. ASSUME NEW i PROVE i \in RunIn(log', epoch, hash) <=>
          i = n \/ (i \in RunIn(log, epoch, hash) /\ log[i].flow = f)
    <3>1. CASE i = n
      <4>1. \A j \in same1 : j > n => j = n
        BY <1>2, <1>8, <2>1
      <4>2. QED
        BY <1>6, <2>1, <3>1, <4>1
    <3>2. CASE i # n /\ i \notin same
      BY <1>5, <1>6, <2>1, <3>2
    <3>3. CASE i # n /\ i \in same
      <4>1. log'[i].flow = log[i].flow /\ n > i
        BY <1>2, <1>8, <3>3
      <4>2. (\A j \in same1 : j > i => log'[j].flow = log'[i].flow)
              <=> (\A j \in same : j > i => log[j].flow = log[i].flow) /\ f = log[i].flow
        BY <1>1, <1>8, <2>1, <4>1
      <4>3. QED
        BY <1>5, <1>6, <2>1, <3>3, <4>2
    <3>4. QED
      BY <3>1, <3>2, <3>3
  <2>3. QED
    BY <1>9, <2>2 DEF n
<1>10. CASE ~(epoch = EpochOf(now) /\ hash = FiveTupleHash[f])
  <2>1. same1 = same
    BY <1>7, <1>10
  <2>2. RunIn(log', epoch, hash) = RunIn(log, epoch, hash)
    <3>1. \A i, j \in same : (j > i => log'[j].flow = log'[i].flow)
                              <=> (j > i => log[j].flow = log[i].flow)
      BY <1>8
    <3>2. RunIn(log', epoch, hash) =
            {i \in same : \A j \in same : j > i => log'[j].flow = log'[i].flow}
      BY <1>6, <2>1
    <3>3. QED
      BY <1>5, <3>1, <3>2
  <2>3. QED
    BY <1>10, <2>2
<1>11. QED
  BY <1>9, <1>10

\* A set of packets stays in place when the log grows.
LEMMA PausedKept ==
  ASSUME NEW l, NEW m, NEW packets, \A i \in packets : m[i] = l[i]
  PROVE  PausedIn(m, packets) = PausedIn(l, packets)
  BY DEF PausedIn

LEMMA StandsKept ==
  ASSUME NEW l, NEW m, NEW entry, NEW packets, \A i \in packets : m[i] = l[i],
         StandsFor(l, entry, packets)
  PROVE  StandsFor(m, entry, packets)
  BY PausedKept DEF StandsFor

\* One more packet, paused or not.
LEMMA PausedGrown ==
  ASSUME NEW l, NEW m, NEW packets, IsFiniteSet(packets), NEW n, n \notin packets,
         \A i \in packets : m[i] = l[i], NEW p, p \in BOOLEAN, m[n].paused = p
  PROVE  /\ Cardinality(packets) \in Nat /\ Cardinality(PausedIn(l, packets)) \in Nat
         /\ Cardinality(packets \cup {n}) = Cardinality(packets) + 1
         /\ Cardinality(PausedIn(m, packets \cup {n})) =
              Cardinality(PausedIn(l, packets)) + (IF p THEN 1 ELSE 0)
<1>1. IsFiniteSet(PausedIn(l, packets)) /\ PausedIn(l, packets) \subseteq packets
  BY FS_Subset DEF PausedIn
<1>2. PausedIn(m, packets \cup {n}) =
        IF p THEN PausedIn(l, packets) \cup {n} ELSE PausedIn(l, packets)
  BY DEF PausedIn
<1>3. Cardinality(PausedIn(l, packets) \cup {n}) = Cardinality(PausedIn(l, packets)) + 1
  BY <1>1, FS_AddElement
<1>4. Cardinality(PausedIn(l, packets)) \in Nat /\ Cardinality(packets) \in Nat
  BY <1>1, FS_CardinalityType
<1>5. Cardinality(packets \cup {n}) = Cardinality(packets) + 1
  BY FS_AddElement
<1>6. QED
  BY <1>2, <1>3, <1>4, <1>5

-----------------------------------------------------------------------------
(***************************************************************************)
(* A packet: the types and the order.                                      *)
(***************************************************************************)
LEMMA EpochIndex == Typed => EpochOf(now) \in Nat /\ GetEpochIdx \in Indices
<1> SUFFICES ASSUME Typed PROVE EpochOf(now) \in Nat /\ GetEpochIdx \in Indices
  OBVIOUS
<1>1. EpochOf(now) \in Nat
  BY EpochAges DEF Typed
<1>2. EpochOf(now) % 2 \in 0..1
  BY <1>1
<1>3. QED
  BY <1>1, <1>2 DEF GetEpochIdx, Indices, epochNum

\* One entry of each kind is written.
LEMMA Written ==
  ASSUME Typed, NEW f \in Flows, NEW depth \in Depths, SendToDev(f, depth)
  PROVE  /\ \A e \in Indices, hash \in Hashes :
              m_flowTelemetryData'[e][hash] =
                IF e = GetEpochIdx /\ hash = FiveTupleHash[f]
                THEN FlowEntry(m_flowTelemetryData[e][hash], f, depth)
                ELSE m_flowTelemetryData[e][hash]
         /\ \A e \in Indices :
              m_portTelemetryData'[e] =
                IF e = GetEpochIdx THEN PortEntry(m_portTelemetryData[e], depth)
                ELSE m_portTelemetryData[e]
         /\ m_flowTelemetryData' \in [Indices -> [Hashes -> FlowEntries]]
         /\ m_portTelemetryData' \in [Indices -> PortEntries]
<1> DEFINE x == GetEpochIdx
           h == FiveTupleHash[f]
           fe == FlowEntry(m_flowTelemetryData[x][h], f, depth)
           pe == PortEntry(m_portTelemetryData[x], depth)
<1>1. x \in Indices /\ h \in Hashes
  BY EpochIndex DEF Hashes
<1>2. m_flowTelemetryData[x][h] \in FlowEntries /\ m_portTelemetryData[x] \in PortEntries
  BY <1>1 DEF Typed
<1>3. depth \in Nat /\ now \in Nat /\ m_paused \in BOOLEAN
  BY TelemetryAssumption DEF Typed
<1>4. fe \in FlowEntries
  BY <1>2, <1>3 DEF FlowEntry, FlowEntries
<1>5. pe \in PortEntries
  <2>1. now % Wrap \in Nat
    BY <1>3, TelemetryAssumption
  <2>2. QED
    BY <1>2, <1>3, <2>1 DEF PortEntry, PortEntries
<1>6. /\ m_flowTelemetryData' = [m_flowTelemetryData EXCEPT ![x][h] = fe]
      /\ m_portTelemetryData' = [m_portTelemetryData EXCEPT ![x] = pe]
  BY DEF SendToDev
<1>7. /\ m_flowTelemetryData \in [Indices -> [Hashes -> FlowEntries]]
      /\ m_portTelemetryData \in [Indices -> PortEntries]
  BY DEF Typed
<1> HIDE DEF x, h, fe, pe
<1>8. /\ m_flowTelemetryData' \in [Indices -> [Hashes -> FlowEntries]]
      /\ m_portTelemetryData' \in [Indices -> PortEntries]
  BY <1>1, <1>4, <1>5, <1>6, <1>7
<1>9. ASSUME NEW e \in Indices, NEW hash \in Hashes
      PROVE  m_flowTelemetryData'[e][hash] =
               IF e = x /\ hash = h THEN fe ELSE m_flowTelemetryData[e][hash]
  BY <1>1, <1>6, <1>7, <1>9
<1>10. ASSUME NEW e \in Indices
       PROVE  m_portTelemetryData'[e] = IF e = x THEN pe ELSE m_portTelemetryData[e]
  BY <1>1, <1>6, <1>7, <1>10
<1>11. QED
  BY <1>8, <1>9, <1>10 DEF x, h, fe, pe

LEMMA SendInOrder ==
  ASSUME Typed, InOrder, NEW f \in Flows, NEW depth \in Depths, SendToDev(f, depth)
  PROVE  Typed' /\ InOrder'
<1>1. Typed'
  BY Logged, Written DEF Typed
<1>2. InOrder'
  <2>1. /\ Len(log) \in Nat /\ Len(log') = Len(log) + 1 /\ now' = now
        /\ \A i \in 1..Len(log) : log'[i] = log[i]
        /\ log'[Len(log) + 1].time = now
    BY Logged
  <2>2. \A i \in 1..Len(log') : i \in 1..Len(log) \/ i = Len(log) + 1
    BY <2>1
  <2>3. \A i \in 1..Len(log') : log'[i].time <= now
    BY <2>1, <2>2 DEF InOrder, Typed
  <2>4. ASSUME NEW i \in 1..Len(log'), NEW j \in 1..Len(log'), i <= j
        PROVE  log'[i].time <= log'[j].time
    <3>1. CASE j \in 1..Len(log)
      BY <2>1, <2>2, <2>4, <3>1 DEF InOrder
    <3>2. CASE j = Len(log) + 1
      BY <2>1, <2>3, <2>4, <3>2
    <3>3. QED
      BY <2>2, <3>1, <3>2
  <2>5. QED
    BY <2>1, <2>3, <2>4 DEF InOrder
<1>3. QED
  BY <1>1, <1>2

-----------------------------------------------------------------------------
(***************************************************************************)
(* A packet: the flow entries.                                             *)
(***************************************************************************)

LEMMA RunIsPast ==
  ASSUME Typed, NEW epoch, NEW hash
  PROVE  /\ RunIn(log, epoch, hash) \subseteq 1..Len(log)
         /\ RunIn(log, epoch, hash) \subseteq PastIn(log, epoch % epochNum, hash)
         /\ \A i \in RunIn(log, epoch, hash) : EpochOf(log[i].time) = epoch
<1>1. DOMAIN log = 1..Len(log)
  BY DEF Typed
<1>2. QED
  BY <1>1 DEF RunIn, SameIn, EpochIn, PastIn

LEMMA PastLogged ==
  ASSUME Typed, NEW f \in Flows, NEW depth \in Depths, SendToDev(f, depth),
         NEW e \in Indices, NEW hash
  PROVE  PastIn(log', e, hash) = IF e = GetEpochIdx /\ hash = FiveTupleHash[f]
                          THEN PastIn(log, e, hash) \cup {Len(log) + 1} ELSE PastIn(log, e, hash)
<1> DEFINE n == Len(log) + 1
<1>1. /\ Len(log) \in Nat /\ Len(log') = n
      /\ \A i \in 1..Len(log) : log'[i] = log[i]
      /\ log'[n].time = now /\ log'[n].flow = f
  BY Logged
<1>2. 1..n = (1..Len(log)) \cup {n} /\ n \notin 1..Len(log)
  BY <1>1
<1>0. DOMAIN log = 1..Len(log) /\ DOMAIN log' = 1..n
  BY Logged
<1> HIDE DEF n
<1>3. PastIn(log', e, hash) = {i \in 1..n : FiveTupleHash[log'[i].flow] = hash
                                     /\ EpochOf(log'[i].time) % epochNum = e}
  BY <1>0 DEF PastIn
<1>4. GetEpochIdx = EpochOf(now) % epochNum
  BY DEF GetEpochIdx
<1>5. QED
  BY <1>0, <1>1, <1>2, <1>3, <1>4 DEF PastIn, n

\* The entry that is written: it starts again exactly if the packet begins a run.
LEMMA EntryWritten ==
  ASSUME Typed, InOrder, NEW f \in Flows, NEW depth \in Depths, SendToDev(f, depth),
         NEW e, e = GetEpochIdx, NEW hash, hash = FiveTupleHash[f], FlowBook(e, hash)
  PROVE  FlowBook(e, hash)'
<1> DEFINE n == Len(log) + 1
           E == EpochOf(now)
           entry == m_flowTelemetryData[e][hash]
           epoch == EpochOf(entry.lastTimeStep)
           run == RunIn(log, E, hash)
           entry1 == m_flowTelemetryData'[e][hash]
           run1 == {i \in run : log[i].flow = f} \cup {n}
<1>1. e \in Indices /\ hash \in Hashes /\ E \in Nat /\ e = E % 2
  BY EpochIndex DEF Hashes, GetEpochIdx, epochNum
<1>2. /\ entry \in FlowEntries /\ now \in Nat /\ m_paused \in BOOLEAN /\ log \in Seq(Packets)
  BY <1>1 DEF Typed
<1>3. entry1 = FlowEntry(entry, f, depth)
  BY <1>1, Written
<1>4. RunIn(log', E, hash) = run1
  BY RunLogged
<1>5. PastIn(log', e, hash) = PastIn(log, e, hash) \cup {n}
  BY <1>1, PastLogged
<1>6. /\ Len(log) \in Nat /\ now' = now
      /\ \A i \in 1..Len(log) : log'[i] = log[i]
      /\ log'[n].time = now /\ log'[n].flow = f /\ log'[n].paused = m_paused
  BY Logged
<1>7. n \notin 1..Len(log) /\ \A i \in 1..Len(log) : n >= i
  BY <1>6
<1>8. /\ run \subseteq 1..Len(log) /\ run \subseteq PastIn(log, e, hash)
      /\ \A i \in run : EpochOf(log[i].time) = E
      /\ PastIn(log, e, hash) \subseteq 1..Len(log)
  BY <1>1, RunIsPast DEF PastIn, epochNum
<1>9. entry1.flow = f /\ entry1.lastTimeStep = now /\ f # NoFlow
  BY <1>3, TelemetryAssumption DEF FlowEntry
<1> DEFINE fresh == entry.flow # f \/ IsNewEntry(entry.lastTimeStep)
<1>10. /\ entry1.packetNum = IF fresh THEN 1 ELSE entry.packetNum + 1
       /\ entry1.pfcPausedPacketNum =
            (IF fresh THEN 0 ELSE entry.pfcPausedPacketNum) + (IF m_paused THEN 1 ELSE 0)
  BY <1>2, <1>3 DEF FlowEntry, FlowEntries
<1>11. entry.flow # NoFlow =>
         /\ epoch \in Nat /\ epoch <= E /\ epoch % 2 = e /\ entry.lastTimeStep <= now
         /\ \A i \in PastIn(log, e, hash) : EpochOf(log[i].time) <= epoch
         /\ StandsFor(log, entry, RunIn(log, epoch, hash))
         /\ IsNewEntry(entry.lastTimeStep) <=> epoch # E
  <2>1. SUFFICES ASSUME entry.flow # NoFlow PROVE <1>11!2
    OBVIOUS
  <2>2. /\ entry.lastTimeStep <= now /\ epoch % 2 = e
        /\ \A i \in PastIn(log, e, hash) : EpochOf(log[i].time) <= epoch
        /\ StandsFor(log, entry, RunIn(log, epoch, hash))
    BY <2>1 DEF FlowBook, PastIn, epochNum
  <2>3. entry.lastTimeStep \in Nat
    BY <1>2 DEF FlowEntries
  <2>4. /\ epoch \in Nat /\ epoch <= E
        /\ E = epoch => now - entry.lastTimeStep < epochTime
        /\ E >= epoch + 2 => now - entry.lastTimeStep > epochTime
    BY <1>2, <2>2, <2>3, EpochAges
  <2> HIDE DEF E, epoch
  <2>5. epoch # E => E >= epoch + 2
    BY <1>1, <2>2, <2>4
  <2>6. IsNewEntry(entry.lastTimeStep) <=> now - entry.lastTimeStep > epochTime
    BY <1>2, <2>3, TelemetryAssumption DEF IsNewEntry, epochNum
  <2>7. IsNewEntry(entry.lastTimeStep) <=> epoch # E
    BY <1>2, <2>3, <2>4, <2>5, <2>6, TelemetryAssumption
  <2>8. QED
    BY <2>2, <2>4, <2>7
<1>12. StandsFor(log', entry1, run1)
  <2>1. CASE fresh
    <3>1. run1 = {n}
      <4>1. SUFFICES ASSUME NEW i \in run, log[i].flow = f PROVE FALSE
        OBVIOUS
      <4>2. entry.flow # NoFlow
        BY <1>8, <4>1 DEF FlowBook, PastIn
      <4>3. epoch = E
        BY <1>1, <1>8, <1>11, <4>1, <4>2
      <4>4. entry.flow = f
        BY <1>11, <4>1, <4>2, <4>3 DEF StandsFor
      <4>5. QED
        BY <1>11, <2>1, <4>2, <4>3, <4>4
    <3>2. Last(run1) /\ run1 # {} /\ \A i \in run1 : log'[i].flow = entry1.flow
      <4>1. log'[n].flow = entry1.flow /\ n >= n
        BY <1>6, <1>9
      <4> HIDE DEF n, run1, entry1
      <4>2. QED
        BY <3>1, <4>1 DEF Last
    <3>3. run1 = {} \cup {n} /\ PausedIn(log, {}) = {}
      BY <3>1 DEF PausedIn
    <3>4. IsFiniteSet({}) /\ Cardinality({}) = 0
      BY FS_EmptySet
    <3>5. Cardinality(run1) = 1
          /\ Cardinality(PausedIn(log', run1)) = IF m_paused THEN 1 ELSE 0
      <4>0. log'[n].paused = m_paused /\ m_paused \in BOOLEAN
        BY <1>2, <1>6
      <4> HIDE DEF n, run1
      <4>1. /\ Cardinality({} \cup {n}) = Cardinality({}) + 1
            /\ Cardinality(PausedIn(log', {} \cup {n})) =
                 Cardinality(PausedIn(log, {})) + (IF m_paused THEN 1 ELSE 0)
        BY <3>4, <4>0, PausedGrown
      <4>2. QED
        BY <3>3, <3>4, <4>0, <4>1
    <3>6. QED
      BY <1>10, <2>1, <3>2, <3>5 DEF StandsFor
  <2>2. CASE ~fresh
    <3>1. entry.flow = f /\ epoch = E
      BY <1>9, <1>11, <2>2
    <3>2. StandsFor(log, entry, run)
      BY <1>9, <1>11, <3>1
    <3>3. run1 = run \cup {n}
      BY <3>1, <3>2 DEF StandsFor
    <3>4. Last(run1) /\ run1 # {} /\ \A i \in run1 : log'[i].flow = entry1.flow
      <4>1. n \in run1 /\ \A i \in run1 : n >= i
        BY <1>6, <1>7, <1>8
      <4>2. QED
        BY <1>6, <1>8, <1>9, <4>1 DEF Last
    <3>5. /\ Cardinality(run1) = Cardinality(run) + 1
          /\ Cardinality(PausedIn(log', run1)) =
               Cardinality(PausedIn(log, run)) + (IF m_paused THEN 1 ELSE 0)
      <4>1. IsFiniteSet(run) /\ n \notin run /\ \A i \in run : log'[i] = log[i]
        BY <1>6, <1>7, <1>8, LogFinite
      <4>2. log'[n].paused = m_paused /\ m_paused \in BOOLEAN
        BY <1>2, <1>6
      <4> HIDE DEF n, run1
      <4>3. /\ Cardinality(run \cup {n}) = Cardinality(run) + 1
            /\ Cardinality(PausedIn(log', run \cup {n})) =
                 Cardinality(PausedIn(log, run)) + (IF m_paused THEN 1 ELSE 0)
        BY <4>1, <4>2, PausedGrown
      <4>4. QED
        BY <1>6, <3>3, <4>3
    <3>6. QED
      BY <1>10, <2>2, <3>2, <3>4, <3>5 DEF StandsFor
  <2>3. QED
    BY <2>1, <2>2
<1>13. \A i \in PastIn(log', e, hash) : EpochOf(log'[i].time) <= E
  <2>0. \A i \in 1..Len(log) : log[i] \in Packets
    BY <1>2
  <2>1. \A i \in 1..Len(log) : log[i].time \in Nat /\ log[i].time <= now
    BY <2>0 DEF InOrder, Packets
  <2>2. \A i \in 1..Len(log) : EpochOf(log[i].time) <= E
    BY <1>2, <2>1, EpochAges
  <2>3. QED
    BY <1>1, <1>5, <1>6, <1>8, <2>2
<1>14. QED
  <2>1. EpochOf(entry1.lastTimeStep) = E
    BY <1>9
  <2>2. /\ entry1.flow # NoFlow /\ entry1.lastTimeStep <= now' /\ E % epochNum = e
    BY <1>1, <1>2, <1>6, <1>9 DEF epochNum
  <2>3. FlowBook(e, hash)' =
          IF entry1.flow = NoFlow THEN PastIn(log', e, hash) = {}
          ELSE /\ entry1.lastTimeStep <= now' /\ EpochOf(entry1.lastTimeStep) % epochNum = e
               /\ \A i \in PastIn(log', e, hash) : EpochOf(log'[i].time) <= EpochOf(entry1.lastTimeStep)
               /\ StandsFor(log', entry1, RunIn(log', EpochOf(entry1.lastTimeStep), hash))
    BY DEF FlowBook
  <2>4. QED
    BY <1>4, <1>12, <1>13, <2>1, <2>2, <2>3

\* The entries that are not written.
LEMMA EntryKept ==
  ASSUME Typed, NEW f \in Flows, NEW depth \in Depths, SendToDev(f, depth),
         NEW e \in Indices, NEW hash \in Hashes, ~(e = GetEpochIdx /\ hash = FiveTupleHash[f]),
         FlowBook(e, hash)
  PROVE  FlowBook(e, hash)'
<1> DEFINE entry == m_flowTelemetryData[e][hash]
           epoch == EpochOf(entry.lastTimeStep)
           run == RunIn(log, epoch, hash)
<1>1. m_flowTelemetryData'[e][hash] = entry
  BY Written
<1>2. PastIn(log', e, hash) = PastIn(log, e, hash)
  BY PastLogged
<1>3. /\ now' = now /\ DOMAIN log = 1..Len(log)
      /\ \A i \in 1..Len(log) : log'[i] = log[i]
  BY Logged
<1>4. CASE entry.flow = NoFlow
  BY <1>1, <1>2, <1>4 DEF FlowBook
<1>5. CASE entry.flow # NoFlow
  <2>1. /\ entry.lastTimeStep <= now /\ epoch % epochNum = e
        /\ \A i \in PastIn(log, e, hash) : EpochOf(log[i].time) <= epoch
        /\ StandsFor(log, entry, run)
    BY <1>5 DEF FlowBook
  <2>2. ~(epoch = EpochOf(now) /\ hash = FiveTupleHash[f])
    BY <2>1 DEF GetEpochIdx
  <2>3. RunIn(log', epoch, hash) = run
    BY <2>2, RunLogged
  <2>4. StandsFor(log', entry, run)
    <3>1. \A i \in run : log'[i] = log[i]
      BY <1>3, RunIsPast
    <3> HIDE DEF run, entry
    <3>2. QED
      BY <2>1, <3>1, StandsKept
  <2>5. \A i \in PastIn(log', e, hash) : EpochOf(log'[i].time) <= epoch
    BY <1>2, <1>3, <2>1 DEF PastIn
  <2>6. QED
    BY <1>1, <1>3, <1>5, <2>1, <2>3, <2>4, <2>5 DEF FlowBook
<1>6. QED
  BY <1>4, <1>5

-----------------------------------------------------------------------------
(***************************************************************************)
(* A packet: the port entries.                                             *)
(***************************************************************************)

\* The first packet of an epoch begins the entry, and is not among the paused ones.
LEMMA CountBegins ==
  ASSUME NEW l, NEW n \in Nat, NEW entry,
         entry.packetNum = 1, entry.pfcPausedPacketNum = 0
  PROVE  CountsFrom(l, entry, {n})
<1>1. Cardinality({n}) = 1
  <2>1. IsFiniteSet({}) /\ Cardinality({}) = 0
    BY FS_EmptySet
  <2>2. Cardinality({} \cup {n}) = Cardinality({}) + 1
    BY <2>1, FS_AddElement
  <2>3. QED
    BY <2>1, <2>2
<1>2. PausedIn(l, {n} \ {n}) = {} /\ Cardinality({}) = 0
  BY FS_EmptySet DEF PausedIn
<1>3. QED
  BY <1>1, <1>2 DEF CountsFrom, First

\* A later one adds to both counts.
LEMMA CountGrows ==
  ASSUME NEW l, NEW l1, NEW packets, packets \subseteq Nat, IsFiniteSet(packets),
         NEW n, n \in Nat, \A i \in packets : n > i,
         \A i \in packets : l1[i] = l[i], NEW p, p \in BOOLEAN, l1[n].paused = p,
         NEW entry, NEW entry1, CountsFrom(l, entry, packets),
         entry1.packetNum = entry.packetNum + 1,
         entry1.pfcPausedPacketNum = entry.pfcPausedPacketNum + (IF p THEN 1 ELSE 0)
  PROVE  CountsFrom(l1, entry1, packets \cup {n})
<1>1. n \notin packets
  OBVIOUS
<1>0. ASSUME NEW rest, IsFiniteSet(rest), n \notin rest, \A i \in rest : l1[i] = l[i]
      PROVE  Cardinality(PausedIn(l1, rest \cup {n})) =
               Cardinality(PausedIn(l, rest)) + (IF p THEN 1 ELSE 0)
  BY <1>0, PausedGrown
<1>2. PICK m \in packets : \A i \in packets : m <= i
  BY DEF CountsFrom, First
<1>3. \A i \in packets \cup {n} : m <= i
  BY <1>2
<1>4. entry1.packetNum = Cardinality(packets \cup {n})
  BY <1>1, FS_AddElement DEF CountsFrom
<1>5. entry1.pfcPausedPacketNum = Cardinality(PausedIn(l1, (packets \cup {n}) \ {m}))
  <2> DEFINE rest == packets \ {m}
  <2>1. rest \subseteq packets /\ IsFiniteSet(rest)
    BY FS_Subset
  <2>2. (packets \cup {n}) \ {m} = rest \cup {n}
    BY <1>1, <1>2
  <2>3. n \notin rest /\ \A i \in rest : l1[i] = l[i]
    BY <1>1, <2>1
  <2>4. entry.pfcPausedPacketNum = Cardinality(PausedIn(l, rest))
    BY <1>2 DEF CountsFrom
  <2> HIDE DEF rest
  <2>5. Cardinality(PausedIn(l1, rest \cup {n})) =
          Cardinality(PausedIn(l, rest)) + (IF p THEN 1 ELSE 0)
    BY <1>0, <2>1, <2>3
  <2>6. QED
    BY <2>2, <2>4, <2>5
<1>6. \A k \in packets \cup {n} : (\A i \in packets \cup {n} : k <= i) => k = m
  BY <1>2, <1>3
<1>7. QED
  BY <1>2, <1>3, <1>4, <1>5, <1>6 DEF CountsFrom, First

LEMMA CountKept ==
  ASSUME NEW l, NEW l1, NEW packets, \A i \in packets : l1[i] = l[i],
         NEW entry, CountsFrom(l, entry, packets)
  PROVE  CountsFrom(l1, entry, packets)
<1>1. \A m : PausedIn(l1, packets \ {m}) = PausedIn(l, packets \ {m})
  BY DEF PausedIn
<1>2. QED
  BY <1>1 DEF CountsFrom

\* The entry that is written.
LEMMA PortWritten ==
  ASSUME Typed, InOrder, now < Wrap, NEW f \in Flows, NEW depth \in Depths, SendToDev(f, depth),
         NEW e, e = GetEpochIdx, PortBook(e)
  PROVE  PortBook(e)'
<1> DEFINE n == Len(log) + 1
           E == EpochOf(now)
           entry == m_portTelemetryData[e]
           epoch == EpochOf(entry.lastTimeStep)
           old == EpochIn(log, E)
           entry1 == m_portTelemetryData'[e]
           fresh == IsNewEntry(entry.lastTimeStep)
<1>1. e \in Indices /\ E \in Nat /\ e = E % 2
  BY EpochIndex DEF GetEpochIdx, epochNum
<1>2. /\ entry \in PortEntries /\ now \in Nat /\ m_paused \in BOOLEAN /\ log \in Seq(Packets)
  BY <1>1 DEF Typed
<1>3. entry1 = PortEntry(entry, depth)
  BY <1>1, Written
<1>4. /\ Len(log) \in Nat /\ Len(log') = n /\ now' = now /\ DOMAIN log = 1..Len(log)
      /\ \A i \in 1..Len(log) : log'[i] = log[i]
      /\ log'[n].time = now /\ log'[n].paused = m_paused
  BY Logged
<1>5. \A k \in 1..n : k \in 1..Len(log) \/ k = n
  BY <1>4
<1>6. EpochIn(log', E) = old \cup {n}
  BY EpochLogged
<1>7. entry1.lastTimeStep = now
  <2>1. now % Wrap = now
    BY <1>2, TelemetryAssumption
  <2>2. QED
    BY <1>3, <2>1 DEF PortEntry
<1>8. /\ entry1.packetNum = IF fresh THEN 1 ELSE entry.packetNum + 1
      /\ entry1.pfcPausedPacketNum =
           IF fresh THEN 0 ELSE entry.pfcPausedPacketNum + (IF m_paused THEN 1 ELSE 0)
  BY <1>3 DEF PortEntry
<1>9. /\ entry.lastTimeStep \in Nat /\ entry.lastTimeStep <= now
      /\ entry.lastTimeStep = 0 \/ epoch % 2 = e
      /\ \A i \in 1..Len(log) : EpochOf(log[i].time) % 2 = e => EpochOf(log[i].time) <= epoch
      /\ epoch >= 2 => CountsFrom(log, entry, EpochIn(log, epoch))
  BY <1>2 DEF PortBook, PortEntries, epochNum
<1>10. \A i \in 1..Len(log') : EpochOf(log'[i].time) % 2 = e => EpochOf(log'[i].time) <= E
  <2>1. \A i \in 1..Len(log) : log[i] \in Packets
    BY <1>2
  <2>2. \A i \in 1..Len(log) : log[i].time \in Nat /\ log[i].time <= now
    BY <2>1 DEF InOrder, Packets
  <2>3. \A i \in 1..Len(log) : EpochOf(log[i].time) <= E
    BY <1>2, <2>2, EpochAges
  <2>4. ASSUME NEW i \in 1..n PROVE EpochOf(log'[i].time) <= E
    <3>1. CASE i \in 1..Len(log)
      BY <1>4, <2>3, <3>1
    <3>2. CASE i = n
      BY <1>1, <1>4, <3>2
    <3>3. QED
      BY <1>5, <3>1, <3>2
  <2>5. QED
    BY <1>4, <2>4
<1>11. E >= 2 => (fresh <=> epoch # E)
  <2>1. SUFFICES ASSUME E >= 2 PROVE fresh <=> epoch # E
    OBVIOUS
  <2>2. /\ epoch \in Nat /\ epoch <= E
        /\ E = epoch => now - entry.lastTimeStep < epochTime
        /\ E >= epoch + 2 => now - entry.lastTimeStep > epochTime
    BY <1>2, <1>9, EpochAges
  <2>3. entry.lastTimeStep = 0 => epoch = 0
    BY TelemetryAssumption DEF EpochOf
  <2>4. fresh <=> now - entry.lastTimeStep > epochTime
    BY <1>2, <1>9, TelemetryAssumption DEF IsNewEntry, epochNum
  <2> HIDE DEF E, epoch, fresh
  <2>5. epoch # E => E >= epoch + 2
    <3>1. CASE entry.lastTimeStep = 0
      BY <1>1, <2>1, <2>2, <2>3, <3>1
    <3>2. CASE epoch % 2 = e
      BY <1>1, <2>2, <3>2
    <3>3. QED
      BY <1>9, <3>1, <3>2
  <2>6. QED
    BY <1>2, <1>9, <2>2, <2>4, <2>5, TelemetryAssumption
<1>12. E >= 2 => CountsFrom(log', entry1, old \cup {n})
  <2>1. SUFFICES ASSUME E >= 2 PROVE CountsFrom(log', entry1, old \cup {n})
    OBVIOUS
  <2>2. old \subseteq 1..Len(log) /\ \A i \in old : EpochOf(log[i].time) = E
    BY <1>4 DEF EpochIn
  <2>3. CASE fresh
    <3>1. old = {}
      <4>1. epoch # E /\ epoch \in Nat /\ epoch <= E
        BY <1>2, <1>9, <1>11, <2>1, <2>3, EpochAges
      <4>2. SUFFICES ASSUME NEW i \in old PROVE FALSE
        OBVIOUS
      <4>3. EpochOf(log[i].time) = E /\ i \in 1..Len(log)
        BY <2>2
      <4>4. E <= epoch
        BY <1>1, <1>9, <4>3
      <4>5. QED
        BY <1>1, <4>1, <4>4
    <3>2. old \cup {n} = {n} /\ n \in Nat
      BY <1>4, <3>1
    <3>3. entry1.packetNum = 1 /\ entry1.pfcPausedPacketNum = 0
      BY <1>8, <2>3
    <3> HIDE DEF n, old, entry1
    <3>4. QED
      BY <3>2, <3>3, CountBegins
  <2>4. CASE ~fresh
    <3>1. CountsFrom(log, entry, old)
      BY <1>9, <1>11, <2>1, <2>4
    <3>2. old \subseteq Nat /\ n \in Nat /\ \A i \in old : n > i
      BY <1>4, <2>2
    <3>3. IsFiniteSet(old)
      BY <2>2, LogFinite
    <3>4. \A i \in old : log'[i] = log[i]
      BY <1>4, <2>2
    <3>5. log'[n].paused = m_paused /\ m_paused \in BOOLEAN
      BY <1>2, <1>4
    <3>6. /\ entry1.packetNum = entry.packetNum + 1
          /\ entry1.pfcPausedPacketNum = entry.pfcPausedPacketNum + (IF m_paused THEN 1 ELSE 0)
      BY <1>8, <2>4
    <3> HIDE DEF n, old, entry, entry1
    <3>7. QED
      BY <3>1, <3>2, <3>3, <3>4, <3>5, <3>6, CountGrows
  <2>5. QED
    BY <2>3, <2>4
<1>13. QED
  <2>1. PortBook(e)' =
          LET k == EpochOf(entry1.lastTimeStep)
          IN  /\ entry1.lastTimeStep <= now'
              /\ entry1.lastTimeStep = 0 \/ k % epochNum = e
              /\ \A i \in 1..Len(log') :
                   EpochOf(log'[i].time) % epochNum = e => EpochOf(log'[i].time) <= k
              /\ k >= epochNum => CountsFrom(log', entry1, EpochIn(log', k))
    BY DEF PortBook
  <2>2. now <= now' /\ E % epochNum = e
    BY <1>1, <1>2, <1>4 DEF epochNum
  <2>3. QED
    BY <1>6, <1>7, <1>10, <1>12, <2>1, <2>2 DEF epochNum

\* The other one.
LEMMA PortKept ==
  ASSUME Typed, NEW f \in Flows, NEW depth \in Depths, SendToDev(f, depth),
         NEW e \in Indices, e # GetEpochIdx, PortBook(e)
  PROVE  PortBook(e)'
<1> DEFINE n == Len(log) + 1
           entry == m_portTelemetryData[e]
           epoch == EpochOf(entry.lastTimeStep)
           packets == EpochIn(log, epoch)
<1>1. m_portTelemetryData'[e] = entry
  BY Written
<1>2. /\ Len(log) \in Nat /\ Len(log') = n /\ now' = now /\ DOMAIN log = 1..Len(log)
      /\ \A i \in 1..Len(log) : log'[i] = log[i]
      /\ log'[n].time = now
  BY Logged
<1>3. \A k \in 1..n : k \in 1..Len(log) \/ k = n
  BY <1>2
<1>4. EpochOf(now) % epochNum # e
  BY DEF GetEpochIdx
<1>5. \A i \in 1..Len(log') : EpochOf(log'[i].time) % epochNum = e => EpochOf(log'[i].time) <= epoch
  BY <1>2, <1>3, <1>4 DEF PortBook
<1>6. epoch >= epochNum => CountsFrom(log', entry, EpochIn(log', epoch))
  <2>1. SUFFICES ASSUME epoch >= epochNum PROVE CountsFrom(log', entry, EpochIn(log', epoch))
    OBVIOUS
  <2>2. epoch % epochNum = e
    <3>1. entry.lastTimeStep = 0 => epoch = 0
      BY TelemetryAssumption DEF EpochOf
    <3>2. QED
      BY <2>1, <3>1 DEF PortBook, epochNum
  <2>3. EpochIn(log', epoch) = packets
    BY <1>4, <2>2, EpochLogged
  <2>4. \A i \in packets : log'[i] = log[i]
    BY <1>2 DEF EpochIn
  <2>5. CountsFrom(log, entry, packets)
    BY <2>1 DEF PortBook
  <2> HIDE DEF packets, entry
  <2>6. CountsFrom(log', entry, packets)
    BY <2>4, <2>5, CountKept
  <2>7. QED
    BY <2>3, <2>6
<1>7. QED
  BY <1>1, <1>2, <1>5, <1>6 DEF PortBook

-----------------------------------------------------------------------------
(***************************************************************************)
(* Every step.                                                             *)
(***************************************************************************)
LEMMA SendBooks ==
  ASSUME Books, NEW f \in Flows, NEW depth \in Depths, SendToDev(f, depth)
  PROVE  Books'
<1>1. Typed /\ InOrder
  BY DEF Books
<1>2. Typed' /\ InOrder'
  BY <1>1, SendInOrder
<1>3. ASSUME NEW e \in Indices, NEW hash \in Hashes PROVE FlowBook(e, hash)'
  <2>1. FlowBook(e, hash)
    BY DEF Books
  <2>2. CASE e = GetEpochIdx /\ hash = FiveTupleHash[f]
    BY <1>1, <2>1, <2>2, EntryWritten
  <2>3. CASE ~(e = GetEpochIdx /\ hash = FiveTupleHash[f])
    BY <1>1, <2>1, <2>3, EntryKept
  <2>4. QED
    BY <2>2, <2>3
<1>4. ASSUME now' < Wrap, NEW e \in Indices PROVE PortBook(e)'
  <2>1. now < Wrap /\ PortBook(e)
    BY <1>1, <1>4, Logged DEF Books
  <2>2. CASE e = GetEpochIdx
    BY <1>1, <2>1, <2>2, PortWritten
  <2>3. CASE e # GetEpochIdx
    BY <1>1, <2>1, <2>3, PortKept
  <2>4. QED
    BY <2>2, <2>3
<1>5. QED
  BY <1>2, <1>3, <1>4 DEF Books

\* Time and PFC frames leave the books alone.
LEMMA QuietBooks ==
  ASSUME Books, now' \in Nat, now <= now', m_paused' \in BOOLEAN,
         UNCHANGED <<m_flowTelemetryData, m_portTelemetryData, log>>
  PROVE  Books'
<1>1. /\ now \in Nat /\ m_flowTelemetryData' = m_flowTelemetryData
      /\ m_portTelemetryData' = m_portTelemetryData /\ log' = log
      /\ log \in Seq(Packets)
  BY DEF Books, Typed
<1>2. Typed'
  BY <1>1 DEF Books, Typed
<1>3. InOrder'
  <2>1. \A i \in 1..Len(log) : log[i] \in Packets
    BY <1>1
  <2>2. \A i \in 1..Len(log) : log[i].time \in Nat
    BY <2>1 DEF Packets
  <2>3. QED
    BY <1>1, <2>2 DEF Books, InOrder
<1>4. ASSUME NEW e \in Indices, NEW hash \in Hashes PROVE FlowBook(e, hash)'
  <2>1. FlowBook(e, hash) /\ m_flowTelemetryData[e][hash] \in FlowEntries
    BY DEF Books, Typed
  <2>2. m_flowTelemetryData[e][hash].lastTimeStep \in Nat
    BY <2>1 DEF FlowEntries
  <2>3. QED
    BY <1>1, <2>1, <2>2 DEF FlowBook
<1>5. ASSUME now' < Wrap, NEW e \in Indices PROVE PortBook(e)'
  <2>1. now < Wrap
    BY <1>1, <1>5, TelemetryAssumption
  <2>2. PortBook(e) /\ m_portTelemetryData[e] \in PortEntries
    BY <2>1 DEF Books, Typed
  <2>3. m_portTelemetryData[e].lastTimeStep \in Nat
    BY <2>2 DEF PortEntries
  <2>4. QED
    BY <1>1, <2>2, <2>3 DEF PortBook
<1>6. QED
  BY <1>2, <1>3, <1>4, <1>5 DEF Books

LEMMA NextBooks == Books /\ [Next]_vars => Books'
<1> SUFFICES ASSUME Books, [Next]_vars PROVE Books'
  OBVIOUS
<1>0. now \in Nat /\ m_paused \in BOOLEAN
  BY DEF Books, Typed
<1>1. CASE \E f \in Flows, depth \in Depths : SendToDev(f, depth)
  BY <1>1, SendBooks
<1>2. CASE ReceivePfc
  BY <1>0, <1>2, QuietBooks DEF ReceivePfc, counters
<1>3. CASE Tick
  BY <1>0, <1>3, QuietBooks DEF Tick, counters
<1>4. CASE UNCHANGED vars
  BY <1>0, <1>4, QuietBooks DEF vars, counters
<1>5. QED
  BY <1>1, <1>2, <1>3, <1>4 DEF Next

LEMMA BooksKept == Spec => []Books
  BY InitBooks, NextBooks, PTL DEF Spec

-----------------------------------------------------------------------------
(***************************************************************************)
(* What is read.                                                           *)
(***************************************************************************)
LEMMA BooksFlowExact == Books => FlowEntriesExact
<1> SUFFICES ASSUME Books, NEW epochsAgo \in 0..(epochNum - 1), NEW hash \in Hashes,
                    EpochOf(now) - epochsAgo >= 0
             PROVE  LET epoch == EpochOf(now) - epochsAgo
                        entry == m_flowTelemetryData[epoch % epochNum][hash]
                        packets == LastRun(epoch, hash)
                    IN  /\ IsPrinted(entry, epochsAgo) <=> packets # {}
                        /\ packets # {} =>
                             /\ entry.flow = log[Max(packets)].flow
                             /\ entry.packetNum = Cardinality(packets)
                             /\ entry.pfcPausedPacketNum = Cardinality(Paused(packets))
  BY DEF FlowEntriesExact
<1> DEFINE E == EpochOf(now)
           epoch == E - epochsAgo
           e == epoch % epochNum
           entry == m_flowTelemetryData[e][hash]
           k == EpochOf(entry.lastTimeStep)
           run == RunIn(log, epoch, hash)
<1>1. /\ now \in Nat /\ E \in Nat /\ epochsAgo \in {0, 1} /\ epoch \in Nat /\ epochTime \in Nat
      /\ Typed
  BY EpochIndex, TelemetryAssumption DEF Books, Typed, epochNum
<1>2. e \in Indices /\ e = epoch % 2
  <2> HIDE DEF epoch
  <2>1. epoch % 2 \in 0..1
    BY <1>1
  <2>2. QED
    BY <2>1 DEF Indices, epochNum
<1>3. entry \in FlowEntries /\ FlowBook(e, hash)
  BY <1>1, <1>2 DEF Books, Typed
<1>4. run \subseteq PastIn(log, e, hash) /\ \A i \in run : EpochOf(log[i].time) = epoch
  BY <1>1, RunIsPast
<1>5. LastRun(epoch, hash) = run /\ Paused(run) = PausedIn(log, run)
  BY SameHistory
<1>6. CASE entry.flow = NoFlow
  <2>1. run = {}
    BY <1>3, <1>4, <1>6 DEF FlowBook
  <2>2. ~IsPrinted(entry, epochsAgo)
    BY <1>6 DEF IsPrinted
  <2>3. QED
    BY <1>5, <2>1, <2>2
<1>7. CASE entry.flow # NoFlow
  <2>1. /\ entry.lastTimeStep <= now /\ k % 2 = e
        /\ \A i \in PastIn(log, e, hash) : EpochOf(log[i].time) <= k
        /\ StandsFor(log, entry, RunIn(log, k, hash))
    BY <1>3, <1>7 DEF FlowBook, epochNum
  <2>2. entry.lastTimeStep \in Nat
    BY <1>3 DEF FlowEntries
  <2>3. /\ k \in Nat /\ k <= E
        /\ E = k => now - entry.lastTimeStep < epochTime
        /\ E = k + 1 => now - entry.lastTimeStep < 2 * epochTime
        /\ E >= k + 2 => now - entry.lastTimeStep > epochTime
        /\ E >= k + 3 => now - entry.lastTimeStep > 2 * epochTime
    BY <1>1, <2>1, <2>2, EpochAges
  <2>4. IsPrinted(entry, epochsAgo) <=> now - entry.lastTimeStep <= epochTime * (1 + epochsAgo)
    BY <1>7 DEF IsPrinted, epochNum
  <2>5. k = epoch \/ k <= epoch - 2
    <3> HIDE DEF k, E, e, entry
    <3>1. CASE epochsAgo = 0
      BY <1>1, <1>2, <2>1, <2>3, <3>1
    <3>2. CASE epochsAgo = 1
      BY <1>1, <1>2, <2>1, <2>3, <3>2
    <3>3. QED
      BY <1>1, <3>1, <3>2
  <2>6. IsPrinted(entry, epochsAgo) <=> k = epoch
    <3> HIDE DEF k, E, entry
    <3>1. CASE epochsAgo = 0
      BY <1>1, <2>2, <2>3, <2>4, <2>5, <3>1
    <3>2. CASE epochsAgo = 1
      BY <1>1, <2>2, <2>3, <2>4, <2>5, <3>2
    <3>3. QED
      BY <1>1, <3>1, <3>2
  <2>7. CASE k = epoch
    <3>1. StandsFor(log, entry, run)
      BY <2>1, <2>7
    <3>2. run # {} /\ \A i \in run : log[i].flow = entry.flow
      BY <3>1 DEF StandsFor
    <3>3. Max(run) \in run
      BY <3>1 DEF StandsFor, Last, Max
    <3>4. entry.flow = log[Max(run)].flow
      BY <3>2, <3>3
    <3>5. QED
      BY <1>5, <2>6, <2>7, <3>1, <3>2, <3>4 DEF StandsFor
  <2>8. CASE k # epoch
    <3>1. run = {}
      BY <1>1, <1>4, <2>1, <2>3, <2>5, <2>8
    <3>2. QED
      BY <1>5, <2>6, <2>8, <3>1
  <2>9. QED
    BY <2>7, <2>8
<1>8. QED
  BY <1>6, <1>7

LEMMA BooksPortExact == Books => PortEntriesExact
<1> SUFFICES ASSUME Books, NEW epochsAgo \in 0..(epochNum - 1),
                    InEpoch(EpochOf(now) - epochsAgo) # {},
                    EpochOf(now) - epochsAgo >= epochNum, now < Wrap
             PROVE  LET epoch == EpochOf(now) - epochsAgo
                        entry == m_portTelemetryData[epoch % epochNum]
                        packets == InEpoch(epoch)
                    IN  /\ entry.packetNum = Cardinality(packets)
                        /\ entry.pfcPausedPacketNum =
                             Cardinality(Paused(packets \ {Min(packets)}))
  BY DEF PortEntriesExact
<1> DEFINE E == EpochOf(now)
           epoch == E - epochsAgo
           e == epoch % epochNum
           entry == m_portTelemetryData[e]
           k == EpochOf(entry.lastTimeStep)
           packets == EpochIn(log, epoch)
<1>1. /\ now \in Nat /\ E \in Nat /\ epochsAgo \in {0, 1} /\ epoch \in Nat /\ epoch >= 2
      /\ Typed
  BY EpochIndex DEF Books, Typed, epochNum
<1>2. e \in Indices /\ e = epoch % 2
  <2> HIDE DEF epoch
  <2>1. epoch % 2 \in 0..1
    BY <1>1
  <2>2. QED
    BY <2>1 DEF Indices, epochNum
<1>3. entry \in PortEntries /\ PortBook(e)
  BY <1>1, <1>2 DEF Books, Typed
<1>4. InEpoch(epoch) = packets /\ \A s : Paused(s) = PausedIn(log, s)
  BY SameHistory
<1>5. PICK i \in 1..Len(log) : EpochOf(log[i].time) = epoch
  <2>1. DOMAIN log = 1..Len(log)
    BY <1>1 DEF Typed
  <2>2. QED
    BY <1>4, <2>1 DEF EpochIn
<1>6. /\ entry.lastTimeStep \in Nat /\ entry.lastTimeStep <= now
      /\ entry.lastTimeStep = 0 \/ k % 2 = e
      /\ epoch <= k
      /\ k >= 2 => CountsFrom(log, entry, EpochIn(log, k))
  BY <1>2, <1>3, <1>5 DEF PortBook, PortEntries, epochNum
<1>7. k \in Nat /\ k <= E
  BY <1>1, <1>6, EpochAges
<1>8. k = epoch
  <2>1. entry.lastTimeStep = 0 => k = 0
    BY TelemetryAssumption DEF EpochOf
  <2> HIDE DEF k, E, e, entry
  <2>2. CASE epochsAgo = 0
    BY <1>1, <1>2, <1>6, <1>7, <2>1, <2>2
  <2>3. CASE epochsAgo = 1
    BY <1>1, <1>2, <1>6, <1>7, <2>1, <2>3
  <2>4. QED
    BY <1>1, <2>2, <2>3
<1>9. CountsFrom(log, entry, packets)
  BY <1>1, <1>6, <1>8
<1>10. Min(packets) \in packets /\ \A j \in packets : Min(packets) <= j
  BY <1>9 DEF CountsFrom, First, Min
<1>11. QED
  BY <1>4, <1>9, <1>10 DEF CountsFrom

\* What is read about a flow belongs to the epoch it is printed under, and nothing of it
\* is missing but what another flow with its hash displaced.
THEOREM FlowsReadExactly == Spec => []FlowEntriesExact
  BY BooksKept, BooksFlowExact, PTL

\* The entry of the port counts the packets of its epoch, and of the paused ones all but
\* the first.
THEOREM PortsReadExactly == Spec => []PortEntriesExact
  BY BooksKept, BooksPortExact, PTL

-----------------------------------------------------------------------------
(***************************************************************************)
(* The meter.  Each slot holds at least the recent packets that came in    *)
(* it, for what is taken out of a slot came a turn of the slots ago.       *)
(***************************************************************************)

\* The packets of a port in a slot of the window that ends with the slot number at.
RecentIn(l, in, s, at) ==
  {i \in DOMAIN l : /\ InPort[l[i].flow] = in
                    /\ SlotOf(l[i].time) % portToPortSlot = s
                    /\ SlotOf(l[i].time) > at - portToPortSlot}

MeterTyped ==
  /\ m_slotIdx \in Slots
  /\ m_portToPortBytesSlot \in [InPorts -> [Slots -> Nat]]
  /\ m_portToPortBytes \in [InPorts -> Nat]

\* The window is the sum of its slots.
SlotsAddUp ==
  \A in \in InPorts :
    LET slots == m_portToPortBytesSlot[in]
    IN  m_portToPortBytes[in] = slots[0] + slots[1] + slots[2] + slots[3] + slots[4]

MeterBook ==
  /\ MeterTyped /\ SlotsAddUp
  /\ Len(log) # 0 => m_slotIdx = SlotOf(log[Len(log)].time) % portToPortSlot
  /\ \A in \in InPorts, s \in Slots :
       m_portToPortBytesSlot[in][s] >= Cardinality(RecentIn(log, in, s, SlotOf(now)))

LEMMA InitMeter == Init => MeterBook
<1> SUFFICES ASSUME Init PROVE MeterBook
  OBVIOUS
<1>1. log = <<>> /\ Len(log) = 0 /\ DOMAIN log = {} /\ m_slotIdx = 0
  BY DEF Init
<1>2. Slots = 0..4
  BY DEF Slots, portToPortSlot
<1>3. /\ m_portToPortBytes = [in \in InPorts |-> 0]
      /\ m_portToPortBytesSlot = [in \in InPorts |-> [s \in Slots |-> 0]]
  BY DEF Init
<1>4. MeterTyped /\ SlotsAddUp
  BY <1>1, <1>2, <1>3 DEF MeterTyped, SlotsAddUp
<1>5. \A in, s, at : RecentIn(log, in, s, at) = {}
  BY <1>1 DEF RecentIn
<1>6. Cardinality({}) = 0
  BY FS_EmptySet
<1>7. \A in \in InPorts, s \in Slots : m_portToPortBytesSlot[in][s] = 0
  BY <1>3
<1>8. \A in \in InPorts, s \in Slots :
        m_portToPortBytesSlot[in][s] >= Cardinality(RecentIn(log, in, s, SlotOf(now)))
  <2>1. \A in, s : Cardinality(RecentIn(log, in, s, SlotOf(now))) = 0
    BY <1>5, <1>6, Zenon
  <2>2. 0 >= 0
    OBVIOUS
  <2>3. QED
    BY <1>7, <2>1, <2>2, Zenon
<1>9. ~(Len(log) # 0)
  BY <1>1
<1>10. QED
  BY <1>4, <1>8, <1>9, Zenon DEF MeterBook

\* What UpdateMeter does to the slots of a port.
LEMMA SlotsUpdated ==
  ASSUME MeterTyped, now \in Nat, NEW p \in InPorts, UpdateMeter(p)
  PROVE  /\ Slot \in Slots /\ m_slotIdx' = Slot
         /\ m_portToPortBytesSlot' \in [InPorts -> [Slots -> Nat]]
         /\ \A in \in InPorts, s \in Slots :
              m_portToPortBytesSlot'[in][s] =
                IF s # Slot THEN m_portToPortBytesSlot[in][s]
                ELSE (IF Slot # m_slotIdx THEN 0 ELSE m_portToPortBytesSlot[in][s])
                     + (IF in = p THEN 1 ELSE 0)
         /\ \A in \in InPorts :
              m_portToPortBytes'[in] =
                m_portToPortBytes[in]
                - (IF Slot # m_slotIdx THEN m_portToPortBytesSlot[in][Slot] ELSE 0)
                + (IF in = p THEN 1 ELSE 0)
         /\ DOMAIN m_portToPortBytes' = InPorts
         /\ m_portToPortBytes' = [in \in InPorts |-> m_portToPortBytes'[in]]
<1> DEFINE b == m_portToPortBytesSlot
           moved == Slot # m_slotIdx
           leaving == [i \in InPorts |-> IF moved THEN b[i][Slot] ELSE 0]
           slots == [i \in InPorts |-> [b[i] EXCEPT ![Slot] = @ - leaving[i]]]
<1>1. Slot \in Slots
  <2>1. SlotOf(now) \in Nat
    BY SlotOrder
  <2>2. SlotOf(now) % 5 \in 0..4
    BY <2>1
  <2>3. QED
    BY <2>2 DEF Slot, Slots, portToPortSlot
<1>2. /\ m_slotIdx' = Slot
      /\ b' = [slots EXCEPT ![p][Slot] = @ + 1]
      /\ m_portToPortBytes' =
           [i \in InPorts |-> m_portToPortBytes[i] - leaving[i] + (IF i = p THEN 1 ELSE 0)]
  BY DEF UpdateMeter, Expired
<1>3. b \in [InPorts -> [Slots -> Nat]]
  BY DEF MeterTyped
<1>4. ASSUME NEW i \in InPorts
      PROVE  /\ slots[i] \in [Slots -> Nat]
             /\ \A s \in Slots : slots[i][s] = IF s = Slot THEN (IF moved THEN 0 ELSE b[i][s])
                                               ELSE b[i][s]
  <2>1. slots[i] = [b[i] EXCEPT ![Slot] = IF moved THEN 0 ELSE b[i][Slot]]
    <3>1. b[i][Slot] - leaving[i] = IF moved THEN 0 ELSE b[i][Slot]
      BY <1>1, <1>3, <1>4
    <3>2. slots[i] = [b[i] EXCEPT ![Slot] = b[i][Slot] - leaving[i]]
      BY <1>4
    <3>3. QED
      BY <3>1, <3>2
  <2> HIDE DEF slots, moved
  <2>2. b[i] \in [Slots -> Nat]
    BY <1>3, <1>4
  <2>3. QED
    BY <1>1, <2>1, <2>2
<1>5. slots \in [InPorts -> [Slots -> Nat]]
  BY <1>4
<1> HIDE DEF slots, moved
<1>6. b' \in [InPorts -> [Slots -> Nat]]
  BY <1>1, <1>2, <1>5
<1>7. ASSUME NEW i \in InPorts, NEW s \in Slots
      PROVE  b'[i][s] = slots[i][s] + (IF i = p /\ s = Slot THEN 1 ELSE 0)
  BY <1>1, <1>2, <1>5, <1>7
<1>8. \A i \in InPorts, s \in Slots :
        b'[i][s] = IF s # Slot THEN b[i][s]
                   ELSE (IF moved THEN 0 ELSE b[i][s]) + (IF i = p THEN 1 ELSE 0)
  <2>1. SUFFICES ASSUME NEW i \in InPorts, NEW s \in Slots
                 PROVE  b'[i][s] = IF s # Slot THEN b[i][s]
                          ELSE (IF moved THEN 0 ELSE b[i][s]) + (IF i = p THEN 1 ELSE 0)
    OBVIOUS
  <2>2. b[i][s] \in Nat
    BY <1>3
  <2>3. QED
    BY <1>4, <1>7, <2>2
<1>9. QED
  BY <1>1, <1>2, <1>6, <1>8 DEF moved

LEMMA SendMeter ==
  ASSUME Typed, InOrder, MeterBook, NEW f \in Flows, NEW depth \in Depths, SendToDev(f, depth)
  PROVE  MeterBook'
<1> DEFINE n == Len(log) + 1
           at == SlotOf(now)
           p == InPort[f]
           b == m_portToPortBytesSlot
<1>1. /\ Len(log) \in Nat /\ Len(log') = n /\ now' = now
      /\ DOMAIN log = 1..Len(log) /\ DOMAIN log' = 1..n
      /\ \A i \in 1..Len(log) : log'[i] = log[i]
      /\ log'[n].time = now /\ log'[n].flow = f
  BY Logged
<1>2. /\ now \in Nat /\ log \in Seq(Packets) /\ MeterTyped
      /\ p \in InPorts /\ UpdateMeter(p)
  BY TelemetryAssumption DEF Typed, MeterBook, SendToDev
<1>3. /\ Slot \in Slots /\ m_slotIdx' = Slot
      /\ b' \in [InPorts -> [Slots -> Nat]]
      /\ \A in \in InPorts, s \in Slots :
           b'[in][s] = IF s # Slot THEN b[in][s]
                       ELSE (IF Slot # m_slotIdx THEN 0 ELSE b[in][s]) + (IF in = p THEN 1 ELSE 0)
      /\ \A in \in InPorts :
           m_portToPortBytes'[in] =
             m_portToPortBytes[in] - (IF Slot # m_slotIdx THEN b[in][Slot] ELSE 0)
             + (IF in = p THEN 1 ELSE 0)
      /\ m_portToPortBytes' = [in \in InPorts |-> m_portToPortBytes'[in]]
  BY <1>2, SlotsUpdated
<1>4. Slots = 0..4 /\ Slot = at % 5
  BY DEF Slots, Slot, portToPortSlot
<1>5. SlotsAddUp' /\ MeterTyped'
  <2>1. ASSUME NEW in \in InPorts
        PROVE  /\ m_portToPortBytes'[in] =
                    b'[in][0] + b'[in][1] + b'[in][2] + b'[in][3] + b'[in][4]
               /\ m_portToPortBytes'[in] \in Nat
    <3>1. m_portToPortBytes[in] = b[in][0] + b[in][1] + b[in][2] + b[in][3] + b[in][4]
      BY <2>1 DEF MeterBook, SlotsAddUp
    <3>2. \A s \in 0..4 : b[in][s] \in Nat /\ b'[in][s] \in Nat
      <4>1. b \in [InPorts -> [Slots -> Nat]]
        BY <1>2 DEF MeterTyped
      <4>2. b' \in [InPorts -> [Slots -> Nat]]
        BY <1>3
      <4> HIDE DEF b
      <4>3. b[in] \in [Slots -> Nat] /\ b'[in] \in [Slots -> Nat]
        BY <4>1, <4>2
      <4>4. QED
        BY <1>4, <4>3
    <3>3. \A s \in 0..4 : b'[in][s] = IF s # Slot THEN b[in][s]
                       ELSE (IF Slot # m_slotIdx THEN 0 ELSE b[in][s]) + (IF in = p THEN 1 ELSE 0)
      BY <1>3, <1>4, <2>1
    <3>4. Slot \in {0, 1, 2, 3, 4}
      BY <1>3, <1>4
    <3>5. m_portToPortBytes'[in] = b'[in][0] + b'[in][1] + b'[in][2] + b'[in][3] + b'[in][4]
      <4> DEFINE gain == IF in = p THEN 1 ELSE 0
                 loss == IF Slot # m_slotIdx THEN b[in][Slot] ELSE 0
      <4>1. m_portToPortBytes'[in] = m_portToPortBytes[in] - loss + gain
        BY <1>3, <2>1
      <4>2. /\ 0 \in 0..4 /\ 1 \in 0..4 /\ 2 \in 0..4 /\ 3 \in 0..4 /\ 4 \in 0..4
            /\ gain \in Nat /\ loss \in Nat
        BY <3>2, <3>4
      <4>3. \A s \in 0..4 : b'[in][s] = IF s # Slot THEN b[in][s] ELSE b[in][s] - loss + gain
        BY <3>2, <3>3
      <4> HIDE DEF gain, loss
      <4>4. /\ b'[in][0] = IF 0 # Slot THEN b[in][0] ELSE b[in][0] - loss + gain
            /\ b'[in][1] = IF 1 # Slot THEN b[in][1] ELSE b[in][1] - loss + gain
            /\ b'[in][2] = IF 2 # Slot THEN b[in][2] ELSE b[in][2] - loss + gain
            /\ b'[in][3] = IF 3 # Slot THEN b[in][3] ELSE b[in][3] - loss + gain
            /\ b'[in][4] = IF 4 # Slot THEN b[in][4] ELSE b[in][4] - loss + gain
        BY <4>2, <4>3
      <4>5. b[in][0] \in Nat /\ b[in][1] \in Nat /\ b[in][2] \in Nat /\ b[in][3] \in Nat
            /\ b[in][4] \in Nat
        BY <3>2, <4>2
      <4>6. QED
        BY <3>1, <3>4, <4>1, <4>2, <4>4, <4>5
    <3>6. QED
      BY <3>2, <3>5
  <2>2. m_portToPortBytes' \in [InPorts -> Nat]
    BY <1>3, <2>1
  <2>3. QED
    BY <1>3, <2>1, <2>2 DEF SlotsAddUp, MeterTyped
<1>6. \A i \in 1..Len(log) : log[i].time \in Nat /\ log[i].time <= now
  <2>1. \A i \in 1..Len(log) : log[i] \in Packets
    BY <1>2
  <2>2. QED
    BY <2>1 DEF Packets, InOrder
<1>7. ASSUME NEW in \in InPorts, NEW s \in Slots
      PROVE  b'[in][s] >= Cardinality(RecentIn(log', in, s, at))
  <2> DEFINE recent == RecentIn(log, in, s, at)
  <2>1. recent \subseteq 1..Len(log) /\ n \notin recent
        /\ IsFiniteSet(recent) /\ Cardinality(recent) \in Nat
    BY <1>1, LogFinite, FS_CardinalityType DEF RecentIn
  <2>2. b[in][s] >= Cardinality(recent) /\ b[in][s] \in Nat
    BY <1>2 DEF MeterBook, MeterTyped
  <2>3. RecentIn(log', in, s, at) = IF s = Slot /\ in = p THEN recent \cup {n} ELSE recent
    <3>1. \A i : i \in 1..n <=> i \in 1..Len(log) \/ i = n
      BY <1>1
    <3>2. at > at - portToPortSlot
      BY <1>2, SlotOrder DEF portToPortSlot
    <3>3. InPort[log'[n].flow] = in /\ SlotOf(log'[n].time) % portToPortSlot = s
            /\ SlotOf(log'[n].time) > at - portToPortSlot <=> s = Slot /\ in = p
      BY <1>1, <3>2 DEF Slot
    <3> HIDE DEF n, p
    <3>4. QED
      BY <1>1, <3>1, <3>3 DEF RecentIn
  <2>4. Cardinality(recent \cup {n}) = Cardinality(recent) + 1
    BY <2>1, FS_AddElement
  <2>5. CASE s # Slot
    BY <1>3, <2>2, <2>3, <2>5
  <2>6. CASE s = Slot /\ Slot = m_slotIdx
    <3>1. b'[in][s] = b[in][s] + (IF in = p THEN 1 ELSE 0)
      BY <1>3, <2>6
    <3>2. QED
      BY <2>1, <2>2, <2>3, <2>4, <2>6, <3>1
  <2>7. CASE s = Slot /\ Slot # m_slotIdx
    <3>1. recent = {}
      <4>1. SUFFICES ASSUME NEW i \in recent PROVE FALSE
        OBVIOUS
      <4>2. /\ i \in 1..Len(log) /\ Len(log) \in 1..Len(log)
            /\ log[i].time \in Nat /\ log[Len(log)].time \in Nat
            /\ log[i].time <= log[Len(log)].time /\ log[Len(log)].time <= now
        BY <1>1, <1>6, <2>1 DEF InOrder
      <4> DEFINE x == SlotOf(log[i].time)
                 y == SlotOf(log[Len(log)].time)
      <4>3. x \in Nat /\ y \in Nat /\ at \in Nat /\ x <= y /\ y <= at
        BY <1>2, <4>2, SlotOrder
      <4>4. x % 5 = at % 5 /\ x > at - 5
        BY <1>4, <2>7 DEF RecentIn, portToPortSlot
      <4>5. m_slotIdx = y % 5
        BY <4>2 DEF MeterBook, portToPortSlot
      <4> HIDE DEF x, y, at
      <4>6. x = at
        BY <4>3, <4>4
      <4>7. y = at
        BY <4>3, <4>6
      <4>8. QED
        BY <1>4, <2>7, <4>5, <4>7
    <3>2. Cardinality(recent) = 0
      BY <3>1, FS_EmptySet
    <3>3. b'[in][s] = IF in = p THEN 1 ELSE 0
      BY <1>3, <2>7
    <3>4. QED
      BY <2>3, <2>4, <2>7, <3>2, <3>3
  <2>8. QED
    BY <2>5, <2>6, <2>7
<1>8. m_slotIdx' = SlotOf(log'[Len(log')].time) % portToPortSlot
  BY <1>1, <1>3 DEF Slot
<1>9. QED
  BY <1>1, <1>5, <1>7, <1>8 DEF MeterBook

LEMMA QuietMeter ==
  ASSUME Typed, MeterBook, now' \in Nat, now <= now', UNCHANGED <<meter, log>>
  PROVE  MeterBook'
<1>1. /\ m_slotIdx' = m_slotIdx /\ m_portToPortBytes' = m_portToPortBytes
      /\ m_portToPortBytesSlot' = m_portToPortBytesSlot /\ log' = log
      /\ now \in Nat /\ DOMAIN log = 1..Len(log)
  BY DEF meter, Typed
<1>2. MeterTyped' /\ SlotsAddUp'
  BY <1>1 DEF MeterBook, MeterTyped, SlotsAddUp
<1>3. Len(log') # 0 => m_slotIdx' = SlotOf(log'[Len(log')].time) % portToPortSlot
  BY <1>1 DEF MeterBook
<1>4. ASSUME NEW in \in InPorts, NEW s \in Slots
      PROVE  m_portToPortBytesSlot[in][s] >= Cardinality(RecentIn(log, in, s, SlotOf(now')))
  <2> DEFINE old == RecentIn(log, in, s, SlotOf(now))
             new == RecentIn(log, in, s, SlotOf(now'))
  <2>1. new \subseteq old
    <3>1. SlotOf(now) \in Nat /\ SlotOf(now') \in Nat /\ SlotOf(now) <= SlotOf(now')
      BY <1>1, SlotOrder
    <3>2. ASSUME NEW i \in new PROVE i \in old
      <4>1. log[i].time \in Nat
        <5>1. i \in 1..Len(log) /\ log \in Seq(Packets)
          BY <1>1 DEF RecentIn, Typed
        <5>2. log[i] \in Packets
          BY <5>1
        <5>3. QED
          BY <5>2 DEF Packets
      <4>2. SlotOf(log[i].time) \in Nat
        BY <4>1, SlotOrder
      <4>3. QED
        BY <3>1, <4>2 DEF RecentIn, portToPortSlot
    <3>3. QED
      BY <3>2
  <2>2. old \subseteq 1..Len(log) /\ new \subseteq 1..Len(log)
    BY <1>1 DEF RecentIn
  <2>3. IsFiniteSet(old) /\ IsFiniteSet(new)
    BY <2>2, LogFinite
  <2>4. m_portToPortBytesSlot[in][s] >= Cardinality(old) /\ m_portToPortBytesSlot[in][s] \in Nat
    BY DEF MeterBook, MeterTyped
  <2> HIDE DEF old, new
  <2>5. Cardinality(new) <= Cardinality(old) /\ Cardinality(new) \in Nat /\ Cardinality(old) \in Nat
    BY <2>1, <2>3, FS_Subset, FS_CardinalityType
  <2>6. m_portToPortBytesSlot[in][s] >= Cardinality(new)
    BY <2>4, <2>5
  <2>7. QED
    BY <2>6 DEF new
<1>5. \A in \in InPorts, s \in Slots :
        m_portToPortBytesSlot'[in][s] >= Cardinality(RecentIn(log', in, s, SlotOf(now')))
  BY <1>1, <1>4
<1>6. QED
  BY <1>2, <1>3, <1>5 DEF MeterBook

LEMMA NextMeter == Books /\ MeterBook /\ [Next]_vars => MeterBook'
<1> SUFFICES ASSUME Books, MeterBook, [Next]_vars PROVE MeterBook'
  OBVIOUS
<1>0. Typed /\ InOrder /\ now \in Nat
  BY DEF Books, Typed
<1>1. CASE \E f \in Flows, depth \in Depths : SendToDev(f, depth)
  BY <1>0, <1>1, SendMeter
<1>2. CASE ReceivePfc
  BY <1>0, <1>2, QuietMeter DEF ReceivePfc
<1>3. CASE Tick
  BY <1>0, <1>3, QuietMeter DEF Tick
<1>4. CASE UNCHANGED vars
  BY <1>0, <1>4, QuietMeter DEF vars, meter
<1>5. QED
  BY <1>1, <1>2, <1>3, <1>4 DEF Next

\* The size of a union is at most the sum of the sizes.
LEMMA UnionSize ==
  ASSUME NEW S, NEW T, IsFiniteSet(S), IsFiniteSet(T)
  PROVE  /\ IsFiniteSet(S \cup T) /\ Cardinality(S \cup T) \in Nat
         /\ Cardinality(S) \in Nat /\ Cardinality(T) \in Nat
         /\ Cardinality(S \cup T) <= Cardinality(S) + Cardinality(T)
<1>1. IsFiniteSet(S \cap T)
  BY FS_Subset
<1>2. /\ IsFiniteSet(S \cup T)
      /\ Cardinality(S \cup T) = Cardinality(S) + Cardinality(T) - Cardinality(S \cap T)
  BY FS_Union
<1>3. Cardinality(S) \in Nat /\ Cardinality(T) \in Nat /\ Cardinality(S \cap T) \in Nat
  BY <1>1, FS_CardinalityType
<1>4. Cardinality(S \cup T) \in Nat
  BY <1>2, FS_CardinalityType
<1>5. QED
  BY <1>2, <1>3, <1>4

LEMMA BookCovers == Typed /\ MeterBook => MeterCovers
<1> SUFFICES ASSUME Typed, MeterBook, NEW in \in InPorts
             PROVE  m_portToPortBytes[in] >=
                      Cardinality({i \in DOMAIN log :
                        /\ InPort[log[i].flow] = in
                        /\ SlotOf(log[i].time) > SlotOf(now) - portToPortSlot})
  BY DEF MeterCovers
<1> DEFINE R(s) == RecentIn(log, in, s, SlotOf(now))
           window == {i \in DOMAIN log : /\ InPort[log[i].flow] = in
                                         /\ SlotOf(log[i].time) > SlotOf(now) - portToPortSlot}
           b == m_portToPortBytesSlot[in]
<1>1. DOMAIN log = 1..Len(log)
  BY DEF Typed
<1>2. window \subseteq R(0) \cup R(1) \cup R(2) \cup R(3) \cup R(4)
  <2>1. ASSUME NEW i \in window PROVE i \in R(0) \cup R(1) \cup R(2) \cup R(3) \cup R(4)
    <3>1. log[i].time \in Nat
      <4>1. i \in 1..Len(log) /\ log \in Seq(Packets)
        BY <1>1 DEF Typed
      <4>2. log[i] \in Packets
        BY <4>1
      <4>3. QED
        BY <4>2 DEF Packets
    <3>2. SlotOf(log[i].time) \in Nat
      BY <3>1, SlotOrder
    <3>3. SlotOf(log[i].time) % portToPortSlot \in {0, 1, 2, 3, 4}
      BY <3>2 DEF portToPortSlot
    <3>4. QED
      BY <3>3 DEF RecentIn
  <2>2. QED
    BY <2>1
<1>3. \A s : IsFiniteSet(R(s))
  <2>1. \A s : R(s) \subseteq 1..Len(log)
    BY <1>1 DEF RecentIn
  <2>2. QED
    BY <2>1, LogFinite
<1>4. /\ b[0] >= Cardinality(R(0)) /\ b[1] >= Cardinality(R(1)) /\ b[2] >= Cardinality(R(2))
      /\ b[3] >= Cardinality(R(3)) /\ b[4] >= Cardinality(R(4))
      /\ b[0] \in Nat /\ b[1] \in Nat /\ b[2] \in Nat /\ b[3] \in Nat /\ b[4] \in Nat
  <2>1. 0 \in Slots /\ 1 \in Slots /\ 2 \in Slots /\ 3 \in Slots /\ 4 \in Slots
    BY DEF Slots, portToPortSlot
  <2>2. QED
    BY <2>1 DEF MeterBook, MeterTyped
<1>5. m_portToPortBytes[in] = b[0] + b[1] + b[2] + b[3] + b[4]
  BY DEF MeterBook, SlotsAddUp
<1> DEFINE U1 == R(0) \cup R(1)
           U2 == U1 \cup R(2)
           U3 == U2 \cup R(3)
           U4 == U3 \cup R(4)
<1>6. window \subseteq U4
  BY <1>2
<1> HIDE DEF R, window, b
<1>7. /\ IsFiniteSet(U1) /\ Cardinality(U1) \in Nat
      /\ Cardinality(R(0)) \in Nat /\ Cardinality(R(1)) \in Nat
      /\ Cardinality(U1) <= Cardinality(R(0)) + Cardinality(R(1))
  BY <1>3, UnionSize
<1> HIDE DEF U1
<1>8. /\ IsFiniteSet(U2) /\ Cardinality(U2) \in Nat /\ Cardinality(R(2)) \in Nat
      /\ Cardinality(U2) <= Cardinality(U1) + Cardinality(R(2))
  BY <1>3, <1>7, UnionSize
<1> HIDE DEF U2
<1>9. /\ IsFiniteSet(U3) /\ Cardinality(U3) \in Nat /\ Cardinality(R(3)) \in Nat
      /\ Cardinality(U3) <= Cardinality(U2) + Cardinality(R(3))
  BY <1>3, <1>8, UnionSize
<1> HIDE DEF U3
<1>10. /\ IsFiniteSet(U4) /\ Cardinality(U4) \in Nat /\ Cardinality(R(4)) \in Nat
       /\ Cardinality(U4) <= Cardinality(U3) + Cardinality(R(4))
  BY <1>3, <1>9, UnionSize
<1> HIDE DEF U4
<1>11. Cardinality(window) <= Cardinality(U4) /\ Cardinality(window) \in Nat
  BY <1>6, <1>10, FS_Subset, FS_CardinalityType
<1>12. m_portToPortBytes[in] >= Cardinality(window)
  BY <1>4, <1>5, <1>7, <1>8, <1>9, <1>10, <1>11
<1>13. QED
  BY <1>12 DEF window

\* The meter by which signals find their way never misses traffic of the window.
THEOREM MeterMissesNothing == Spec => []MeterCovers
<1>1. Books => Typed
  BY DEF Books
<1>2. QED
  BY <1>1, BooksKept, InitMeter, NextMeter, BookCovers, PTL DEF Spec

-----------------------------------------------------------------------------
(***************************************************************************)
(* The layout of the packets for the provenance graph (TelemetryGraph).    *)
(***************************************************************************)

\* Packets of f among the first i of a layout.
Among(layout, i, f) == Cardinality({at \in 1..i : layout[at] = f})

\* The two flows are in proportion after every packet, but for one packet of f.
InProportion(layout, i, f, g) ==
  (Among(layout, i, f) - 1) * pktnum(g) <= Among(layout, i, g) * pktnum(f)

\* What the layout has always kept: the counters count it, and each of its beginnings
\* has the flows in proportion.
LayoutBook ==
  /\ GraphTypeOK
  /\ \A f \in Flow : ptrs[f] = Among(pkt_list, Len(pkt_list), f)
  /\ \A i \in 0..Len(pkt_list), f, g \in Flow : InProportion(pkt_list, i, f, g)

LEMMA PacketsCounted ==
  ASSUME GraphTypeOK
  PROVE  /\ \A f \in Flow : pktnum(f) \in Nat /\ pktnum(f) >= 1
         /\ DOMAIN ptrs = Flow /\ \A f \in Flow : ptrs[f] \in Nat
         /\ Len(pkt_list) \in Nat
         /\ \A at \in 1..Len(pkt_list) : pkt_list[at] \in Flow
<1>1. PICK n \in 1..N : entries \in [1..n -> Entries] /\ ptrs \in [1..n -> Nat]
  BY DEF GraphTypeOK
<1>2. Flow = 1..n
  BY <1>1 DEF Flow
<1>3. \A f \in Flow : pktnum(f) \in Nat /\ pktnum(f) >= 1
  <2> TAKE f \in Flow
  <2>1. entries[f] \in Entries
    BY <1>1, <1>2
  <2>2. entries[f].packetNum \in 1..19
    BY <2>1, GraphAssumption
  <2>3. QED
    BY <2>2 DEF pktnum
<1>4. /\ Len(pkt_list) \in Nat
      /\ \A at \in 1..Len(pkt_list) : pkt_list[at] \in Flow
  BY DEF GraphTypeOK
<1>5. QED
  BY <1>1, <1>2, <1>3, <1>4

\* A longer beginning has no fewer packets of a flow.
LEMMA AmongGrows ==
  ASSUME NEW layout, NEW f, NEW i \in Nat, NEW j \in Nat, i <= j
  PROVE  /\ Among(layout, i, f) \in Nat /\ Among(layout, j, f) \in Nat
         /\ Among(layout, i, f) <= Among(layout, j, f)
         /\ Cardinality({at \in (i + 1)..j : layout[at] = f})
              = Among(layout, j, f) - Among(layout, i, f)
<1> DEFINE A == {at \in 1..i : layout[at] = f}
           B == {at \in 1..j : layout[at] = f}
           C == {at \in (i + 1)..j : layout[at] = f}
<1>1. IsFiniteSet(1..j)
  BY FS_Interval
<1>2. IsFiniteSet(A) /\ IsFiniteSet(B) /\ IsFiniteSet(C)
  <2>1. A \in SUBSET (1..j) /\ B \in SUBSET (1..j) /\ C \in SUBSET (1..j)
    OBVIOUS
  <2> HIDE DEF A, B, C
  <2>2. QED
    BY <1>1, <2>1, FS_Subset
<1>3. B = A \cup C /\ A \cap C = {}
  OBVIOUS
<1> HIDE DEF A, B, C
<1>4. Cardinality(B) = Cardinality(A) + Cardinality(C) - Cardinality(A \cap C)
  BY <1>2, <1>3, FS_Union
<1>5. Cardinality(A \cap C) = 0
  BY <1>3, FS_EmptySet
<1>6. Cardinality(A) \in Nat /\ Cardinality(B) \in Nat /\ Cardinality(C) \in Nat
  BY <1>2, FS_CardinalityType
<1>7. Cardinality(A) <= Cardinality(B) /\ Cardinality(C) = Cardinality(B) - Cardinality(A)
  BY <1>4, <1>5, <1>6
<1>8. QED
  BY <1>6, <1>7 DEF A, B, C, Among

\* What a packet laid out changes.
LEMMA AmongPrefix ==
  ASSUME NEW S, NEW layout \in Seq(S), NEW f \in S, NEW g, NEW i \in 0..Len(layout)
  PROVE  Among(Append(layout, f), i, g) = Among(layout, i, g)
<1>1. \A at \in 1..i : Append(layout, f)[at] = layout[at]
  OBVIOUS
<1>2. {at \in 1..i : Append(layout, f)[at] = g} = {at \in 1..i : layout[at] = g}
  BY <1>1
<1>3. QED
  BY <1>2, Zenon DEF Among

LEMMA AmongLast ==
  ASSUME NEW S, NEW layout \in Seq(S), NEW f \in S, NEW g
  PROVE  Among(Append(layout, f), Len(layout) + 1, g)
           = Among(layout, Len(layout), g) + (IF g = f THEN 1 ELSE 0)
<1> DEFINE longer == Append(layout, f)
           n == Len(layout)
<1>1. /\ n \in Nat /\ longer[n + 1] = f
      /\ \A at \in 1..n : longer[at] = layout[at]
  OBVIOUS
<1>2. Among(longer, n, g) = Among(layout, n, g)
  BY <1>1, AmongPrefix
<1> HIDE DEF longer, n
<1>3. Among(longer, n + 1, g) = Among(layout, n, g) + (IF g = f THEN 1 ELSE 0)
  <2> DEFINE A == {at \in 1..n : longer[at] = g}
  <2>1. IsFiniteSet(A)
    <3>1. A \in SUBSET (1..n)
      OBVIOUS
    <3>2. IsFiniteSet(1..n)
      BY <1>1, FS_Interval
    <3> HIDE DEF A
    <3>3. QED
      BY <3>1, <3>2, FS_Subset
  <2>2. {at \in 1..(n + 1) : longer[at] = g} = IF g = f THEN A \cup {n + 1} ELSE A
    BY <1>1
  <2>3. n + 1 \notin A
    BY <1>1
  <2>4. Cardinality(A) = Among(layout, n, g)
    BY <1>2 DEF Among
  <2> HIDE DEF A
  <2>5. Cardinality(A \cup {n + 1}) = Cardinality(A) + 1
    BY <2>1, <2>3, FS_AddElement
  <2>6. Cardinality(A) \in Nat
    BY <2>1, FS_CardinalityType
  <2>7. Among(longer, n + 1, g) = Cardinality(IF g = f THEN A \cup {n + 1} ELSE A)
    BY <2>2 DEF Among
  <2>8. QED
    BY <2>4, <2>5, <2>6, <2>7
<1>4. QED
  BY <1>3 DEF longer, n

LEMMA AmongNone ==
  ASSUME NEW layout, NEW f
  PROVE  Among(layout, 0, f) = 0
<1>1. {at \in 1..0 : layout[at] = f} = {}
  OBVIOUS
<1>2. QED
  BY <1>1, FS_EmptySet DEF Among

LEMMA LayoutBegins == GraphInit => LayoutBook
<1> SUFFICES ASSUME GraphInit PROVE LayoutBook
  OBVIOUS
<1>1. GraphTypeOK
  BY DEF GraphInit, GraphTypeOK, Flow
<1>2. /\ \A f \in Flow : ptrs[f] = 0
      /\ pkt_list = <<>> /\ Len(pkt_list) = 0
  BY DEF GraphInit, Flow
<1>3. \A f : Among(pkt_list, 0, f) = 0
  BY AmongNone
<1>4. ASSUME NEW f \in Flow, NEW g \in Flow
      PROVE  InProportion(pkt_list, 0, f, g)
  <2>1. pktnum(f) \in Nat /\ pktnum(g) \in Nat
    BY <1>1, PacketsCounted
  <2>2. QED
    BY <1>3, <2>1 DEF InProportion
<1>5. QED
  BY <1>1, <1>2, <1>3, <1>4 DEF LayoutBook

LEMMA LayTyped ==
  ASSUME GraphTypeOK, NEW f \in Flow, Lay(f)
  PROVE  GraphTypeOK' /\ Flow' = Flow
<1>1. PICK n \in 1..N : /\ entries \in [1..n -> Entries]
                       /\ flows \in [1..n -> Names] /\ ptrs \in [1..n -> Nat]
  BY DEF GraphTypeOK
<1>2. ptrs' \in [1..n -> Nat]
  BY <1>1 DEF Lay, Flow
<1>3. Flow' = Flow /\ pkt_list' \in Seq(Flow)
  BY DEF Lay, GraphTypeOK, Flow
<1>4. QED
  BY <1>1, <1>2, <1>3 DEF Lay, GraphTypeOK

LEMMA LayKeepsBook ==
  ASSUME LayoutBook, NEW f \in Flow, Lay(f)
  PROVE  LayoutBook'
<1>1. GraphTypeOK' /\ Flow' = Flow
  BY LayTyped DEF LayoutBook
<1>2. \A g : pktnum(g)' = pktnum(g)
  BY DEF Lay, pktnum
<1>3. /\ GraphTypeOK
      /\ \A g \in Flow : pktnum(g) \in Nat /\ pktnum(g) >= 1 /\ ptrs[g] \in Nat
      /\ DOMAIN ptrs = Flow
  BY PacketsCounted DEF LayoutBook
<1> DEFINE n == Len(pkt_list)
<1>4. /\ n \in Nat /\ Len(pkt_list') = n + 1
      /\ \A g : \A i \in 0..n : Among(pkt_list', i, g) = Among(pkt_list, i, g)
      /\ \A g : Among(pkt_list', n + 1, g)
                  = Among(pkt_list, n, g) + (IF g = f THEN 1 ELSE 0)
  <2>1. pkt_list \in Seq(Flow) /\ pkt_list' = Append(pkt_list, f)
    BY <1>3 DEF GraphTypeOK, Lay
  <2>2. ASSUME NEW g
        PROVE  /\ Len(pkt_list') = n + 1
               /\ \A i \in 0..n : Among(pkt_list', i, g) = Among(pkt_list, i, g)
               /\ Among(pkt_list', n + 1, g)
                    = Among(pkt_list, n, g) + (IF g = f THEN 1 ELSE 0)
    <3> HIDE DEF Flow
    <3>1. /\ Len(Append(pkt_list, f)) = Len(pkt_list) + 1
          /\ \A i \in 0..Len(pkt_list) :
               Among(Append(pkt_list, f), i, g) = Among(pkt_list, i, g)
          /\ Among(Append(pkt_list, f), Len(pkt_list) + 1, g)
               = Among(pkt_list, Len(pkt_list), g) + (IF g = f THEN 1 ELSE 0)
      <4>1. Len(Append(pkt_list, f)) = Len(pkt_list) + 1
        BY <2>1
      <4>2. \A i \in 0..Len(pkt_list) : Among(Append(pkt_list, f), i, g) = Among(pkt_list, i, g)
        BY <2>1, AmongPrefix
      <4>3. Among(Append(pkt_list, f), Len(pkt_list) + 1, g)
               = Among(pkt_list, Len(pkt_list), g) + (IF g = f THEN 1 ELSE 0)
        BY <2>1, AmongLast
      <4>4. QED
        BY <4>1, <4>2, <4>3
    <3>2. QED
      BY <2>1, <3>1
  <2>3. n \in Nat
    BY <2>1
  <2> HIDE DEF n
  <2>4. Len(pkt_list') = n + 1
    BY <2>2
  <2>5. QED
    BY <2>2, <2>3, <2>4
<1>5. \A g \in Flow : ptrs'[g] = ptrs[g] + (IF g = f THEN 1 ELSE 0)
  BY <1>3 DEF Lay
<1>6. \A g \in Flow : ptrs[g] = Among(pkt_list, n, g)
  BY DEF LayoutBook
<1> HIDE DEF n
<1>7. \A g \in Flow : ptrs'[g] = Among(pkt_list', n + 1, g)
  BY <1>4, <1>5, <1>6
<1>8. ASSUME NEW i \in 0..(n + 1), NEW a \in Flow, NEW b \in Flow
      PROVE  InProportion(pkt_list, i, a, b)'
  <2>1. CASE i \in 0..n
    <3>1. InProportion(pkt_list, i, a, b)
      BY <2>1 DEF LayoutBook, n
    <3>2. QED
      BY <1>2, <1>4, <2>1, <3>1 DEF InProportion
  <2>2. CASE i = n + 1
    <3>1. /\ ptrs[a] \in Nat /\ ptrs[b] \in Nat /\ pktnum(a) \in Nat /\ pktnum(b) \in Nat
          /\ Among(pkt_list', i, a) = ptrs[a] + (IF a = f THEN 1 ELSE 0)
          /\ Among(pkt_list', i, b) = ptrs[b] + (IF b = f THEN 1 ELSE 0)
      BY <1>3, <1>5, <1>7, <2>2
    <3> DEFINE more == ptrs[b] + (IF b = f THEN 1 ELSE 0)
    <3>2. more \in Nat /\ ptrs[b] <= more
      BY <3>1
    <3>3. ptrs[b] * pktnum(a) <= more * pktnum(a)
      <4>1. \A x, y, z \in Nat : x <= y => x * z <= y * z
        OBVIOUS
      <4> HIDE DEF more
      <4>2. QED
        BY <3>1, <3>2, <4>1
    <3>4. CASE a = f
      <4>1. ~(ptrs[b] * pktnum(f) < ptrs[f] * pktnum(b))
        BY DEF Lay, IsNext, Behind
      <4>2. ptrs[f] * pktnum(b) \in Nat /\ ptrs[b] * pktnum(f) \in Nat
            /\ more * pktnum(a) \in Nat
        BY <3>1, <3>2, <3>4
      <4>3. (ptrs[a] + 1 - 1) * pktnum(b) <= more * pktnum(a)
        <5>1. ptrs[a] + 1 - 1 = ptrs[a]
          BY <3>1
        <5> HIDE DEF more
        <5>2. QED
          BY <3>3, <3>4, <4>1, <4>2, <5>1
      <4>4. QED
        BY <1>2, <3>1, <3>4, <4>3 DEF InProportion
    <3>5. CASE a # f
      <4>1. (ptrs[a] - 1) * pktnum(b) <= ptrs[b] * pktnum(a)
        <5>1. InProportion(pkt_list, n, a, b)
          BY <1>4 DEF LayoutBook, n
        <5>2. QED
          BY <1>6, <5>1 DEF InProportion
      <4>2. (ptrs[a] - 1) * pktnum(b) \in Int /\ ptrs[b] * pktnum(a) \in Int
            /\ more * pktnum(a) \in Int
        BY <3>1, <3>2
      <4>3. (ptrs[a] - 1) * pktnum(b) <= more * pktnum(a)
        <5> HIDE DEF more
        <5>1. QED
          BY <3>3, <4>1, <4>2
      <4>4. Among(pkt_list', i, a) = ptrs[a]
        BY <3>1, <3>5
      <4>5. QED
        BY <1>2, <3>1, <4>3, <4>4 DEF InProportion
    <3>6. QED
      BY <3>4, <3>5
  <2>3. QED
    BY <1>4, <2>1, <2>2
<1>9. QED
  BY <1>1, <1>4, <1>7, <1>8 DEF LayoutBook

\* The book of the layout, for any entries a switch may print: every beginning of the
\* layout has the flows in proportion, because the packet laid out next (line 24) is
\* always one of a flow that is least advanced.
THEOREM LayoutKept == GraphSpec => []LayoutBook
<1>1. LayoutBook /\ [GraphNext]_graphVars => LayoutBook'
  <2> SUFFICES ASSUME LayoutBook, [GraphNext]_graphVars PROVE LayoutBook'
    OBVIOUS
  <2>1. CASE GraphNext
    BY <2>1, LayKeepsBook DEF GraphNext
  <2>2. CASE UNCHANGED graphVars
    BY <2>2 DEF graphVars, LayoutBook, GraphTypeOK, InProportion, pktnum, Flow
  <2>3. QED
    BY <2>1, <2>2
<1>2. QED
  BY <1>1, LayoutBegins, PTL DEF GraphSpec

\* A stretch is what a beginning has more than a shorter one.
LEMMA StretchInProportion == LayoutBook => QueuesInProportion
<1> SUFFICES ASSUME LayoutBook, NEW i \in 0..Len(pkt_list), NEW f \in Flow, NEW g \in Flow
             PROVE  (After(i, f) - 1) * pktnum(g) <= (After(i, g) + 1) * pktnum(f)
  BY DEF QueuesInProportion
<1> DEFINE n == Len(pkt_list)
           fi == Among(pkt_list, i, f)
           fn == Among(pkt_list, n, f)
           gi == Among(pkt_list, i, g)
           gn == Among(pkt_list, n, g)
           pf == pktnum(f)
           pg == pktnum(g)
<1>1. n \in Nat /\ i \in Nat /\ i <= n /\ pf \in Nat /\ pg \in Nat
  BY PacketsCounted DEF LayoutBook
<1>2. /\ After(i, f) = fn - fi /\ After(i, g) = gn - gi
      /\ fi \in Nat /\ fn \in Nat /\ gi \in Nat /\ gn \in Nat
  BY <1>1, AmongGrows DEF After
<1>3. /\ (fn - 1) * pg <= gn * pf
      /\ (gi - 1) * pf <= fi * pg
  BY <1>1 DEF LayoutBook, InProportion
<1> HIDE DEF n, fi, fn, gi, gn, pf, pg
<1>4. /\ (fn - fi - 1) * pg = (fn - 1) * pg - fi * pg
      /\ (gn - gi + 1) * pf = gn * pf - (gi - 1) * pf
      /\ (fn - 1) * pg \in Int /\ fi * pg \in Int /\ gn * pf \in Int /\ (gi - 1) * pf \in Int
  BY <1>1, <1>2
<1>5. (fn - fi - 1) * pg <= (gn - gi + 1) * pf
  BY <1>3, <1>4
<1>6. QED
  BY <1>2, <1>5 DEF pf, pg

\* No queue that lines 28-33 look at has more of a flow than its share, whatever entries
\* were read, however long the layout and whichever stretch of it.
THEOREM QueuesKeepProportion == GraphSpec => []QueuesInProportion
  BY LayoutKept, StretchInProportion, PTL

\* The entries read and the layout made of them keep their types.
THEOREM GraphTyped == GraphSpec => []GraphTypeOK
<1>1. LayoutBook => GraphTypeOK
  BY DEF LayoutBook
<1>2. QED
  BY <1>1, LayoutKept, PTL

-----------------------------------------------------------------------------
(***************************************************************************)
(* Of two flows, the one with more packets is blamed more.                 *)
(***************************************************************************)

\* A set of naturals with 0 and the successor of each of its elements.
LEMMA NaturalsByInduction ==
  ASSUME NEW S \in SUBSET Nat, 0 \in S, \A n \in S : n + 1 \in S
  PROVE  S = Nat
<1>1. SUFFICES ASSUME Nat \ S # {} PROVE FALSE
  OBVIOUS
<1> DEFINE less == OpToRel(<, Nat)
<1>2. less = {pair \in Nat \X Nat : pair[1] < pair[2]}
  BY DEF OpToRel
<1>3. IsWellFoundedOn(less, Nat)
  BY NatLessThanWellFounded
<1> HIDE DEF less
<1>4. PICK x \in Nat \ S : \A y \in Nat \ S : ~(<<y, x>> \in less)
  <2>1. Nat \ S \subseteq Nat
    OBVIOUS
  <2>2. QED
    BY <1>1, <1>3, <2>1, WFMin
<1>5. x # 0 /\ x - 1 \in Nat
  BY <1>4
<1>6. <<x - 1, x>> \in less
  BY <1>2, <1>4, <1>5
<1>7. x - 1 \in S
  BY <1>4, <1>5, <1>6
<1>8. QED
  BY <1>4, <1>5, <1>7

\* How far the first of two flows with a and b packets is ahead after d packets.
Lead(layout, a, b, d) == Among(layout, d, 1) * b - Among(layout, d, 2) * a

\* A complete layout of two flows, the heavier printed first: the first is laid out next
\* whenever it is not ahead.
TwoFlows(layout, a, b) ==
  /\ a \in Nat /\ b \in Nat /\ b >= 1 /\ b <= a
  /\ Len(layout) = a + b /\ \A at \in 1..(a + b) : layout[at] \in {1, 2}
  /\ Among(layout, a + b, 1) = a /\ Among(layout, a + b, 2) = b
  /\ \A d \in 0..((a + b) - 1) : layout[d + 1] = 1 <=> Lead(layout, a, b, d) <= 0

LEMMA AmongNext ==
  ASSUME NEW layout, NEW f, NEW d \in Nat
  PROVE  /\ Among(layout, d, f) \in Nat
         /\ Among(layout, d + 1, f) = Among(layout, d, f) + (IF layout[d + 1] = f THEN 1 ELSE 0)
<1> DEFINE S == {at \in (d + 1)..(d + 1) : layout[at] = f}
<1>1. /\ Among(layout, d, f) \in Nat /\ Among(layout, d + 1, f) \in Nat
      /\ Cardinality(S) = Among(layout, d + 1, f) - Among(layout, d, f)
  <2>1. d <= d + 1 /\ d + 1 \in Nat
    OBVIOUS
  <2>2. QED
    BY <2>1, AmongGrows
<1>2. S = IF layout[d + 1] = f THEN {d + 1} ELSE {}
  OBVIOUS
<1> HIDE DEF S
<1>3. Cardinality(S) = IF layout[d + 1] = f THEN 1 ELSE 0
  BY <1>2, FS_EmptySet, FS_Singleton
<1>4. QED
  BY <1>1, <1>3

\* The packets of the two flows are all there are.
LEMMA AmongBoth ==
  ASSUME NEW layout, NEW n \in Nat, \A at \in 1..n : layout[at] \in {1, 2}
  PROVE  \A e \in 0..n : Among(layout, e, 1) + Among(layout, e, 2) = e
<1> DEFINE D == {e \in Nat : e <= n => Among(layout, e, 1) + Among(layout, e, 2) = e}
<1>1. 0 \in D
  BY AmongNone
<1>2. ASSUME NEW e \in D PROVE e + 1 \in D
  <2>1. SUFFICES ASSUME e + 1 <= n
                 PROVE  Among(layout, e + 1, 1) + Among(layout, e + 1, 2) = e + 1
    OBVIOUS
  <2>2. e \in Nat /\ e <= n /\ e + 1 \in 1..n
    BY <2>1
  <2>3. layout[e + 1] \in {1, 2}
    BY <2>2
  <2>4. /\ Among(layout, e, 1) \in Nat /\ Among(layout, e, 2) \in Nat
        /\ Among(layout, e + 1, 1)
             = Among(layout, e, 1) + (IF layout[e + 1] = 1 THEN 1 ELSE 0)
        /\ Among(layout, e + 1, 2)
             = Among(layout, e, 2) + (IF layout[e + 1] = 2 THEN 1 ELSE 0)
    BY <2>2, AmongNext
  <2>5. Among(layout, e, 1) + Among(layout, e, 2) = e
    BY <2>2
  <2>6. QED
    BY <2>2, <2>3, <2>4, <2>5
<1>3. D = Nat
  <2>1. D \in SUBSET Nat
    OBVIOUS
  <2> HIDE DEF D
  <2>2. QED
    BY <1>1, <1>2, <2>1, NaturalsByInduction
<1>4. \A e \in 0..n : e \in Nat /\ e <= n
  OBVIOUS
<1>5. QED
  BY <1>3, <1>4

\* What a packet of the layout does to the lead.
LEMMA LeadSteps ==
  ASSUME NEW layout, NEW a, NEW b, TwoFlows(layout, a, b)
  PROVE  /\ Lead(layout, a, b, 0) = 0 /\ Lead(layout, a, b, a + b) = 0
         /\ \A d \in 0..((a + b) - 1) :
              \/ /\ layout[d + 1] = 1 /\ Lead(layout, a, b, d) <= 0
                 /\ Lead(layout, a, b, d + 1) = Lead(layout, a, b, d) + b
              \/ /\ layout[d + 1] = 2 /\ Lead(layout, a, b, d) > 0
                 /\ Lead(layout, a, b, d + 1) = Lead(layout, a, b, d) - a
         /\ \A d \in 0..(a + b) : Lead(layout, a, b, d) \in Int
<1>1. a \in Nat /\ b \in Nat
  BY DEF TwoFlows
<1>2. Lead(layout, a, b, 0) = 0
  BY <1>1, AmongNone DEF Lead
<1>3. Lead(layout, a, b, a + b) = 0
  <2>1. a * b - b * a = 0
    BY <1>1
  <2>2. QED
    BY <2>1 DEF Lead, TwoFlows
<1>4. ASSUME NEW d \in 0..(a + b) PROVE Lead(layout, a, b, d) \in Int
  <2>1. d \in Nat
    BY <1>1
  <2>2. Among(layout, d, 1) \in Nat /\ Among(layout, d, 2) \in Nat
    BY <2>1, AmongNext
  <2>3. QED
    BY <1>1, <2>2 DEF Lead
<1>5. ASSUME NEW d \in 0..((a + b) - 1)
      PROVE  \/ /\ layout[d + 1] = 1 /\ Lead(layout, a, b, d) <= 0
                /\ Lead(layout, a, b, d + 1) = Lead(layout, a, b, d) + b
             \/ /\ layout[d + 1] = 2 /\ Lead(layout, a, b, d) > 0
                /\ Lead(layout, a, b, d + 1) = Lead(layout, a, b, d) - a
  <2> DEFINE x == Among(layout, d, 1)
             y == Among(layout, d, 2)
             x1 == Among(layout, d + 1, 1)
             y1 == Among(layout, d + 1, 2)
  <2>1. d \in Nat /\ d \in 0..(a + b) /\ d + 1 \in 1..(a + b)
    BY <1>1
  <2>2. /\ x \in Nat /\ y \in Nat
        /\ x1 = x + (IF layout[d + 1] = 1 THEN 1 ELSE 0)
        /\ y1 = y + (IF layout[d + 1] = 2 THEN 1 ELSE 0)
    BY <2>1, AmongNext
  <2>3. layout[d + 1] \in {1, 2} /\ (layout[d + 1] = 1 <=> Lead(layout, a, b, d) <= 0)
    BY <2>1 DEF TwoFlows
  <2>4. Lead(layout, a, b, d) = x * b - y * a /\ Lead(layout, a, b, d + 1) = x1 * b - y1 * a
    BY DEF Lead
  <2> HIDE DEF x, y, x1, y1
  <2>5. (x + 1) * b - y * a = x * b - y * a + b /\ x * b - (y + 1) * a = x * b - y * a - a
    BY <1>1, <2>2
  <2>6. Lead(layout, a, b, d) \in Int
    BY <1>4, <2>1
  <2>7. CASE layout[d + 1] = 1
    <3>1. x1 = x + 1 /\ y1 = y
      BY <2>2, <2>7
    <3>2. QED
      BY <2>3, <2>4, <2>5, <2>7, <3>1
  <2>8. CASE layout[d + 1] = 2
    <3>1. x1 = x /\ y1 = y + 1
      BY <2>2, <2>8
    <3>2. Lead(layout, a, b, d) > 0
      BY <2>3, <2>6, <2>8
    <3>3. QED
      BY <2>4, <2>5, <2>8, <3>1, <3>2
  <2>9. QED
    BY <2>3, <2>7, <2>8
<1>6. QED
  BY <1>2, <1>3, <1>4, <1>5

LEMMA LeadBounds ==
  ASSUME NEW layout, NEW a, NEW b, TwoFlows(layout, a, b)
  PROVE  \A d \in 0..(a + b) : -a < Lead(layout, a, b, d) /\ Lead(layout, a, b, d) <= b
<1> DEFINE v(d) == Lead(layout, a, b, d)
           D == {d \in Nat : d <= a + b => -a < v(d) /\ v(d) <= b}
<1>1. a \in Nat /\ b \in Nat /\ b >= 1 /\ b <= a
  BY DEF TwoFlows
<1>2. /\ v(0) = 0
      /\ \A d \in 0..(a + b) : v(d) \in Int
      /\ \A d \in 0..((a + b) - 1) : \/ v(d) <= 0 /\ v(d + 1) = v(d) + b
                                     \/ v(d) > 0 /\ v(d + 1) = v(d) - a
  BY LeadSteps
<1> HIDE DEF v
<1>3. 0 \in D
  BY <1>1, <1>2
<1>4. ASSUME NEW d \in D PROVE d + 1 \in D
  <2>1. SUFFICES ASSUME d + 1 <= a + b PROVE -a < v(d + 1) /\ v(d + 1) <= b
    OBVIOUS
  <2>2. d \in 0..((a + b) - 1) /\ d \in 0..(a + b) /\ d <= a + b
    BY <1>1, <2>1
  <2>3. -a < v(d) /\ v(d) <= b /\ v(d) \in Int
    BY <1>2, <2>2
  <2>4. QED
    BY <1>1, <1>2, <2>2, <2>3
<1>5. D = Nat
  <2>1. D \in SUBSET Nat
    OBVIOUS
  <2> HIDE DEF D
  <2>2. QED
    BY <1>3, <1>4, <2>1, NaturalsByInduction
<1>6. \A d \in 0..(a + b) : d \in Nat /\ d <= a + b
  BY <1>1
<1>7. QED
  BY <1>5, <1>6 DEF v

\* How many more packets of the first flow there are among the last d than among the first.
Fewer(layout, a, b, d) == a - Among(layout, (a + b) - d, 1) - Among(layout, d, 1)

\* The first d packets hold at most one fewer of the first flow than the last d do, and
\* that only where it was more than b behind.
LEMMA EndsAlike ==
  ASSUME NEW layout, NEW a, NEW b, TwoFlows(layout, a, b), NEW d \in 0..(a + b)
  PROVE  /\ Fewer(layout, a, b, d) \in Int /\ Fewer(layout, a, b, d) <= 1
         /\ Fewer(layout, a, b, d) = 1 => Lead(layout, a, b, d) < -b
<1> DEFINE n == a + b
           m == n - d
           x == Among(layout, d, 1)
           y == Among(layout, d, 2)
           z == Among(layout, m, 1)
           w == Among(layout, m, 2)
           less == Fewer(layout, a, b, d)
<1>0. less = a - z - x
  BY DEF Fewer
<1> HIDE DEF less
<1>1. a \in Nat /\ b \in Nat /\ b >= 1 /\ b <= a
  BY DEF TwoFlows
<1>2. d \in Nat /\ m \in Nat /\ m \in 0..n /\ n \in Nat /\ d + m = n
  BY <1>1
<1>3. x \in Nat /\ y \in Nat /\ z \in Nat /\ w \in Nat
  BY <1>2, AmongNext
<1>4. \A e \in 0..n : Among(layout, e, 1) + Among(layout, e, 2) = e
  <2>1. \A at \in 1..n : layout[at] \in {1, 2}
    BY DEF TwoFlows
  <2> HIDE DEF n
  <2>2. QED
    BY <1>2, <2>1, AmongBoth
<1>5. x + y = d /\ z + w = m
  BY <1>2, <1>4
<1> DEFINE p == Lead(layout, a, b, d)
           q == Lead(layout, a, b, m)
<1>6. /\ p = x * b - y * a /\ q = z * b - w * a
      /\ p \in Int /\ q \in Int /\ -a < p /\ -a < q
  BY <1>2, LeadSteps, LeadBounds DEF Lead
<1> HIDE DEF x, y, z, w, p, q
<1>7. p = x * n - d * a /\ q = z * n - m * a
  <2>1. y = d - x /\ w = m - z
    BY <1>2, <1>3, <1>5
  <2>2. x * b - (d - x) * a = x * (a + b) - d * a /\ z * b - (m - z) * a = z * (a + b) - m * a
    BY <1>1, <1>2, <1>3
  <2>3. QED
    BY <1>6, <2>1, <2>2
<1>8. less * n = -(p + q)
  <2>1. (a - z - x) * n = a * n - z * n - x * n
    BY <1>1, <1>2, <1>3
  <2>2. d * a + m * a = n * a /\ a * n = n * a
    BY <1>1, <1>2
  <2>3. /\ x * n \in Int /\ z * n \in Int /\ d * a \in Int /\ m * a \in Int
        /\ a * n \in Int /\ n * a \in Int
    BY <1>1, <1>2, <1>3
  <2>4. QED
    BY <1>0, <1>7, <2>1, <2>2, <2>3
<1>9. less \in Int /\ less <= 1
  <2>1. less \in Int
    BY <1>0, <1>1, <1>3
  <2>2. less * n < 2 * n
    BY <1>1, <1>2, <1>6, <1>8
  <2>3. \A k \in Int : k >= 2 => k * n >= 2 * n
    BY <1>2
  <2>4. QED
    BY <1>2, <2>1, <2>2, <2>3
<1>10. ASSUME less = 1 PROVE p < -b
  <2>1. n = -(p + q)
    BY <1>2, <1>8, <1>10
  <2>2. QED
    BY <1>1, <1>6, <2>1
<1>11. QED
  BY <1>9, <1>10 DEF p, less

\* A function that is one to one and reaches everything shows two sets as large as each other.
LEMMA SameSize ==
  ASSUME NEW S, IsFiniteSet(S), NEW T, NEW F \in [S -> T],
         \A s, t \in S : F[s] = F[t] => s = t,
         \A t \in T : \E s \in S : F[s] = t
  PROVE  IsFiniteSet(T) /\ Cardinality(T) = Cardinality(S)
<1>1. F \in Bijection(S, T)
  BY DEF Bijection, Injection, Surjection, IsInjective
<1>2. QED
  BY <1>1, FS_Bijection DEF ExistsBijection

LEMMA TogetherTheyCount ==
  ASSUME NEW S, IsFiniteSet(S), NEW T, IsFiniteSet(T), S \cap T = {}
  PROVE  Cardinality(S \cup T) = Cardinality(S) + Cardinality(T)
<1>1. Cardinality(S \cap T) = 0
  BY FS_EmptySet
<1>2. Cardinality(S) \in Nat /\ Cardinality(T) \in Nat
  BY FS_CardinalityType
<1>3. Cardinality(S \cup T) = Cardinality(S) + Cardinality(T) - Cardinality(S \cap T)
  BY FS_Union
<1>4. QED
  BY <1>1, <1>2, <1>3

LEMMA Shifted ==
  ASSUME NEW S \in SUBSET Int, IsFiniteSet(S), NEW k \in Int
  PROVE  LET T == {s + k : s \in S}
         IN  IsFiniteSet(T) /\ Cardinality(T) = Cardinality(S)
<1> DEFINE T == {s + k : s \in S}
           F == [s \in S |-> s + k]
<1>1. F \in [S -> T]
  OBVIOUS
<1>2. \A s, t \in S : F[s] = F[t] => s = t
  OBVIOUS
<1>3. \A t \in T : \E s \in S : F[s] = t
  OBVIOUS
<1> HIDE DEF F, T
<1>4. QED
  BY <1>1, <1>2, <1>3, SameSize DEF T

\* Where the first of two flows is more than one of its turns behind.
FarBehind(layout, a, b) == {d \in 1..(a + b) : Lead(layout, a, b, d) < -b}

PacketsIn(layout, lo, hi, f) == {at \in lo..hi : layout[at] = f}

LEMMA PacketsFinite ==
  ASSUME NEW layout, NEW f, NEW lo \in Int, NEW hi \in Int
  PROVE  /\ IsFiniteSet(PacketsIn(layout, lo, hi, f))
         /\ PacketsIn(layout, lo, hi, f) \in SUBSET (lo..hi)
<1>1. IsFiniteSet(lo..hi)
  BY FS_Interval
<1>2. PacketsIn(layout, lo, hi, f) \in SUBSET (lo..hi)
  BY DEF PacketsIn
<1>3. QED
  BY <1>1, <1>2, FS_Subset

\* Where it is, two packets of it follow; and every packet of the other flow follows one
\* of it.
LEMMA SeldomFarBehind ==
  ASSUME NEW layout, NEW a, NEW b, TwoFlows(layout, a, b)
  PROVE  /\ IsFiniteSet(FarBehind(layout, a, b))
         /\ Cardinality(FarBehind(layout, a, b)) + b <= a
         /\ \A x \in PacketsIn(layout, 1, a + b, 2) : x > 1 /\ layout[x - 1] = 1
<1> DEFINE n == a + b
           far == FarBehind(layout, a, b)
           ones == PacketsIn(layout, 1, a + b, 1)
           twos == PacketsIn(layout, 1, a + b, 2)
           v(d) == Lead(layout, a, b, d)
           after == {d + 1 : d \in far}
           before == {x + (-1) : x \in twos}
<1>1. a \in Nat /\ b \in Nat /\ b >= 1 /\ b <= a /\ n \in Nat
  BY DEF TwoFlows
<1>2. /\ IsFiniteSet(ones) /\ Cardinality(ones) = a
      /\ IsFiniteSet(twos) /\ Cardinality(twos) = b
      /\ twos \in SUBSET Int
  <2>1. IsFiniteSet(ones) /\ IsFiniteSet(twos) /\ twos \in SUBSET (1..(a + b))
    BY <1>1, PacketsFinite
  <2>2. Cardinality(ones) = a /\ Cardinality(twos) = b
    BY DEF TwoFlows, Among, PacketsIn
  <2>3. QED
    BY <1>1, <2>1, <2>2
<1>3. far \in SUBSET (1..n) /\ IsFiniteSet(far)
  <2>1. far \in SUBSET (1..n)
    BY DEF FarBehind
  <2>2. IsFiniteSet(1..n)
    BY <1>1, FS_Interval
  <2> HIDE DEF far, n
  <2>3. QED
    BY <2>1, <2>2, FS_Subset
<1>4. /\ v(0) = 0 /\ v(n) = 0
      /\ \A d \in 0..n : v(d) \in Int
      /\ \A d \in 0..(n - 1) :
           \/ layout[d + 1] = 1 /\ v(d) <= 0 /\ v(d + 1) = v(d) + b
           \/ layout[d + 1] = 2 /\ v(d) > 0 /\ v(d + 1) = v(d) - a
  BY LeadSteps
<1>5. \A d \in 0..n : -a < v(d) /\ v(d) <= b
  BY LeadBounds
<1>6. \A d \in far : d \in 1..n /\ v(d) < -b
  BY DEF FarBehind
<1>7. /\ \A x \in ones : x \in 1..n /\ layout[x] = 1
      /\ \A x \in 1..n : layout[x] = 1 => x \in ones
      /\ \A x \in twos : x \in 1..n /\ layout[x] = 2
  BY DEF PacketsIn
<1> HIDE DEF v, far, ones, twos, n
<1>8. ASSUME NEW d \in far
      PROVE  d + 1 \in ones /\ d + 1 < n /\ layout[d + 2] = 1
  <2>1. d \in 1..n /\ v(d) < -b /\ v(d) \in Int /\ d # n
    BY <1>1, <1>4, <1>6
  <2>2. d \in 0..(n - 1) /\ d + 1 \in 0..n /\ d + 1 \in 1..n
    BY <1>1, <2>1
  <2>3. layout[d + 1] = 1 /\ v(d + 1) = v(d) + b
    BY <1>1, <1>4, <2>1, <2>2
  <2>4. v(d + 1) < 0 /\ v(d + 1) \in Int /\ d + 1 # n
    BY <1>1, <1>4, <2>1, <2>3
  <2>5. d + 1 \in 0..(n - 1) /\ (d + 1) + 1 = d + 2 /\ d + 1 < n
    BY <1>1, <2>2, <2>4
  <2>6. layout[(d + 1) + 1] = 1
    BY <1>4, <2>4, <2>5
  <2>7. QED
    BY <1>7, <2>2, <2>3, <2>5, <2>6
<1>9. ASSUME NEW x \in twos
      PROVE  x > 1 /\ layout[x - 1] = 1 /\ x - 1 \in ones
  <2>1. x \in 1..n /\ layout[x] = 2
    BY <1>7
  <2>2. x - 1 \in 0..(n - 1) /\ (x - 1) + 1 = x /\ x - 1 \in 0..n
    BY <1>1, <2>1
  <2>3. v(x - 1) > 0 /\ v(x - 1) \in Int
    BY <1>4, <2>1, <2>2
  <2>4. x > 1
    BY <1>4, <2>1, <2>3
  <2>5. x - 2 \in 0..(n - 1) /\ (x - 2) + 1 = x - 1 /\ x - 2 \in 0..n /\ x - 1 \in 1..n
    BY <1>1, <2>1, <2>4
  <2>6. v(x - 2) <= b /\ v(x - 2) \in Int
    BY <1>4, <1>5, <2>5
  <2>7. ~(v(x - 1) = v(x - 2) - a)
    BY <1>1, <2>3, <2>6
  <2>8. layout[(x - 2) + 1] = 1
    BY <1>4, <2>5, <2>7
  <2>9. QED
    BY <1>7, <2>4, <2>5, <2>8
<1>10. IsFiniteSet(after) /\ Cardinality(after) = Cardinality(far)
  <2>1. far \in SUBSET Int
    BY <1>1, <1>3
  <2>2. 1 \in Int
    OBVIOUS
  <2>3. QED
    BY <1>3, <2>1, <2>2, Shifted
<1>11. IsFiniteSet(before) /\ Cardinality(before) = Cardinality(twos)
  <2>1. -1 \in Int
    OBVIOUS
  <2>2. QED
    BY <1>2, <2>1, Shifted
<1>12. after \cap before = {}
  <2>1. SUFFICES ASSUME NEW d \in far, NEW x \in twos, d + 1 = x + (-1) PROVE FALSE
    OBVIOUS
  <2>2. d \in Int /\ x \in Int
    BY <1>1, <1>6, <1>7
  <2>3. d + 2 = x
    BY <2>1, <2>2
  <2>4. QED
    BY <1>7, <1>8, <2>3
<1>13. (after \cup before) \in SUBSET ones
  <2>1. \A x \in twos : x + (-1) = x - 1
    BY <1>1, <1>7
  <2>2. QED
    BY <1>8, <1>9, <2>1
<1> HIDE DEF after, before
<1>14. Cardinality(after \cup before) = Cardinality(after) + Cardinality(before)
  BY <1>10, <1>11, <1>12, TogetherTheyCount
<1>15. Cardinality(after \cup before) <= Cardinality(ones)
  BY <1>2, <1>13, FS_Subset
<1>16. QED
  BY <1>2, <1>3, <1>9, <1>10, <1>11, <1>14, <1>15 DEF far, twos

\* The packets of f that have one of g at the distance d before them.
PacketsAt(layout, n, f, g, d) == {x \in (d + 1)..n : layout[x] = f /\ layout[x - d] = g}

LEMMA PacketsAtFinite ==
  ASSUME NEW layout, NEW n \in Nat, NEW f, NEW g, NEW d \in Nat
  PROVE  /\ IsFiniteSet(PacketsAt(layout, n, f, g, d))
         /\ Cardinality(PacketsAt(layout, n, f, g, d)) \in Nat
         /\ d >= n => Cardinality(PacketsAt(layout, n, f, g, d)) = 0
<1> DEFINE S == PacketsAt(layout, n, f, g, d)
           whole == (d + 1)..n
<1>1. S \in SUBSET whole
  BY DEF PacketsAt
<1>2. IsFiniteSet(whole)
  BY FS_Interval
<1>3. d >= n => S = {}
  BY DEF PacketsAt
<1> HIDE DEF S, whole
<1>4. IsFiniteSet(S)
  BY <1>1, <1>2, FS_Subset
<1>5. QED
  BY <1>3, <1>4, FS_EmptySet, FS_CardinalityType DEF S

\* The pairs of the two flows at one distance, in either order, differ in number as the
\* ends of the layout differ in packets of the first flow.
LEMMA OrdersDiffer ==
  ASSUME NEW layout, NEW a, NEW b, TwoFlows(layout, a, b), NEW d \in 0..(a + b)
  PROVE  Cardinality(PacketsAt(layout, a + b, 1, 2, d))
           = Cardinality(PacketsAt(layout, a + b, 2, 1, d)) + Fewer(layout, a, b, d)
<1> DEFINE n == a + b
           m == n - d
           ahead == PacketsAt(layout, n, 1, 2, d)
           behind == PacketsAt(layout, n, 2, 1, d)
           both == PacketsAt(layout, n, 1, 1, d)
           late == {x \in (d + 1)..n : layout[x] = 1}
           early == {x + d : x \in PacketsIn(layout, 1, m, 1)}
<1>1. /\ a \in Nat /\ b \in Nat /\ n \in Nat /\ d \in Nat /\ m \in Nat /\ d + m = n /\ d <= n
      /\ \A x \in 1..n : layout[x] \in {1, 2}
      /\ Among(layout, n, 1) = a
  BY DEF TwoFlows
<1>2. Fewer(layout, a, b, d) = a - Among(layout, m, 1) - Among(layout, d, 1)
  BY DEF Fewer
<1> HIDE DEF n, m
<1>3. /\ IsFiniteSet(ahead) /\ IsFiniteSet(behind) /\ IsFiniteSet(both)
      /\ Cardinality(ahead) \in Nat /\ Cardinality(behind) \in Nat /\ Cardinality(both) \in Nat
  BY <1>1, PacketsAtFinite
<1>4. late = ahead \cup both /\ ahead \cap both = {}
  <2>1. \A x \in (d + 1)..n : x - d \in 1..n /\ layout[x - d] \in {1, 2}
    BY <1>1
  <2>2. \A x \in late : x \in (d + 1)..n /\ layout[x] = 1
    OBVIOUS
  <2>3. late \subseteq ahead \cup both
    BY <2>1, <2>2 DEF PacketsAt
  <2>4. QED
    BY <2>3 DEF PacketsAt
<1>5. early = behind \cup both /\ behind \cap both = {}
  <2>1. \A x \in (d + 1)..n : x \in 1..n /\ layout[x] \in {1, 2} /\ x - d \in 1..m /\ (x - d) + d = x
    BY <1>1
  <2>2. \A x \in PacketsIn(layout, 1, m, 1) :
          x + d \in (d + 1)..n /\ (x + d) - d = x /\ layout[x] = 1
    BY <1>1 DEF PacketsIn
  <2>3. early \subseteq behind \cup both
    BY <2>1, <2>2 DEF PacketsAt
  <2>4. ASSUME NEW x \in behind \cup both PROVE x \in early
    <3>1. x \in (d + 1)..n /\ layout[x - d] = 1
      BY DEF PacketsAt
    <3>2. x - d \in PacketsIn(layout, 1, m, 1)
      BY <2>1, <3>1 DEF PacketsIn
    <3>3. QED
      BY <2>1, <3>1, <3>2
  <2>5. QED
    BY <2>3, <2>4 DEF PacketsAt
<1>6. Cardinality(late) = a - Among(layout, d, 1) /\ Among(layout, d, 1) \in Nat
  <2>1. /\ Among(layout, d, 1) \in Nat
        /\ Cardinality({at \in (d + 1)..n : layout[at] = 1})
             = Among(layout, n, 1) - Among(layout, d, 1)
    <3>1. d \in Nat /\ n \in Nat /\ d <= n
      BY <1>1
    <3>2. QED
      BY <3>1, AmongGrows
  <2>2. QED
    BY <1>1, <2>1, Zenon
<1>7. Cardinality(early) = Among(layout, m, 1) /\ Among(layout, m, 1) \in Nat
  <2> DEFINE S == PacketsIn(layout, 1, m, 1)
  <2>1. IsFiniteSet(S) /\ S \in SUBSET (1..m)
    BY <1>1, PacketsFinite
  <2>2. S \in SUBSET Int /\ d \in Int
    BY <1>1, <2>1
  <2>3. Cardinality(S) = Among(layout, m, 1)
    BY DEF PacketsIn, Among
  <2>4. Among(layout, m, 1) \in Nat
    BY <1>1, AmongNext
  <2> HIDE DEF S
  <2>5. LET T == {x + d : x \in S} IN IsFiniteSet(T) /\ Cardinality(T) = Cardinality(S)
    BY <2>1, <2>2, Shifted
  <2>6. QED
    BY <2>3, <2>4, <2>5 DEF S
<1> HIDE DEF ahead, behind, both, late, early
<1>8. Cardinality(late) = Cardinality(ahead) + Cardinality(both)
  BY <1>3, <1>4, TogetherTheyCount
<1>9. Cardinality(early) = Cardinality(behind) + Cardinality(both)
  BY <1>3, <1>5, TogetherTheyCount
<1>10. Cardinality(ahead) = Cardinality(behind) + Fewer(layout, a, b, d)
  BY <1>1, <1>2, <1>3, <1>6, <1>7, <1>8, <1>9
<1>11. QED
  BY <1>10 DEF ahead, behind, n

\* How often one of the packets of f looks at one of g, at the first q places before it.
Looks(layout, n, f, g, q) ==
  {look \in (1..n) \X (1..q) : /\ layout[look[1]] = f
                               /\ look[1] - look[2] >= 1
                               /\ layout[look[1] - look[2]] = g}

LEMMA LooksGrow ==
  ASSUME NEW layout, NEW n \in Nat, NEW f, NEW g, NEW q \in Nat
  PROVE  /\ Cardinality(Looks(layout, n, f, g, 0)) = 0
         /\ Cardinality(Looks(layout, n, f, g, q)) \in Nat
         /\ Cardinality(Looks(layout, n, f, g, q + 1))
              = Cardinality(Looks(layout, n, f, g, q))
                + Cardinality(PacketsAt(layout, n, f, g, q + 1))
<1> DEFINE S == Looks(layout, n, f, g, q)
           U == PacketsAt(layout, n, f, g, q + 1)
           F == [x \in U |-> <<x, q + 1>>]
           T == {<<x, q + 1>> : x \in U}
<1>1. Looks(layout, n, f, g, 0) = {}
  <2>1. (1..0) = {}
    OBVIOUS
  <2>2. QED
    BY <2>1 DEF Looks
<1>2. IsFiniteSet(S) /\ Cardinality(S) \in Nat
  <2> DEFINE whole == (1..n) \X (1..q)
  <2>1. IsFiniteSet(1..n) /\ IsFiniteSet(1..q)
    BY FS_Interval
  <2>2. IsFiniteSet(whole)
    BY <2>1, FS_Product
  <2>3. S \in SUBSET whole
    BY DEF Looks
  <2> HIDE DEF S, whole
  <2>4. QED
    BY <2>2, <2>3, FS_Subset, FS_CardinalityType
<1>3. IsFiniteSet(U) /\ Cardinality(U) \in Nat
  BY PacketsAtFinite
<1>4. IsFiniteSet(T) /\ Cardinality(T) = Cardinality(U)
  <2> HIDE DEF U
  <2>1. F \in [U -> T]
    OBVIOUS
  <2>2. \A s, t \in U : F[s] = F[t] => s = t
    OBVIOUS
  <2>3. \A t \in T : \E s \in U : F[s] = t
    OBVIOUS
  <2> HIDE DEF F, T
  <2>4. QED
    BY <1>3, <2>1, <2>2, <2>3, SameSize
<1>5. Looks(layout, n, f, g, q + 1) = S \cup T
  <2>1. \A look \in (1..n) \X (1..(q + 1)) :
          \/ look \in (1..n) \X (1..q)
          \/ look = <<look[1], q + 1>> /\ look[1] \in 1..n /\ look[2] = q + 1
    OBVIOUS
  <2>2. ASSUME NEW look \in Looks(layout, n, f, g, q + 1) PROVE look \in S \cup T
    <3>1. CASE look \in (1..n) \X (1..q)
      BY <2>2, <3>1 DEF Looks
    <3>2. CASE look = <<look[1], q + 1>> /\ look[1] \in 1..n /\ look[2] = q + 1
      <4>1. /\ look[1] - (q + 1) >= 1 /\ layout[look[1]] = f
            /\ layout[look[1] - (q + 1)] = g
        BY <2>2, <3>2 DEF Looks
      <4>2. look[1] \in (q + 1 + 1)..n
        BY <3>2, <4>1
      <4>3. look[1] \in U
        BY <4>1, <4>2 DEF PacketsAt
      <4>4. QED
        BY <3>2, <4>3
    <3>3. QED
      BY <2>1, <3>1, <3>2 DEF Looks
  <2>3. ASSUME NEW look \in S PROVE look \in Looks(layout, n, f, g, q + 1)
    BY <2>3 DEF Looks
  <2>4. ASSUME NEW look \in T PROVE look \in Looks(layout, n, f, g, q + 1)
    <3>1. PICK x \in U : look = <<x, q + 1>>
      OBVIOUS
    <3>2. x \in (q + 1 + 1)..n /\ layout[x] = f /\ layout[x - (q + 1)] = g
      BY DEF PacketsAt
    <3>3. x \in 1..n /\ q + 1 \in 1..(q + 1) /\ x - (q + 1) >= 1
      BY <3>2
    <3>4. QED
      BY <3>1, <3>2, <3>3 DEF Looks
  <2>5. QED
    BY <2>2, <2>3, <2>4
<1>6. S \cap T = {}
  BY DEF Looks
<1> HIDE DEF S, T, U, F
<1>7. Cardinality(S \cup T) = Cardinality(S) + Cardinality(T)
  BY <1>2, <1>4, <1>6, TogetherTheyCount
<1>8. QED
  BY <1>1, <1>2, <1>4, <1>5, <1>7, FS_EmptySet DEF S, U

\* Summed over all distances up to q: the lighter flow looks at the heavier at least as
\* often, by packet, as the heavier at it.
LEMMA LighterLooksMore ==
  ASSUME NEW layout, NEW a, NEW b, TwoFlows(layout, a, b), NEW q \in Nat
  PROVE  LET heavier == Cardinality(Looks(layout, a + b, 1, 2, q))
             lighter == Cardinality(Looks(layout, a + b, 2, 1, q))
         IN  heavier \in Nat /\ lighter \in Nat /\ heavier * b <= lighter * a
<1> DEFINE n == a + b
           far == FarBehind(layout, a, b)
           upTo(k) == far \cap (1..k)
           c(k) == Cardinality(upTo(k))
           h(k) == Cardinality(Looks(layout, n, 1, 2, k))
           l(k) == Cardinality(Looks(layout, n, 2, 1, k))
           ph(k) == Cardinality(PacketsAt(layout, n, 1, 2, k))
           pl(k) == Cardinality(PacketsAt(layout, n, 2, 1, k))
<1>1. a \in Nat /\ b \in Nat /\ b >= 1 /\ b <= a /\ n \in Nat
  BY DEF TwoFlows
<1>2. /\ IsFiniteSet(far) /\ Cardinality(far) + b <= a
      /\ \A x \in PacketsIn(layout, 1, n, 2) : x > 1 /\ layout[x - 1] = 1
  BY SeldomFarBehind
<1>3. /\ h(0) = 0 /\ l(0) = 0
      /\ \A k \in Nat : h(k) \in Nat /\ l(k) \in Nat
      /\ \A k \in Nat : h(k + 1) = h(k) + ph(k + 1) /\ l(k + 1) = l(k) + pl(k + 1)
  <2>1. h(0) = 0 /\ l(0) = 0
    BY <1>1, LooksGrow
  <2>2. ASSUME NEW k \in Nat
        PROVE  /\ h(k) \in Nat /\ l(k) \in Nat
               /\ h(k + 1) = h(k) + ph(k + 1) /\ l(k + 1) = l(k) + pl(k + 1)
    BY <1>1, LooksGrow
  <2>3. QED
    BY <2>1, <2>2
<1>4. \A k \in Nat : ph(k) \in Nat /\ pl(k) \in Nat /\ (k >= n => ph(k) = 0 /\ pl(k) = 0)
  BY <1>1, PacketsAtFinite
<1>5. \A k \in 0..n : /\ ph(k) = pl(k) + Fewer(layout, a, b, k)
                      /\ Fewer(layout, a, b, k) \in Int /\ Fewer(layout, a, b, k) <= 1
                      /\ Fewer(layout, a, b, k) = 1 => Lead(layout, a, b, k) < -b
  BY OrdersDiffer, EndsAlike
<1>6. /\ \A k \in Nat : IsFiniteSet(upTo(k)) /\ c(k) \in Nat /\ c(k) <= Cardinality(far)
      /\ Cardinality(far) \in Nat
  <2> HIDE DEF far
  <2>1. ASSUME NEW k \in Nat PROVE IsFiniteSet(upTo(k)) /\ c(k) <= Cardinality(far)
    <3>1. upTo(k) \in SUBSET far
      OBVIOUS
    <3> HIDE DEF upTo
    <3>2. QED
      BY <1>2, <3>1, FS_Subset
  <2> HIDE DEF upTo
  <2>2. QED
    BY <1>2, <2>1, FS_CardinalityType
<1>7. \A k \in Nat : c(k + 1) = c(k) + (IF k + 1 \in far THEN 1 ELSE 0)
  <2> SUFFICES ASSUME NEW k \in Nat PROVE c(k + 1) = c(k) + (IF k + 1 \in far THEN 1 ELSE 0)
    OBVIOUS
  <2> HIDE DEF far
  <2>1. (1..(k + 1)) = (1..k) \cup {k + 1} /\ k + 1 \notin 1..k
    OBVIOUS
  <2>2. CASE k + 1 \in far
    <3>1. upTo(k + 1) = upTo(k) \cup {k + 1} /\ k + 1 \notin upTo(k)
      BY <2>1, <2>2
    <3> HIDE DEF upTo
    <3>2. QED
      BY <1>6, <2>2, <3>1, FS_AddElement
  <2>3. CASE k + 1 \notin far
    <3>1. upTo(k + 1) = upTo(k)
      BY <2>1, <2>3
    <3> HIDE DEF upTo
    <3>2. QED
      BY <1>6, <2>3, <3>1
  <2>4. QED
    BY <2>2, <2>3
<1>8. \A k \in 1..n : Fewer(layout, a, b, k) = 1 => k \in far
  BY <1>1, <1>5 DEF FarBehind
<1>9. pl(1) = b
  <2>1. PacketsAt(layout, n, 2, 1, 1) = PacketsIn(layout, 1, n, 2)
    <3>1. \A x \in PacketsIn(layout, 1, n, 2) : x \in 1..n /\ layout[x] = 2
      BY DEF PacketsIn
    <3>2. \A x \in PacketsIn(layout, 1, n, 2) : x \in (1 + 1)..n
      BY <1>2, <3>1
    <3>3. QED
      BY <1>2, <3>1, <3>2 DEF PacketsAt, PacketsIn
  <2>2. Cardinality(PacketsIn(layout, 1, n, 2)) = b
    BY DEF TwoFlows, Among, PacketsIn
  <2>3. QED
    BY <2>1, <2>2
<1> HIDE DEF n, far, upTo, c, h, l, ph, pl
<1> DEFINE D == {k \in Nat : h(k) <= l(k) + c(k) /\ (k >= 1 => l(k) >= b)}
<1>10. 0 \in D
  BY <1>3, <1>6
<1>11. ASSUME NEW k \in D PROVE k + 1 \in D
  <2>1. /\ k \in Nat /\ k + 1 \in Nat /\ h(k) <= l(k) + c(k)
        /\ h(k) \in Nat /\ l(k) \in Nat /\ c(k) \in Nat /\ c(k + 1) \in Nat
        /\ ph(k + 1) \in Nat /\ pl(k + 1) \in Nat
        /\ h(k + 1) = h(k) + ph(k + 1) /\ l(k + 1) = l(k) + pl(k + 1)
    BY <1>3, <1>4, <1>6
  <2>2. c(k + 1) = c(k) + (IF k + 1 \in far THEN 1 ELSE 0)
    BY <1>7, <2>1
  <2>3. ph(k + 1) <= pl(k + 1) + (IF k + 1 \in far THEN 1 ELSE 0)
    <3>1. CASE k + 1 >= n
      BY <1>4, <2>1, <3>1
    <3>2. CASE ~(k + 1 >= n)
      <4>1. k + 1 \in 0..n /\ k + 1 \in 1..n
        BY <1>1, <2>1, <3>2
      <4>2. /\ ph(k + 1) = pl(k + 1) + Fewer(layout, a, b, k + 1)
            /\ Fewer(layout, a, b, k + 1) \in Int /\ Fewer(layout, a, b, k + 1) <= 1
            /\ Fewer(layout, a, b, k + 1) = 1 => k + 1 \in far
        BY <1>5, <1>8, <4>1
      <4>3. QED
        BY <2>1, <4>2
    <3>3. QED
      BY <3>1, <3>2
  <2>4. h(k + 1) <= l(k + 1) + c(k + 1)
    BY <2>1, <2>2, <2>3
  <2>5. l(k + 1) >= b
    <3>1. CASE k = 0
      BY <1>1, <1>3, <1>9, <2>1, <3>1
    <3>2. CASE k # 0
      <4>1. l(k) >= b
        BY <2>1, <3>2
      <4>2. QED
        BY <1>1, <2>1, <4>1
    <3>3. QED
      BY <3>1, <3>2
  <2>6. QED
    BY <2>1, <2>4, <2>5
<1>12. D = Nat
  <2>1. D \in SUBSET Nat
    OBVIOUS
  <2> HIDE DEF D
  <2>2. QED
    BY <1>10, <1>11, <2>1, NaturalsByInduction
<1>13. h(q) \in Nat /\ l(q) \in Nat /\ h(q) * b <= l(q) * a
  <2>1. /\ h(q) \in Nat /\ l(q) \in Nat /\ c(q) \in Nat
        /\ h(q) <= l(q) + c(q) /\ (q >= 1 => l(q) >= b)
    BY <1>3, <1>6, <1>12
  <2>2. CASE q = 0
    <3>1. h(q) = 0 /\ l(q) = 0
      BY <1>3, <2>2
    <3>2. QED
      BY <1>1, <3>1
  <2>3. CASE q # 0
    <3>1. l(q) >= b
      BY <2>1, <2>3
    <3>2. c(q) <= Cardinality(far) /\ Cardinality(far) \in Nat
      BY <1>6
    <3>3. c(q) <= a - b /\ a - b \in Nat
      BY <1>1, <1>2, <2>1, <3>2
    <3>4. h(q) <= l(q) + (a - b)
      BY <1>1, <2>1, <3>3
    <3>5. h(q) * b <= (l(q) + (a - b)) * b
      <4>1. \A x, y \in Nat : x <= y => x * b <= y * b
        BY <1>1
      <4>2. QED
        BY <2>1, <3>3, <3>4, <4>1
    <3>6. (a - b) * b <= (a - b) * l(q)
      <4>1. \A x, y, z \in Nat : x <= y => z * x <= z * y
        OBVIOUS
      <4>2. QED
        BY <1>1, <2>1, <3>1, <3>3, <4>1
    <3>7. (l(q) + (a - b)) * b = l(q) * b + (a - b) * b /\ l(q) * b + (a - b) * l(q) = l(q) * a
      BY <1>1, <2>1
    <3>8. /\ h(q) * b \in Int /\ (l(q) + (a - b)) * b \in Int /\ (a - b) * b \in Int
          /\ (a - b) * l(q) \in Int /\ l(q) * b \in Int /\ l(q) * a \in Int
      BY <1>1, <2>1
    <3>9. QED
      BY <2>1, <3>5, <3>6, <3>7, <3>8
  <2>4. QED
    BY <2>2, <2>3
<1>14. QED
  BY <1>13 DEF h, l, n

\* The degree of a name where the port has two flows.
LEMMA DegreeOfTwo ==
  ASSUME NEW name, Flow = {1, 2}, NEW e1 \in Int, NEW e2 \in Int,
         e1 = pkt_waitfor(flows[1], name) - pkt_waitfor(name, flows[1]),
         e2 = pkt_waitfor(flows[2], name) - pkt_waitfor(name, flows[2])
  PROVE  degree(name) = Occurrences(name) * (e1 + e2)
<1> DEFINE e(g) == pkt_waitfor(flows[g], name) - pkt_waitfor(name, flows[g])
           some(s) == CHOOSE x \in s : TRUE
           Unrolled(iter) == [s \in SUBSET Flow |->
                                IF s = {} THEN 0 ELSE e(some(s)) + iter[s \ {some(s)}]]
           total == CHOOSE iter : iter = Unrolled(iter)
<1>1. degree(name) = Occurrences(name) * total[Flow]
  BY DEF degree, MapThenSumSet, MapThenFoldSet
<1>2. e(1) = e1 /\ e(2) = e2
  OBVIOUS
<1>3. some({1}) = 1 /\ some({2}) = 2 /\ some({1, 2}) \in {1, 2}
  <2>1. some({1}) \in {1} /\ some({2}) \in {2} /\ some({1, 2}) \in {1, 2}
    OBVIOUS
  <2>2. QED
    BY <2>1
<1> DEFINE first == {1}
           second == {2}
           both == {1, 2}
<1>4. /\ {} \in SUBSET Flow /\ first \in SUBSET Flow /\ second \in SUBSET Flow
      /\ both \in SUBSET Flow /\ Flow = both
      /\ first # {} /\ second # {} /\ both # {} /\ second # first /\ both # first /\ both # second
      /\ first \ {1} = {} /\ second \ {2} = {} /\ both \ {1} = second /\ both \ {2} = first
  <2>1. first \in SUBSET Flow /\ second \in SUBSET Flow /\ both \in SUBSET Flow
    OBVIOUS
  <2>2. first # {} /\ second # {} /\ both # {} /\ second # first /\ both # first /\ both # second
    OBVIOUS
  <2>3. first \ {1} = {} /\ second \ {2} = {} /\ both \ {1} = second /\ both \ {2} = first
    OBVIOUS
  <2>4. QED
    BY <2>1, <2>2, <2>3
<1>5. \A s \in SUBSET Flow : s = {} \/ s = first \/ s = second \/ s = both
  OBVIOUS
<1> HIDE DEF e, some
<1>6. some(first) = 1 /\ some(second) = 2 /\ some(both) \in {1, 2}
  BY <1>3
<1> HIDE DEF first, second, both
<1> DEFINE sums == [s \in SUBSET Flow |->
                      IF s = {} THEN 0 ELSE
                      IF s = first THEN e1 ELSE IF s = second THEN e2 ELSE e1 + e2]
<1>7. sums[{}] = 0 /\ sums[first] = e1 /\ sums[second] = e2 /\ sums[both] = e1 + e2
  BY <1>4
<1>8. sums = Unrolled(sums)
  <2>1. ASSUME NEW s \in SUBSET Flow
        PROVE  sums[s] = IF s = {} THEN 0 ELSE e(some(s)) + sums[s \ {some(s)}]
    <3> HIDE DEF sums
    <3>1. CASE s = {}
      BY <1>7, <3>1
    <3>2. CASE s = first
      <4>1. s \ {some(s)} = {}
        BY <1>4, <1>6, <3>2
      <4>2. e(some(s)) = e1
        BY <1>2, <1>6, <3>2
      <4>3. s # {} /\ sums[s] = e1 /\ sums[s \ {some(s)}] = 0
        BY <1>4, <1>7, <3>2, <4>1
      <4>4. e(some(s)) + sums[s \ {some(s)}] = e1
        BY <4>2, <4>3
      <4>5. QED
        BY <4>3, <4>4, Zenon
    <3>3. CASE s = second
      <4>1. s \ {some(s)} = {}
        BY <1>4, <1>6, <3>3
      <4>2. e(some(s)) = e2
        BY <1>2, <1>6, <3>3
      <4>3. s # {} /\ sums[s] = e2 /\ sums[s \ {some(s)}] = 0
        BY <1>4, <1>7, <3>3, <4>1
      <4>4. e(some(s)) + sums[s \ {some(s)}] = e2
        BY <4>2, <4>3
      <4>5. QED
        BY <4>3, <4>4, Zenon
    <3>4. CASE s = both
      <4>1. CASE some(both) = 1
        <5>1. s \ {some(s)} = second /\ e(some(s)) = e1
          BY <1>2, <1>4, <3>4, <4>1
        <5>2. s # {} /\ sums[s] = e1 + e2 /\ sums[s \ {some(s)}] = e2
          BY <1>4, <1>7, <3>4, <5>1
        <5>3. e(some(s)) + sums[s \ {some(s)}] = e1 + e2
          BY <5>1, <5>2
        <5>4. QED
          BY <5>2, <5>3, Zenon
      <4>2. CASE some(both) = 2
        <5>1. s \ {some(s)} = first /\ e(some(s)) = e2
          BY <1>2, <1>4, <3>4, <4>2
        <5>2. s # {} /\ sums[s] = e1 + e2 /\ sums[s \ {some(s)}] = e1
          BY <1>4, <1>7, <3>4, <5>1
        <5>3. e(some(s)) + sums[s \ {some(s)}] = e1 + e2
          BY <5>1, <5>2
        <5>4. QED
          BY <5>2, <5>3, Zenon
      <4>3. QED
        BY <1>6, <4>1, <4>2
    <3>5. QED
      BY <1>5, <3>1, <3>2, <3>3, <3>4
  <2>2. sums = [s \in SUBSET Flow |-> sums[s]]
    OBVIOUS
  <2> HIDE DEF sums
  <2>3. QED
    BY <2>1, <2>2
<1> HIDE DEF sums
<1>9. total = Unrolled(total)
  BY <1>8
<1> HIDE DEF total
<1>10. \A s \in SUBSET Flow :
        total[s] = IF s = {} THEN 0 ELSE e(some(s)) + total[s \ {some(s)}]
  BY <1>9
<1>11. total[{}] = 0 /\ total[first] = e1 /\ total[second] = e2
  <2>1. total[{}] = 0
    BY <1>4, <1>10
  <2>2. total[first] = e(1) + total[{}]
    BY <1>4, <1>6, <1>10
  <2>3. total[second] = e(2) + total[{}]
    BY <1>4, <1>6, <1>10
  <2>4. QED
    BY <1>2, <2>1, <2>2, <2>3
<1>12. total[both] = e1 + e2
  <2>1. total[both] = e(some(both)) + total[both \ {some(both)}]
    BY <1>4, <1>10
  <2>2. CASE some(both) = 1
    BY <1>2, <1>4, <1>11, <2>1, <2>2
  <2>3. CASE some(both) = 2
    BY <1>2, <1>4, <1>11, <2>1, <2>3
  <2>4. QED
    BY <1>6, <2>2, <2>3
<1>13. QED
  BY <1>1, <1>4, <1>12

\* Rounding to a tenth keeps the order of two ratios.
LEMMA RoundingKeepsOrder ==
  ASSUME NEW w1 \in Nat, NEW w2 \in Nat, NEW p1 \in Nat \ {0}, NEW p2 \in Nat \ {0},
         w1 * p2 <= w2 * p1
  PROVE  /\ RoundedTenths(w1, p1) \in Nat /\ RoundedTenths(w2, p2) \in Nat
         /\ RoundedTenths(w1, p1) <= RoundedTenths(w2, p2)
<1> DEFINE d1 == (10 * w1) \div p1
           d2 == (10 * w2) \div p2
           r1 == (10 * w1) % p1
           r2 == (10 * w2) % p2
           Up(d, r, p) == 2 * r > p \/ (2 * r = p /\ d % 2 = 1)
           t1 == RoundedTenths(w1, p1)
           t2 == RoundedTenths(w2, p2)
<1>1. ASSUME NEW n \in Nat, NEW d \in Nat \ {0}
      PROVE  n \div d \in Nat /\ n % d \in 0..(d - 1) /\ n = d * (n \div d) + (n % d)
  <2>1. PICK q, r : q = n \div d /\ r = n % d
    OBVIOUS
  <2>2. q \in Nat
    BY <2>1
  <2>3. r \in 0..(d - 1)
    BY <2>1
  <2>4. n = d * q + r
    BY <2>1, <2>2, <2>3
  <2>5. QED
    BY <2>1, <2>2, <2>3, <2>4
<1>2. t1 = (IF Up(d1, r1, p1) THEN d1 + 1 ELSE d1) /\ t2 = (IF Up(d2, r2, p2) THEN d2 + 1 ELSE d2)
  BY DEF RoundedTenths
<1>3. /\ d1 \in Nat /\ r1 \in Nat /\ r1 < p1 /\ 10 * w1 = p1 * d1 + r1
      /\ d2 \in Nat /\ r2 \in Nat /\ r2 < p2 /\ 10 * w2 = p2 * d2 + r2
  <2>1. 10 * w1 \in Nat /\ 10 * w2 \in Nat
    OBVIOUS
  <2>2. d1 \in Nat /\ r1 \in 0..(p1 - 1) /\ 10 * w1 = p1 * d1 + r1
    BY <1>1, <2>1
  <2>3. d2 \in Nat /\ r2 \in 0..(p2 - 1) /\ 10 * w2 = p2 * d2 + r2
    BY <1>1, <2>1
  <2>4. QED
    BY <2>2, <2>3
<1> HIDE DEF d1, d2, r1, r2, t1, t2
<1>4. (p1 * d1 + r1) * p2 <= (p2 * d2 + r2) * p1
  <2>1. (10 * w1) * p2 = 10 * (w1 * p2) /\ (10 * w2) * p1 = 10 * (w2 * p1)
    OBVIOUS
  <2>2. w1 * p2 \in Nat /\ w2 * p1 \in Nat
    OBVIOUS
  <2>3. 10 * (w1 * p2) <= 10 * (w2 * p1)
    BY <2>2
  <2>4. QED
    BY <1>3, <2>1, <2>3
<1> DEFINE pp == p1 * p2
<1>5. /\ pp \in Nat /\ pp > 0
      /\ d1 * pp + r1 * p2 <= d2 * pp + r2 * p1
      /\ d1 * pp \in Nat /\ d2 * pp \in Nat /\ r1 * p2 \in Nat /\ r2 * p1 \in Nat
  <2>1. pp \in Nat /\ pp > 0
    OBVIOUS
  <2>2. (p1 * d1 + r1) * p2 = d1 * pp + r1 * p2 /\ (p2 * d2 + r2) * p1 = d2 * pp + r2 * p1
    BY <1>3
  <2>3. d1 * pp \in Nat /\ d2 * pp \in Nat /\ r1 * p2 \in Nat /\ r2 * p1 \in Nat
    BY <1>3, <2>1
  <2>4. QED
    BY <1>4, <2>1, <2>2, <2>3
<1>6. r2 * p1 < pp
  BY <1>3
<1> HIDE DEF pp
<1>7. d1 <= d2
  <2>1. SUFFICES ASSUME d1 >= d2 + 1 PROVE FALSE
    BY <1>3
  <2>2. d1 * pp >= (d2 + 1) * pp
    BY <1>3, <1>5, <2>1
  <2>3. (d2 + 1) * pp = d2 * pp + pp
    BY <1>3, <1>5
  <2>4. QED
    BY <1>5, <1>6, <2>2, <2>3
<1>8. ASSUME d1 < d2 PROVE t1 <= t2
  BY <1>2, <1>3, <1>8
<1>9. ASSUME d1 = d2 PROVE t1 <= t2
  <2>1. r1 * p2 <= r2 * p1
    BY <1>5, <1>9
  <2>2. ASSUME Up(d1, r1, p1) PROVE Up(d2, r2, p2)
    <3>1. CASE 2 * r1 > p1
      <4>1. (2 * r1) * p2 > p1 * p2
        BY <1>3, <3>1
      <4>2. (2 * r1) * p2 = 2 * (r1 * p2) /\ (2 * r2) * p1 = 2 * (r2 * p1)
        BY <1>3
      <4>3. (2 * r2) * p1 > p2 * p1
        BY <1>3, <1>5, <2>1, <4>1, <4>2
      <4>4. 2 * r2 > p2
        BY <1>3, <4>3
      <4>5. QED
        BY <4>4
    <3>2. CASE 2 * r1 = p1 /\ d1 % 2 = 1
      <4>1. (2 * r1) * p2 = p1 * p2
        BY <3>2
      <4>2. (2 * r1) * p2 = 2 * (r1 * p2) /\ (2 * r2) * p1 = 2 * (r2 * p1)
        BY <1>3
      <4>3. (2 * r2) * p1 >= p2 * p1
        BY <1>3, <1>5, <2>1, <4>1, <4>2
      <4>4. 2 * r2 >= p2
        BY <1>3, <4>3
      <4>5. d2 % 2 = 1
        BY <1>9, <3>2
      <4>6. QED
        BY <1>3, <4>4, <4>5
    <3>3. QED
      BY <2>2, <3>1, <3>2
  <2> HIDE DEF Up
  <2>3. QED
    BY <1>2, <1>3, <1>9, <2>2
<1>10. t1 <= t2 /\ t1 \in Nat /\ t2 \in Nat
  <2> HIDE DEF Up
  <2>1. t1 \in Nat /\ t2 \in Nat
    BY <1>2, <1>3
  <2>2. QED
    BY <1>3, <1>7, <1>8, <1>9, <2>1
<1>11. QED
  BY <1>10 DEF t1, t2

\* The flow of every packet was least advanced when the packet was laid out, and no flow
\* is given more packets than it has.
LeastAdvanced(layout, i, f, g) ==
  /\ Among(layout, i - 1, f) * pktnum(g) <= Among(layout, i - 1, g) * pktnum(f)
  /\ g < f => Among(layout, i - 1, f) * pktnum(g) < Among(layout, i - 1, g) * pktnum(f)

TurnBook ==
  /\ LayoutBook
  /\ \A f \in Flow : ptrs[f] <= pktnum(f)
  /\ \A i \in 1..Len(pkt_list), g \in Flow : LeastAdvanced(pkt_list, i, pkt_list[i], g)

LEMMA TurnsBegin == GraphInit => TurnBook
<1> SUFFICES ASSUME GraphInit PROVE TurnBook
  OBVIOUS
<1>1. LayoutBook
  BY LayoutBegins
<1>2. \A f \in Flow : ptrs[f] = 0 /\ pktnum(f) \in Nat
  <2>1. \A f \in Flow : ptrs[f] = 0
    BY DEF GraphInit, Flow
  <2>2. QED
    BY <1>1, <2>1, PacketsCounted DEF LayoutBook
<1>3. (1..Len(pkt_list)) = {}
  BY DEF GraphInit
<1>4. QED
  BY <1>1, <1>2, <1>3 DEF TurnBook

LEMMA LayKeepsTurns ==
  ASSUME TurnBook, NEW f \in Flow, Lay(f)
  PROVE  TurnBook'
<1> DEFINE n == Len(pkt_list)
<1>1. LayoutBook /\ GraphTypeOK /\ LayoutBook'
  BY LayKeepsBook DEF TurnBook, LayoutBook
<1>2. Flow' = Flow /\ \A g : pktnum(g)' = pktnum(g)
  <2>1. Flow' = Flow
    BY <1>1, LayTyped
  <2>2. QED
    BY <2>1 DEF Lay, pktnum
<1>3. /\ \A g \in Flow : pktnum(g) \in Nat /\ pktnum(g) >= 1 /\ ptrs[g] \in Nat
      /\ \A g \in Flow : ptrs[g] <= pktnum(g) /\ ptrs[g] = Among(pkt_list, n, g)
      /\ DOMAIN ptrs = Flow /\ n \in Nat
      /\ \A i \in 1..n : pkt_list[i] \in Flow
  BY <1>1, PacketsCounted DEF TurnBook, LayoutBook
<1>4. \A g \in Flow : ptrs'[g] = ptrs[g] + (IF g = f THEN 1 ELSE 0)
  BY <1>3 DEF Lay
<1>5. /\ Len(pkt_list') = n + 1 /\ pkt_list'[n + 1] = f
      /\ \A i \in 1..n : pkt_list'[i] = pkt_list[i]
  <2>1. pkt_list \in Seq(Flow) /\ pkt_list' = Append(pkt_list, f)
    BY <1>1 DEF GraphTypeOK, Lay
  <2> HIDE DEF Flow
  <2>2. QED
    BY <2>1
<1>6. ASSUME NEW g PROVE \A i \in 0..n : Among(pkt_list', i, g) = Among(pkt_list, i, g)
  <2>1. pkt_list \in Seq(Flow) /\ pkt_list' = Append(pkt_list, f)
    BY <1>1 DEF GraphTypeOK, Lay
  <2>2. \A i \in 0..Len(pkt_list) : Among(Append(pkt_list, f), i, g) = Among(pkt_list, i, g)
    <3> HIDE DEF Flow
    <3>1. QED
      BY <2>1, AmongPrefix
  <2>3. QED
    BY <2>1, <2>2
<1> HIDE DEF n
<1>7. \A g \in Flow : /\ ~(ptrs[g] * pktnum(f) < ptrs[f] * pktnum(g))
                      /\ g < f => ptrs[f] * pktnum(g) < ptrs[g] * pktnum(f)
  <2>1. \A g \in Flow : ~(ptrs[g] * pktnum(f) < ptrs[f] * pktnum(g))
    BY DEF Lay, IsNext, Behind
  <2>2. \A g \in Flow : g < f => g \in 1..(f - 1)
    <3>1. PICK m \in Nat : Flow = 1..m
      BY <1>1, GraphAssumption DEF GraphTypeOK, Flow
    <3>2. QED
      BY <3>1
  <2>3. \A g \in 1..(f - 1) : ptrs[f] * pktnum(g) < ptrs[g] * pktnum(f)
    BY DEF Lay, IsNext, Behind
  <2>4. QED
    BY <2>1, <2>2, <2>3
<1>8. \A g \in Flow : ptrs[f] * pktnum(g) <= ptrs[g] * pktnum(f)
  <2> TAKE g \in Flow
  <2>1. ptrs[f] * pktnum(g) \in Int /\ ptrs[g] * pktnum(f) \in Int
    BY <1>3
  <2>2. QED
    BY <1>7, <2>1
<1>9. \A g \in Flow : ptrs'[g] <= pktnum(g)'
  <2>1. ptrs[f] < pktnum(f)
    <3>1. PICK g \in Flow : ~(ptrs[g] >= pktnum(g))
      BY DEF Lay, Done
    <3>2. ptrs[g] < pktnum(g)
      BY <1>3, <3>1
    <3>3. ptrs[f] * pktnum(g) <= ptrs[g] * pktnum(f)
      BY <1>8
    <3>4. ptrs[g] * pktnum(f) < pktnum(g) * pktnum(f)
      <4>1. \A x, y, z \in Nat : x < y /\ z >= 1 => x * z < y * z
        OBVIOUS
      <4>2. QED
        BY <1>3, <3>2, <4>1
    <3>5. SUFFICES ASSUME pktnum(f) <= ptrs[f] PROVE FALSE
      BY <1>3
    <3>6. pktnum(f) * pktnum(g) <= ptrs[f] * pktnum(g)
      <4>1. \A x, y, z \in Nat : x <= y => x * z <= y * z
        OBVIOUS
      <4>2. QED
        BY <1>3, <3>5, <4>1
    <3>7. /\ pktnum(f) * pktnum(g) \in Int /\ pktnum(g) * pktnum(f) = pktnum(f) * pktnum(g)
          /\ ptrs[f] * pktnum(g) \in Int /\ ptrs[g] * pktnum(f) \in Int
      BY <1>3
    <3>8. QED
      BY <3>3, <3>4, <3>6, <3>7
  <2>2. QED
    BY <1>2, <1>3, <1>4, <2>1
<1>10. ASSUME NEW i \in 1..(n + 1), NEW g \in Flow
       PROVE  LeastAdvanced(pkt_list, i, pkt_list[i], g)'
  <2>1. CASE i \in 1..n
    <3>1. LeastAdvanced(pkt_list, i, pkt_list[i], g)
      BY <2>1 DEF TurnBook, n
    <3>2. i - 1 \in 0..n
      BY <1>3, <2>1
    <3>3. pkt_list'[i] = pkt_list[i]
      BY <1>5, <2>1
    <3>4. QED
      BY <1>2, <1>6, <3>1, <3>2, <3>3 DEF LeastAdvanced
  <2>2. CASE i = n + 1
    <3>1. i - 1 = n /\ n \in 0..n /\ pkt_list'[i] = f
      BY <1>3, <1>5, <2>2
    <3>2. Among(pkt_list', i - 1, f) = ptrs[f] /\ Among(pkt_list', i - 1, g) = ptrs[g]
      BY <1>3, <1>6, <3>1
    <3>3. QED
      BY <1>2, <1>7, <1>8, <3>1, <3>2 DEF LeastAdvanced
  <2>3. QED
    BY <1>3, <2>1, <2>2
<1>11. QED
  BY <1>1, <1>2, <1>5, <1>9, <1>10 DEF TurnBook

\* The complete layout of two flows of which the first has no fewer packets.
LEMMA TurnsOfTwo ==
  ASSUME TurnBook, Done, Flow = {1, 2}, pktnum(1) >= pktnum(2)
  PROVE  TwoFlows(pkt_list, pktnum(1), pktnum(2))
<1> DEFINE a == pktnum(1)
           b == pktnum(2)
           n == Len(pkt_list)
<1>1. /\ \A g \in Flow : pktnum(g) \in Nat /\ pktnum(g) >= 1 /\ ptrs[g] \in Nat
      /\ \A g \in Flow : ptrs[g] <= pktnum(g) /\ ptrs[g] = Among(pkt_list, n, g)
      /\ n \in Nat /\ \A at \in 1..n : pkt_list[at] \in Flow
  BY PacketsCounted DEF TurnBook, LayoutBook
<1>2. \A g \in Flow : Among(pkt_list, n, g) = pktnum(g)
  BY <1>1 DEF Done
<1>3. \A i \in 1..n, g \in Flow : LeastAdvanced(pkt_list, i, pkt_list[i], g)
  BY DEF TurnBook
<1>4. a \in Nat /\ b \in Nat /\ b >= 1 /\ b <= a
  BY <1>1
<1> HIDE DEF n
<1>5. n = a + b
  <2>1. \A e \in 0..n : Among(pkt_list, e, 1) + Among(pkt_list, e, 2) = e
    BY <1>1, AmongBoth
  <2>2. n \in 0..n
    BY <1>1
  <2>3. QED
    BY <1>2, <2>1, <2>2
<1>6. ASSUME NEW d \in 0..((a + b) - 1)
      PROVE  pkt_list[d + 1] = 1 <=> Lead(pkt_list, a, b, d) <= 0
  <2> DEFINE x == Among(pkt_list, d, 1)
             y == Among(pkt_list, d, 2)
  <2>1. d \in Nat /\ d + 1 \in 1..n /\ (d + 1) - 1 = d
    BY <1>4, <1>5
  <2>2. x \in Nat /\ y \in Nat
    BY <2>1, AmongNext
  <2>3. pkt_list[d + 1] \in {1, 2}
    BY <1>1, <2>1
  <2>4. Lead(pkt_list, a, b, d) = x * b - y * a
    BY DEF Lead
  <2>5. x * b \in Int /\ y * a \in Int
    BY <1>4, <2>2
  <2>6. CASE pkt_list[d + 1] = 1
    <3>1. LeastAdvanced(pkt_list, d + 1, 1, 2)
      BY <1>3, <2>1, <2>6
    <3>2. x * b <= y * a
      BY <2>1, <3>1 DEF LeastAdvanced
    <3> HIDE DEF x, y, a, b
    <3>3. QED
      BY <2>4, <2>5, <2>6, <3>2
  <2>7. CASE pkt_list[d + 1] = 2
    <3>1. LeastAdvanced(pkt_list, d + 1, 2, 1)
      BY <1>3, <2>1, <2>7
    <3>2. y * a < x * b
      BY <2>1, <3>1 DEF LeastAdvanced
    <3> HIDE DEF x, y, a, b
    <3>3. QED
      BY <2>4, <2>5, <2>7, <3>2
  <2>8. QED
    BY <2>3, <2>6, <2>7
<1>7. QED
  BY <1>1, <1>2, <1>4, <1>5, <1>6 DEF TwoFlows, n

LEMMA QueueDepthTyped ==
  ASSUME GraphTypeOK, NEW f \in Flow
  PROVE  queuedepth(f) \in Nat
<1> DEFINE e == entries[f]
           unpaused == e.packetNum - e.pfcPausedPacketNum
<1>1. e \in Entries
  BY DEF GraphTypeOK, Flow
<1>2. /\ e.packetNum \in 1..19 /\ e.enqQdepth \in Nat
      /\ e.pfcPausedPacketNum \in 0..e.packetNum
  BY <1>1, GraphAssumption
<1>3. unpaused \in Nat
  BY <1>2
<1>4. queuedepth(f) = IF unpaused = 0 THEN 0 ELSE e.enqQdepth \div unpaused
  BY DEF queuedepth, pktnum
<1> HIDE DEF e, unpaused
<1>5. unpaused # 0 => e.enqQdepth \div unpaused \in Nat
  BY <1>2, <1>3, Quotient
<1>6. QED
  BY <1>4, <1>5

\* What the script looks up under the name of a flow is that flow, where no two have the
\* same name.
LEMMA OwnRow ==
  ASSUME GraphTypeOK, IsInjective(flows), NEW f \in Flow
  PROVE  RowOf(flows[f]) = f /\ Occurrences(flows[f]) = 1
<1>1. PICK n \in Nat : Flow = 1..n /\ DOMAIN flows = Flow
  BY GraphAssumption DEF GraphTypeOK, Flow
<1>2. {g \in Flow : flows[g] = flows[f]} = {f}
  BY <1>1 DEF IsInjective
<1>3. Max({f}) = f
  BY <1>1 DEF Max
<1>4. QED
  BY <1>2, <1>3, FS_Singleton DEF RowOf, Occurrences

\* Two flows are the first and the second of the report.
LEMMA FirstAndSecond ==
  ASSUME GraphTypeOK, Cardinality(Flow) = 2
  PROVE  Flow = {1, 2}
<1>1. PICK n \in Nat : Flow = 1..n
  BY GraphAssumption DEF GraphTypeOK, Flow
<1>2. Cardinality(1..n) = n
  BY <1>1, FS_Interval
<1>3. n = 2
  BY <1>1, <1>2
<1>4. QED
  BY <1>1, <1>3

LEMMA TurnsBlame == TurnBook => HeavierFlowBlamed
<1> SUFFICES ASSUME TurnBook, Done, Cardinality(Flow) = 2, IsInjective(flows),
                    pktnum(1) >= pktnum(2), queuedepth(1) = queuedepth(2)
             PROVE  degree(flows[1]) >= degree(flows[2])
  BY DEF HeavierFlowBlamed
<1> DEFINE a == pktnum(1)
           b == pktnum(2)
           n == Len(pkt_list)
           q == queuedepth(1)
<1>1. GraphTypeOK
  BY DEF TurnBook, LayoutBook
<1>2. Flow = {1, 2}
  BY <1>1, FirstAndSecond
<1>3. TwoFlows(pkt_list, a, b)
  BY <1>2, TurnsOfTwo
<1>4. a \in Nat \ {0} /\ b \in Nat \ {0} /\ n = a + b /\ n \in Nat
  BY <1>3 DEF TwoFlows
<1>5. q \in Nat /\ queuedepth(2) = q
  BY <1>1, <1>2, QueueDepthTyped
<1>6. \A f, g \in Flow : /\ Waits(f, g) = Cardinality(Looks(pkt_list, n, f, g, q))
                         /\ Waits(f, g) \in Nat
  <2> SUFFICES ASSUME NEW f \in Flow, NEW g \in Flow
               PROVE  /\ Waits(f, g) = Cardinality(Looks(pkt_list, n, f, g, q))
                      /\ Waits(f, g) \in Nat
    OBVIOUS
  <2>1. queuedepth(f) = q
    BY <1>2, <1>5
  <2>2. DOMAIN pkt_list = 1..n
    BY <1>1 DEF GraphTypeOK
  <2>3. Waits(f, g) = Cardinality(Looks(pkt_list, n, f, g, q))
    BY <2>1, <2>2 DEF Waits, Looks
  <2> HIDE DEF n, q
  <2>4. Cardinality(Looks(pkt_list, n, f, g, q)) \in Nat
    BY <1>4, <1>5, LooksGrow
  <2>5. QED
    BY <2>3, <2>4
<1>7. Waits(1, 2) * b <= Waits(2, 1) * a
  <2>1. LET heavier == Cardinality(Looks(pkt_list, a + b, 1, 2, q))
            lighter == Cardinality(Looks(pkt_list, a + b, 2, 1, q))
        IN  heavier \in Nat /\ lighter \in Nat /\ heavier * b <= lighter * a
    <3> HIDE DEF a, b, q
    <3>1. QED
      BY <1>3, <1>5, LighterLooksMore
  <2>2. /\ Waits(1, 2) = Cardinality(Looks(pkt_list, a + b, 1, 2, q))
        /\ Waits(2, 1) = Cardinality(Looks(pkt_list, a + b, 2, 1, q))
    <3> HIDE DEF a, b, q, n
    <3>1. QED
      BY <1>2, <1>4, <1>6
  <2> HIDE DEF a, b, q, n
  <2>3. QED
    BY <2>1, <2>2
<1>8. \A f, g \in Flow : PerPacket(f, g) \in Nat
  <2> TAKE f \in Flow, g \in Flow
  <2>1. Waits(f, g) \in Nat /\ pktnum(f) \in Nat \ {0}
    BY <1>2, <1>4, <1>6
  <2>2. Waits(f, g) * pktnum(f) <= Waits(f, g) * pktnum(f)
    BY <2>1
  <2>3. RoundedTenths(Waits(f, g), pktnum(f)) \in Nat
    BY <2>1, <2>2, RoundingKeepsOrder
  <2>4. QED
    BY <2>3 DEF PerPacket
<1>9. PerPacket(1, 2) <= PerPacket(2, 1)
  <2>1. Waits(1, 2) \in Nat /\ Waits(2, 1) \in Nat
    BY <1>2, <1>6
  <2> HIDE DEF n, q
  <2>2. RoundedTenths(Waits(1, 2), a) <= RoundedTenths(Waits(2, 1), b)
    BY <1>4, <1>7, <2>1, RoundingKeepsOrder
  <2>3. QED
    BY <2>2 DEF PerPacket
<1>10. \A f, g \in Flow : pkt_waitfor(flows[f], flows[g]) = PerPacket(f, g)
  BY <1>1, OwnRow DEF pkt_waitfor
<1>11. \A f \in Flow : Occurrences(flows[f]) = 1
  BY <1>1, OwnRow
<1> HIDE DEF a, b, n, q
<1> DEFINE d == PerPacket(2, 1) - PerPacket(1, 2)
<1>12. d \in Int /\ d >= 0 /\ -d \in Int /\ 1 \in Flow /\ 2 \in Flow
  BY <1>2, <1>8, <1>9
<1>13. degree(flows[1]) = d
  <2>1. /\ 0 = pkt_waitfor(flows[1], flows[1]) - pkt_waitfor(flows[1], flows[1])
        /\ d = pkt_waitfor(flows[2], flows[1]) - pkt_waitfor(flows[1], flows[2])
    BY <1>8, <1>10, <1>12
  <2> HIDE DEF d
  <2>2. degree(flows[1]) = Occurrences(flows[1]) * (0 + d)
    BY <1>2, <1>12, <2>1, DegreeOfTwo
  <2>3. QED
    BY <1>11, <1>12, <2>2
<1>14. degree(flows[2]) = -d
  <2>1. /\ -d = pkt_waitfor(flows[1], flows[2]) - pkt_waitfor(flows[2], flows[1])
        /\ 0 = pkt_waitfor(flows[2], flows[2]) - pkt_waitfor(flows[2], flows[2])
    BY <1>8, <1>10, <1>12
  <2> HIDE DEF d
  <2>2. degree(flows[2]) = Occurrences(flows[2]) * (-d + 0)
    BY <1>2, <1>12, <2>1, DegreeOfTwo
  <2>3. QED
    BY <1>11, <1>12, <2>2
<1> HIDE DEF d
<1>15. QED
  BY <1>12, <1>13, <1>14

\* Of two flows that shared a queue, the one that sent more and is printed first is never
\* blamed less, whatever the counts and however long the queue (lines 20-44).  At every
\* distance the pairs of packets in the two orders differ in number as the ends of the
\* layout do (OrdersDiffer): there are more where the heavier flow waits only at distances
\* where it is far behind (EndsAlike), which are no more than it has packets more, and every
\* packet of the lighter flow waits for one of the heavier (SeldomFarBehind).
THEOREM HeavierBlamed == GraphSpec => []HeavierFlowBlamed
<1>1. TurnBook /\ [GraphNext]_graphVars => TurnBook'
  <2> SUFFICES ASSUME TurnBook, [GraphNext]_graphVars PROVE TurnBook'
    OBVIOUS
  <2>1. ASSUME NEW f \in Flow, Lay(f) PROVE TurnBook'
    BY <2>1, LayKeepsTurns
  <2>2. CASE UNCHANGED graphVars
    <3>1. /\ entries' = entries /\ flows' = flows /\ ptrs' = ptrs /\ pkt_list' = pkt_list
          /\ Flow' = Flow /\ \A f : pktnum(f)' = pktnum(f)
      BY <2>2 DEF graphVars, Flow, pktnum
    <3>2. GraphTypeOK'
      <4>1. GraphTypeOK
        BY DEF TurnBook, LayoutBook
      <4>2. QED
        BY <3>1, <4>1 DEF GraphTypeOK
    <3>3. LayoutBook'
      <4>1. \A l, i, f, g : InProportion(l, i, f, g)' <=> InProportion(l, i, f, g)
        BY <3>1 DEF InProportion, Among
      <4>2. /\ \A f \in Flow : ptrs[f] = Among(pkt_list, Len(pkt_list), f)
            /\ \A i \in 0..Len(pkt_list), f, g \in Flow : InProportion(pkt_list, i, f, g)
        BY DEF TurnBook, LayoutBook
      <4>3. \A f \in Flow : ptrs'[f] = Among(pkt_list', Len(pkt_list'), f)
        BY <3>1, <4>2
      <4>4. \A i \in 0..Len(pkt_list'), f, g \in Flow' : InProportion(pkt_list, i, f, g)'
        BY <3>1, <4>1, <4>2
      <4>5. QED
        BY <3>1, <3>2, <4>3, <4>4 DEF LayoutBook
    <3>4. \A f \in Flow : ptrs'[f] <= pktnum(f)'
      BY <3>1, Zenon DEF TurnBook
    <3>5. \A l, i, f, g : LeastAdvanced(l, i, f, g)' <=> LeastAdvanced(l, i, f, g)
      BY <3>1 DEF LeastAdvanced, Among
    <3>6. \A i \in 1..Len(pkt_list), g \in Flow : LeastAdvanced(pkt_list, i, pkt_list[i], g)
      BY DEF TurnBook
    <3>7. QED
      BY <3>1, <3>3, <3>4, <3>5, <3>6, Zenon DEF TurnBook
  <2>3. QED
    BY <2>1, <2>2 DEF GraphNext
<1>2. QED
  BY <1>1, TurnsBegin, TurnsBlame, PTL DEF GraphSpec
==============================================================================
