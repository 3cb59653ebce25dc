------------------------- MODULE RdmaTransport_proofs -------------------------
(***************************************************************************)
(* RdmaTransport implements Delivery: whatever is lost or overtaken, with  *)
(* and without going back to the start of a chunk, for flows, packets and  *)
(* windows of any size, as long as a packet is no larger than a chunk.     *)
(*                                                                         *)
(* The argument is that what the receiver will not throw away,             *)
(* Confirmable(expected), never shrinks, and that every acknowledgement on *)
(* its way claims no more than that (Promises).                            *)
(*                                                                         *)
(* In go-back-N, where nothing overtakes, the sender keeps ahead of the    *)
(* receiver (KeepsAhead): what is on the link is some packets the receiver *)
(* ignores, for the NACK that will answer the loss is outstanding or still *)
(* to come, and then a run of packets in order up to what was sent last.   *)
(***************************************************************************)
EXTENDS RdmaTransport, TLAPS

-----------------------------------------------------------------------------
(***************************************************************************)
(* Chunks.                                                                 *)
(***************************************************************************)
LEMMA ChunkStartBounds ==
  ASSUME NEW n \in Nat
  PROVE  /\ ChunkStart(n) \in Nat /\ n \div Chunk \in Nat
         /\ ChunkStart(n) <= n /\ n < ChunkStart(n) + Chunk
<1>1. Chunk \in Nat \ {0}
  BY TransportAssumption
<1>2. PICK q, r : q = n \div Chunk /\ r = n % Chunk
  OBVIOUS
<1>3. q \in Nat /\ r \in 0..(Chunk - 1) /\ n = Chunk * q + r
  <2>1. q \in Nat
    BY <1>1, <1>2
  <2>2. r \in 0..(Chunk - 1)
    BY <1>1, <1>2
  <2>3. n = Chunk * q + r
    BY <1>1, <1>2, <2>1, <2>2
  <2>4. QED
    BY <2>1, <2>2, <2>3
<1>4. ChunkStart(n) = q * Chunk
  BY <1>2 DEF ChunkStart
<1>5. q * Chunk = Chunk * q /\ q * Chunk \in Nat
  BY <1>1, <1>3
<1>6. ChunkStart(n) \in Nat /\ n = ChunkStart(n) + r
  BY <1>3, <1>4, <1>5
<1>7. ChunkStart(n) <= n /\ n < ChunkStart(n) + Chunk
  BY <1>1, <1>3, <1>6
<1>8. QED
  BY <1>2, <1>3, <1>6, <1>7

\* Nothing but a whole number of chunks lies between two starts of chunks.
LEMMA ChunkStartStep ==
  ASSUME NEW a \in Nat, NEW b \in Nat, a <= b, b <= a + Chunk
  PROVE  ChunkStart(b) - ChunkStart(a) \in {0, Chunk}
<1> DEFINE p == a \div Chunk
           q == b \div Chunk
<1>1. Chunk \in Nat \ {0}
  BY TransportAssumption
<1>2. /\ p \in Nat /\ q \in Nat
      /\ p * Chunk <= a /\ a < p * Chunk + Chunk
      /\ q * Chunk <= b /\ b < q * Chunk + Chunk
  BY ChunkStartBounds DEF ChunkStart
<1> HIDE DEF p, q
<1>3. p * Chunk \in Nat /\ q * Chunk \in Nat
  BY <1>1, <1>2
<1>4. (q - p) * Chunk = q * Chunk - p * Chunk
  BY <1>1, <1>2
<1>5. (q - p) * Chunk < 2 * Chunk /\ (q - p) * Chunk > -Chunk
  BY <1>1, <1>2, <1>3, <1>4
<1>6. q - p \in {0, 1}
  <2>1. ASSUME q - p >= 2 PROVE FALSE
    <3>1. (q - p) * Chunk >= 2 * Chunk
      BY <1>1, <1>2, <2>1
    <3>2. QED
      BY <1>1, <1>2, <1>3, <1>4, <1>5, <3>1
  <2>2. ASSUME q - p <= -1 PROVE FALSE
    <3>1. (q - p) * Chunk <= -Chunk
      BY <1>1, <1>2, <2>2
    <3>2. QED
      BY <1>1, <1>2, <1>3, <1>4, <1>5, <3>1
  <2>3. QED
    BY <1>2, <2>1, <2>2
<1>7. q * Chunk - p * Chunk \in {0, Chunk}
  BY <1>1, <1>2, <1>4, <1>6
<1>8. QED
  BY <1>7 DEF p, q, ChunkStart

\* The start of a chunk is its own start.
LEMMA ChunkStartAgain ==
  ASSUME NEW n \in Nat
  PROVE  ChunkStart(ChunkStart(n)) = ChunkStart(n)
<1> DEFINE q == n \div Chunk
           c == ChunkStart(n)
           p == c \div Chunk
<1>1. Chunk \in Nat \ {0}
  BY TransportAssumption
<1>2. q \in Nat /\ c \in Nat /\ c = q * Chunk
  BY ChunkStartBounds DEF ChunkStart
<1>3. p \in Nat /\ p * Chunk <= c /\ c < p * Chunk + Chunk /\ ChunkStart(c) = p * Chunk
  BY <1>2, ChunkStartBounds DEF ChunkStart
<1> HIDE DEF q, c, p
<1>4. p * Chunk \in Nat /\ (q - p) * Chunk = c - p * Chunk
  BY <1>1, <1>2, <1>3
<1>5. ASSUME q - p >= 1 PROVE FALSE
  <2>1. (q - p) * Chunk >= Chunk
    BY <1>1, <1>2, <1>3, <1>5
  <2>2. QED
    BY <1>1, <1>2, <1>3, <1>4, <2>1
<1>6. ASSUME q - p <= -1 PROVE FALSE
  <2>1. (q - p) * Chunk <= -Chunk
    BY <1>1, <1>2, <1>3, <1>6
  <2>2. QED
    BY <1>1, <1>2, <1>3, <1>4, <2>1
<1>7. q = p
  BY <1>2, <1>3, <1>5, <1>6
<1>8. QED
  BY <1>2, <1>3, <1>7 DEF c

LEMMA ConfirmableFacts ==
  ASSUME NEW n \in Nat
  PROVE  /\ Confirmable(n) \in Nat /\ Confirmable(n) <= n
         /\ Confirmable(Confirmable(n)) = Confirmable(n)
  BY ChunkStartBounds, ChunkStartAgain DEF Confirmable

-----------------------------------------------------------------------------
(***************************************************************************)
(* The invariant.                                                          *)
(***************************************************************************)
Packets == {p \in [seq : Nat, size : 1..Mtu] : p.seq + p.size <= Size}
Answers == [kind : {"ack", "nack"}, seq : 0..Size]

Delivered == IF complete THEN Size ELSE Confirmable(expected)

\* What is confirmed, or may be by an answer on its way, has been delivered.
Promises ==
  /\ snd_nxt \in 0..Size /\ snd_una \in 0..Size /\ expected \in 0..Size
  /\ complete \in BOOLEAN
  /\ data \in Seq(Packets) /\ acks \in Seq(Answers)
  /\ snd_una <= Delivered
  /\ ~complete => \A i \in DOMAIN acks : Confirmable(acks[i].seq) <= Confirmable(expected)

LEMMA InitPromises == Init => Promises
<1> SUFFICES ASSUME Init PROVE Promises
  OBVIOUS
<1>1. /\ snd_nxt = 0 /\ snd_una = 0 /\ complete = FALSE /\ expected = 0
      /\ data = <<>> /\ acks = <<>>
  BY DEF Init
<1>2. Size \in Nat
  BY TransportAssumption
<1>3. Confirmable(0) \in Nat
  BY ConfirmableFacts
<1>4. Delivered \in Nat
  BY <1>1, <1>3 DEF Delivered
<1>5. complete \in BOOLEAN
  BY <1>1, Zenon
<1>6. QED
  BY <1>1, <1>2, <1>4, <1>5 DEF Promises

\* Parts of a state the steps of the network and of the window leave alone.
LEMMA NetworkPromises ==
  ASSUME Promises, UNCHANGED <<snd_una, complete, expected, m_backto0>>,
         snd_nxt' \in 0..Size, data' \in Seq(Packets), acks' \in Seq(Answers),
         \A i \in DOMAIN acks' : \E j \in DOMAIN acks : acks'[i] = acks[j]
  PROVE  Promises' /\ Delivered' = Delivered
<1>1. \A n : Confirmable(n)' = Confirmable(n)
  BY DEF Confirmable, ChunkStart
<1>2. Delivered' = Delivered
  BY <1>1 DEF Delivered
<1>3. QED
  BY <1>1, <1>2 DEF Promises

-----------------------------------------------------------------------------
(***************************************************************************)
(* The steps.                                                              *)
(***************************************************************************)
LEMMA RemoveAtPlaces ==
  ASSUME NEW S, NEW s \in Seq(S), NEW i \in DOMAIN s
  PROVE  /\ RemoveAt(s, i) \in Seq(S)
         /\ Len(RemoveAt(s, i)) = Len(s) - 1
         /\ \A k \in 1..(Len(s) - 1) :
              RemoveAt(s, i)[k] = IF k < i THEN s[k] ELSE s[k + 1]
<1> DEFINE a == SubSeq(s, 1, i - 1)
           b == SubSeq(s, i + 1, Len(s))
<1>1. i \in 1..Len(s) /\ Len(s) \in Nat
  OBVIOUS
<1>2. /\ a \in Seq(S) /\ Len(a) = i - 1
      /\ \A k \in 1..(i - 1) : a[k] = s[k]
  BY <1>1
<1>3. /\ b \in Seq(S) /\ Len(b) = Len(s) - i
      /\ \A k \in 1..(Len(s) - i) : b[k] = s[k + i]
  BY <1>1
<1>4. RemoveAt(s, i) = a \o b
  BY DEF RemoveAt
<1> HIDE DEF a, b
<1>5. /\ a \o b \in Seq(S) /\ Len(a \o b) = Len(s) - 1
      /\ \A k \in 1..(Len(s) - 1) :
           (a \o b)[k] = IF k < i THEN s[k] ELSE s[k + 1]
  BY <1>1, <1>2, <1>3
<1>6. QED
  BY <1>4, <1>5

LEMMA RemoveAtType ==
  ASSUME NEW S, NEW s \in Seq(S), NEW i \in DOMAIN s
  PROVE  /\ RemoveAt(s, i) \in Seq(S)
         /\ \A k \in DOMAIN RemoveAt(s, i) : \E j \in DOMAIN s : RemoveAt(s, i)[k] = s[j]
<1>1. i \in 1..Len(s) /\ Len(s) \in Nat /\ DOMAIN s = 1..Len(s)
  OBVIOUS
<1>2. /\ RemoveAt(s, i) \in Seq(S)
      /\ DOMAIN RemoveAt(s, i) = 1..(Len(s) - 1)
      /\ \A k \in 1..(Len(s) - 1) :
           RemoveAt(s, i)[k] = IF k < i THEN s[k] ELSE s[k + 1]
  <2> DEFINE r == RemoveAt(s, i)
  <2>1. r \in Seq(S) /\ Len(r) = Len(s) - 1
    BY RemoveAtPlaces
  <2> HIDE DEF r
  <2>2. DOMAIN r = 1..(Len(s) - 1)
    BY <2>1
  <2>3. QED
    BY <2>1, <2>2, RemoveAtPlaces DEF r
<1>3. \A k \in 1..(Len(s) - 1) : k \in 1..Len(s) /\ k + 1 \in 1..Len(s)
  BY <1>1
<1>4. QED
  BY <1>1, <1>2, <1>3

LEMMA SwapType ==
  ASSUME NEW S, NEW s \in Seq(S), NEW i \in 1..(Len(s) - 1)
  PROVE  /\ SwapWithNext(s, i) \in Seq(S)
         /\ \A k \in DOMAIN SwapWithNext(s, i) :
              \E j \in DOMAIN s : SwapWithNext(s, i)[k] = s[j]
  BY DEF SwapWithNext

LEMMA SendOutcome ==
  ASSUME Promises, Send
  PROVE  Promises' /\ Delivered' = Delivered /\ snd_una' = snd_una
<1> DEFINE payload == IF Mtu < GetBytesLeft THEN Mtu ELSE GetBytesLeft
<1>1. /\ Size \in Nat /\ Mtu \in Nat \ {0} /\ snd_nxt \in 0..Size
      /\ data \in Seq(Packets) /\ acks \in Seq(Answers)
  BY TransportAssumption DEF Promises
<1>2. /\ GetBytesLeft > 0 /\ GetBytesLeft = Size - snd_nxt
      /\ data' = Append(data, [seq |-> snd_nxt, size |-> payload])
      /\ snd_nxt' = snd_nxt + payload
      /\ UNCHANGED <<snd_una, complete, expected, m_backto0, acks>>
  BY <1>1 DEF Send, CanSend, GetBytesLeft, receiver, rest, setting
<1>3. payload \in 1..Mtu /\ snd_nxt + payload <= Size
  BY <1>1, <1>2
<1> HIDE DEF payload
<1>4. [seq |-> snd_nxt, size |-> payload] \in Packets
  BY <1>1, <1>3 DEF Packets
<1>5. data' \in Seq(Packets) /\ snd_nxt' \in 0..Size
  BY <1>1, <1>2, <1>3, <1>4
<1>6. QED
  BY <1>1, <1>2, <1>5, NetworkPromises

LEMMA LoseOutcome ==
  ASSUME Promises, Lose
  PROVE  Promises' /\ Delivered' = Delivered /\ snd_una' = snd_una
<1>1. /\ UNCHANGED <<snd_nxt, snd_una, complete, expected, m_backto0>>
      /\ snd_nxt \in 0..Size /\ data \in Seq(Packets) /\ acks \in Seq(Answers)
  BY DEF Lose, sender, receiver, setting, Promises
<1>2. CASE \E i \in DOMAIN data : data' = RemoveAt(data, i) /\ acks' = acks
  BY <1>1, <1>2, RemoveAtType, NetworkPromises
<1>3. CASE \E i \in DOMAIN acks : acks' = RemoveAt(acks, i) /\ data' = data
  BY <1>1, <1>3, RemoveAtType, NetworkPromises
<1>4. QED
  BY <1>2, <1>3 DEF Lose

LEMMA OvertakeOutcome ==
  ASSUME Promises, Overtake
  PROVE  Promises' /\ Delivered' = Delivered /\ snd_una' = snd_una
<1>1. /\ UNCHANGED <<snd_nxt, snd_una, complete, expected, m_backto0>>
      /\ snd_nxt \in 0..Size /\ data \in Seq(Packets) /\ acks \in Seq(Answers)
  BY DEF Overtake, sender, receiver, setting, Promises
<1>2. CASE \E i \in 1..(Len(data) - 1) : data' = SwapWithNext(data, i) /\ acks' = acks
  BY <1>1, <1>2, SwapType, NetworkPromises
<1>3. CASE \E i \in 1..(Len(acks) - 1) : acks' = SwapWithNext(acks, i) /\ data' = data
  BY <1>1, <1>3, SwapType, NetworkPromises
<1>4. QED
  BY <1>2, <1>3 DEF Overtake

LEMMA QuietOutcome ==
  ASSUME Promises, ChangeRate \/ NackTimerExpires \/ ReceiveStrayAck \/ UNCHANGED vars
  PROVE  Promises' /\ Delivered' = Delivered /\ snd_una' = snd_una
<1>1. /\ UNCHANGED <<snd_nxt, snd_una, complete, expected, m_backto0, data>>
      /\ snd_nxt \in 0..Size /\ data \in Seq(Packets) /\ acks \in Seq(Answers)
      /\ acks' = acks \/ (acks # <<>> /\ acks' = Tail(acks))
  BY DEF ChangeRate, NackTimerExpires, ReceiveStrayAck, vars, sender, receiver, network,
         rest, setting, Promises
<1>2. /\ acks' \in Seq(Answers)
      /\ \A i \in DOMAIN acks' : \E j \in DOMAIN acks : acks'[i] = acks[j]
  <2>1. CASE acks' = acks
    BY <1>1, <2>1
  <2>2. CASE acks # <<>> /\ acks' = Tail(acks)
    <3>1. \A i \in DOMAIN acks' : i + 1 \in DOMAIN acks /\ acks'[i] = acks[i + 1]
      BY <1>1, <2>2
    <3>2. QED
      BY <1>1, <2>2, <3>1
  <2>3. QED
    BY <1>1, <2>1, <2>2
<1>3. QED
  BY <1>1, <1>2, NetworkPromises

\* A packet that is taken adds at most a chunk to what is delivered; a NACK, or a packet
\* that is not taken, adds nothing and takes nothing away.
LEMMA ReceiveUdpOutcome ==
  ASSUME m_backto0 => Mtu <= Chunk, Promises, ReceiveUdp
  PROVE  /\ Promises' /\ snd_una' = snd_una
         /\ \/ Delivered' = Delivered
            \/ Delivered' - Delivered \in 1..Larger(Mtu, Chunk) /\ Delivered' <= Size
<1> DEFINE packet == Head(data)
<1>1. /\ Size \in Nat /\ Mtu \in Nat /\ Chunk \in Nat \ {0}
      /\ snd_nxt \in 0..Size /\ snd_una \in 0..Size
      /\ expected \in 0..Size /\ complete \in BOOLEAN
      /\ data \in Seq(Packets) /\ acks \in Seq(Answers)
  BY TransportAssumption DEF Promises
<1>2. /\ data # <<>> /\ data' = Tail(data)
      /\ UNCHANGED <<snd_nxt, snd_una, win, complete, m_backto0>>
      /\ Accept(packet) \/ Nack(packet) \/ Ignore(packet)
  BY DEF ReceiveUdp, sender, rest, setting
<1>3. data' \in Seq(Packets) /\ packet \in Packets
  BY <1>1, <1>2
<1>4. /\ packet.seq \in Nat /\ packet.size \in 1..Mtu
      /\ packet.seq + packet.size \in 0..Size
  BY <1>1, <1>3 DEF Packets
<1> HIDE DEF packet
<1>5. \A n : Confirmable(n)' = Confirmable(n)
  BY <1>2 DEF Confirmable, ChunkStart
<1>6. CASE expected' = expected /\ acks' = acks
  BY <1>1, <1>2, <1>3, <1>5, <1>6 DEF Promises, Delivered
<1>7. CASE Accept(packet)
  <2> DEFINE next == packet.seq + packet.size
  <2>1. /\ packet.seq = expected /\ expected' = next
        /\ \/ acks' = Append(acks, [kind |-> "ack", seq |-> next])
           \/ acks' = acks
    BY <1>7 DEF Accept, InOrder
  <2>2. next \in 0..Size /\ next > expected /\ next <= expected + Mtu
    BY <1>1, <1>4, <2>1
  <2> HIDE DEF next
  <2>3. /\ Confirmable(next) \in Nat /\ Confirmable(expected) \in Nat
        /\ Confirmable(next) <= next
    BY <1>1, <2>2, ConfirmableFacts
  <2>4. Confirmable(next) - Confirmable(expected) \in 0..Larger(Mtu, Chunk)
    <3>1. CASE m_backto0
      <4>1. next <= expected + Chunk
        BY <1>1, <2>2, <3>1
      <4>2. ChunkStart(next) - ChunkStart(expected) \in {0, Chunk}
        BY <1>1, <2>2, <4>1, ChunkStartStep
      <4>3. QED
        BY <1>1, <3>1, <4>2 DEF Confirmable, Larger
    <3>2. CASE ~m_backto0
      BY <1>1, <2>2, <3>2 DEF Confirmable, Larger
    <3>3. QED
      BY <3>1, <3>2
  <2>5. [kind |-> "ack", seq |-> next] \in Answers
    BY <2>2 DEF Answers
  <2>6. acks' \in Seq(Answers)
    BY <1>1, <2>1, <2>5
  <2>7. ~complete => \A i \in DOMAIN acks' : Confirmable(acks'[i].seq) <= Confirmable(next)
    <3> SUFFICES ASSUME ~complete, NEW i \in DOMAIN acks'
                 PROVE  Confirmable(acks'[i].seq) <= Confirmable(next)
      OBVIOUS
    <3>1. CASE i \in DOMAIN acks /\ acks'[i] = acks[i]
      <4>1. Confirmable(acks[i].seq) <= Confirmable(expected)
        BY <3>1 DEF Promises
      <4>2. acks[i] \in Answers /\ acks[i].seq \in Nat
        <5>1. acks[i] \in Answers
          BY <1>1, <3>1
        <5>2. QED
          BY <5>1 DEF Answers
      <4>3. Confirmable(acks[i].seq) \in Nat
        BY <4>2, ConfirmableFacts
      <4>4. QED
        BY <1>1, <2>3, <2>4, <3>1, <4>1, <4>3
    <3>2. CASE acks'[i] = [kind |-> "ack", seq |-> next]
      BY <2>3, <3>2
    <3>3. \/ i \in DOMAIN acks /\ acks'[i] = acks[i]
          \/ acks'[i] = [kind |-> "ack", seq |-> next]
      <4>1. CASE acks' = acks
        BY <4>1
      <4>2. CASE acks' = Append(acks, [kind |-> "ack", seq |-> next])
        BY <1>1, <2>5, <4>2
      <4>3. QED
        BY <2>1, <4>1, <4>2
    <3>4. QED
      BY <3>1, <3>2, <3>3
  <2>8. Delivered' = IF complete THEN Size ELSE Confirmable(next)
    BY <1>2, <1>5, <2>1 DEF Delivered
  <2>9. snd_una' <= Delivered'
    <3>1. snd_una <= Delivered
      BY DEF Promises
    <3>2. QED
      BY <1>1, <1>2, <2>3, <2>4, <2>8, <3>1 DEF Delivered
  <2>10. Promises'
    BY <1>1, <1>2, <1>3, <1>5, <2>1, <2>2, <2>6, <2>7, <2>9 DEF Promises
  <2>11. \/ Delivered' = Delivered
         \/ Delivered' - Delivered \in 1..Larger(Mtu, Chunk) /\ Delivered' <= Size
    <3>1. CASE complete
      BY <2>8, <3>1 DEF Delivered
    <3>2. CASE ~complete
      <4>1. Delivered' = Confirmable(next) /\ Delivered = Confirmable(expected)
        BY <2>8, <3>2 DEF Delivered
      <4>2. Confirmable(next) <= Size
        BY <1>1, <2>2, <2>3
      <4>3. QED
        BY <1>1, <2>3, <2>4, <4>1, <4>2 DEF Larger
    <3>3. QED
      BY <3>1, <3>2
  <2>12. QED
    BY <1>2, <2>10, <2>11
<1>8. CASE Nack(packet)
  <2>1. /\ expected' = Confirmable(expected)
        /\ acks' = Append(acks, [kind |-> "nack", seq |-> Confirmable(expected)])
    BY <1>8 DEF Nack, RewindReceiver
  <2>2. /\ Confirmable(expected) \in 0..Size
        /\ Confirmable(Confirmable(expected)) = Confirmable(expected)
    BY <1>1, ConfirmableFacts
  <2>3. [kind |-> "nack", seq |-> Confirmable(expected)] \in Answers
    BY <2>2 DEF Answers
  <2>4. acks' \in Seq(Answers)
    BY <1>1, <2>1, <2>3
  <2>5. ~complete =>
          \A i \in DOMAIN acks' : Confirmable(acks'[i].seq) <= Confirmable(expected)
    <3> SUFFICES ASSUME ~complete, NEW i \in DOMAIN acks'
                 PROVE  Confirmable(acks'[i].seq) <= Confirmable(expected)
      OBVIOUS
    <3>1. CASE i \in DOMAIN acks /\ acks'[i] = acks[i]
      BY <3>1 DEF Promises
    <3>2. CASE acks'[i] = [kind |-> "nack", seq |-> Confirmable(expected)]
      BY <2>2, <3>2
    <3>3. QED
      BY <1>1, <2>1, <2>3, <3>1, <3>2
  <2>6. Delivered' = Delivered
    BY <1>2, <1>5, <2>1, <2>2 DEF Delivered
  <2>7. Promises'
    BY <1>1, <1>2, <1>3, <1>5, <2>1, <2>2, <2>4, <2>5, <2>6 DEF Promises
  <2>8. QED
    BY <1>2, <2>6, <2>7
<1>9. QED
  BY <1>2, <1>6, <1>7, <1>8 DEF Ignore, receiver

\* An answer confirms no more than is delivered, and completes a flow only when all of it is.
LEMMA ReceiveAckOutcome ==
  ASSUME Promises, ReceiveAck
  PROVE  /\ Promises' /\ Delivered' = Delivered
         /\ snd_una' \in snd_una..Delivered
<1> DEFINE ack == Head(acks)
           una == Acknowledge(ack.seq)
<1>1. /\ Size \in Nat /\ snd_nxt \in 0..Size /\ snd_una \in 0..Size
      /\ expected \in 0..Size /\ complete \in BOOLEAN
      /\ data \in Seq(Packets) /\ acks \in Seq(Answers)
  BY TransportAssumption DEF Promises
<1>2. /\ acks # <<>> /\ ~complete /\ acks' = Tail(acks)
      /\ snd_una' = una
      /\ snd_nxt' \in {una, snd_nxt}
      /\ complete' = (una >= Size)
      /\ complete' => expected' = 0
      /\ ~complete' => expected' = expected
      /\ UNCHANGED <<data, m_backto0>>
  BY DEF ReceiveAck, RecoverQueue, IsFinished, receiver, rest, setting
<1>3. 1 \in DOMAIN acks /\ ack = acks[1] /\ ack.seq \in Nat
  <2>1. 1 \in DOMAIN acks /\ ack = acks[1] /\ ack \in Answers
    BY <1>1, <1>2
  <2>2. QED
    BY <2>1 DEF Answers
<1>4. /\ Confirmable(ack.seq) \in Nat /\ Confirmable(expected) \in Nat
      /\ Confirmable(expected) <= expected
  BY <1>1, <1>3, ConfirmableFacts
<1>5. Delivered = Confirmable(expected)
  BY <1>2 DEF Delivered
<1>6. Confirmable(ack.seq) <= Delivered /\ snd_una <= Delivered
  BY <1>2, <1>3, <1>5 DEF Promises
<1>7. una \in snd_una..Delivered
  BY <1>1, <1>4, <1>5, <1>6 DEF Acknowledge, Larger
<1> HIDE DEF ack, una
<1>8. una \in 0..Size
  BY <1>1, <1>4, <1>5, <1>7
<1>9. \A n : Confirmable(n)' = Confirmable(n)
  BY <1>2 DEF Confirmable, ChunkStart
<1>10. Delivered' = Delivered
  <2>1. CASE complete'
    <3>1. una >= Size
      BY <1>2, <2>1
    <3>2. Delivered = Size
      BY <1>1, <1>4, <1>5, <1>7, <3>1
    <3>3. QED
      BY <2>1, <3>2 DEF Delivered
  <2>2. CASE ~complete'
    BY <1>2, <1>9, <2>2 DEF Delivered
  <2>3. QED
    BY <2>1, <2>2
<1>11. /\ acks' \in Seq(Answers)
       /\ \A i \in DOMAIN acks' : i + 1 \in DOMAIN acks /\ acks'[i] = acks[i + 1]
  BY <1>1, <1>2
<1>12. ~complete' =>
         \A i \in DOMAIN acks' : Confirmable(acks'[i].seq) <= Confirmable(expected)
  BY <1>2, <1>11 DEF Promises
<1>13. complete' \in BOOLEAN
  BY <1>2
<1>14. expected' \in 0..Size
  BY <1>1, <1>2
<1>15. snd_una' <= Delivered'
  BY <1>2, <1>7, <1>10
<1>16. Promises'
  BY <1>1, <1>2, <1>8, <1>9, <1>11, <1>12, <1>13, <1>14, <1>15 DEF Promises
<1>17. QED
  BY <1>2, <1>7, <1>10, <1>16

-----------------------------------------------------------------------------
LEMMA NextPromises ==
  (m_backto0 => Mtu <= Chunk) /\ Promises /\ [Next]_vars => Promises'
<1> SUFFICES ASSUME m_backto0 => Mtu <= Chunk, Promises, [Next]_vars PROVE Promises'
  OBVIOUS
<1>1. QED
  BY SendOutcome, LoseOutcome, OvertakeOutcome, QuietOutcome, ReceiveUdpOutcome,
     ReceiveAckOutcome DEF Next

\* Every step of the transport is a delivery, a confirmation, or neither.
LEMMA NextDelivers ==
  ASSUME Mtu <= Chunk
  PROVE  Promises /\ [Next]_vars
           => [InOrderDelivery!Deliver \/ InOrderDelivery!Confirm]_InOrderDelivery!dvars
<1> SUFFICES ASSUME Promises, [Next]_vars
             PROVE  \/ InOrderDelivery!Deliver \/ InOrderDelivery!Confirm
                    \/ UNCHANGED InOrderDelivery!dvars
  OBVIOUS
<1>1. CASE Delivered' = Delivered /\ snd_una' = snd_una
  BY <1>1 DEF InOrderDelivery!dvars, Delivered
<1>2. CASE ReceiveUdp
  <2>1. \/ Delivered' = Delivered /\ snd_una' = snd_una
        \/ /\ Delivered' - Delivered \in 1..Larger(Mtu, Chunk) /\ Delivered' <= Size
           /\ snd_una' = snd_una
    BY <1>2, ReceiveUdpOutcome
  <2>2. ASSUME Delivered' - Delivered \in 1..Larger(Mtu, Chunk), Delivered' <= Size,
               snd_una' = snd_una
        PROVE  InOrderDelivery!Deliver
    <3>1. Delivered \in Nat /\ Delivered' \in Nat
      <4>1. Promises /\ Promises'
        BY <1>2, ReceiveUdpOutcome
      <4>2. Size \in Nat
        BY TransportAssumption
      <4>3. Delivered \in Nat
        BY <4>1, <4>2, ConfirmableFacts DEF Delivered, Promises
      <4>4. \A n \in Nat : Confirmable(n)' \in Nat
        <5>1. \A n : Confirmable(n)' = Confirmable(n)
          BY <1>2 DEF ReceiveUdp, rest, setting, Confirmable, ChunkStart
        <5>2. QED
          BY <5>1, ConfirmableFacts
      <4>5. Delivered' \in Nat
        BY <4>1, <4>2, <4>4 DEF Delivered, Promises
      <4>6. QED
        BY <4>3, <4>5
    <3>2. PICK n \in 1..Larger(Mtu, Chunk) : n = Delivered' - Delivered
      BY <2>2
    <3>3. Delivered + n = Delivered'
      <4>1. \A a \in Nat, b \in Nat : a + (b - a) = b
        OBVIOUS
      <4>2. Delivered + (Delivered' - Delivered) = Delivered'
        BY <3>1, <4>1, Zenon
      <4>3. QED
        BY <3>2, <4>2, Zenon
    <3>4. Delivered + n <= Size
      BY <2>2, <3>3
    <3>5. QED
      BY <2>2, <3>3, <3>4 DEF InOrderDelivery!Deliver, Delivered
  <2>3. QED
    BY <1>1, <2>1, <2>2
<1>3. CASE ReceiveAck
  <2>1. Delivered' = Delivered /\ snd_una' \in snd_una..Delivered
    BY <1>3, ReceiveAckOutcome
  <2>2. snd_una \in Nat
    BY TransportAssumption DEF Promises
  <2>3. CASE snd_una' = snd_una
    BY <1>1, <2>1, <2>3
  <2>4. CASE snd_una' # snd_una
    <3>1. snd_una' \in (snd_una + 1)..Delivered
      BY <2>1, <2>2, <2>4
    <3>2. QED
      BY <2>1, <3>1 DEF InOrderDelivery!Confirm, Delivered
  <2>5. QED
    BY <2>3, <2>4
<1>4. QED
  BY <1>1, <1>2, <1>3, SendOutcome, LoseOutcome, OvertakeOutcome, QuietOutcome DEF Next

\* Whatever the network loses or reorders, the transport delivers in order, confirms only
\* what it has delivered for good, and completes a flow only when it is delivered.
THEOREM TransportImplementsDelivery ==
  ASSUME Mtu <= Chunk
  PROVE  Spec => ImplementsDelivery
<1>1. Init => InOrderDelivery!Init
  <2> SUFFICES ASSUME Init PROVE InOrderDelivery!Init
    OBVIOUS
  <2>1. ~complete /\ expected = 0 /\ snd_una = 0
    BY DEF Init
  <2>2. Confirmable(0) = 0
    BY ConfirmableFacts
  <2>3. QED
    BY <2>1, <2>2 DEF InOrderDelivery!Init
<1>2. QED
  BY <1>1, InitPromises, NextPromises, NextDelivers, PTL
     DEF Spec, ImplementsDelivery, InOrderDelivery!Spec

-----------------------------------------------------------------------------
(***************************************************************************)
(* Go-back-N where nothing overtakes and the NACK interval outlasts what   *)
(* is in flight: the sender keeps ahead of the receiver.                   *)
(***************************************************************************)
Ends(packet) == packet.seq + packet.size

\* A gap is not reported again.
Suppressed == nackTimer /\ lastNACK = expected

\* On the link are k packets from before the last NACK was obeyed, which the receiver
\* will ignore, and behind them what was sent since, one packet after another.
RunBehind(k) ==
  /\ k > 0 => Suppressed
  /\ \A i \in 1..Len(data) : i <= k => data[i].seq > expected
  /\ \A i \in 1..Len(data) : i > k => data[i].seq >= expected /\ Ends(data[i]) <= snd_nxt
  /\ \A i, j \in 1..Len(data) : k < i /\ i < j => Ends(data[i]) <= data[j].seq

IsNack(i) == acks[i].kind = "nack"

\* There is one NACK at most, it says where the receiver still stands, and the sender,
\* which has not seen it, is beyond that place with all its packets.
NackStands ==
  \A i \in 1..Len(acks) : IsNack(i) =>
    /\ acks[i].seq = expected /\ Suppressed /\ snd_nxt > expected
    /\ \A j \in 1..Len(data) : data[j].seq > expected
    /\ \A j \in 1..Len(acks) : IsNack(j) => j = i

InStep ==
  IF complete
  THEN snd_nxt = Size /\ snd_una = Size /\ data = <<>>
  ELSE /\ snd_una <= expected /\ expected <= snd_nxt
       /\ \A i \in 1..Len(acks) : acks[i].seq <= expected
       /\ NackStands
       /\ \E k \in 0..Len(data) : RunBehind(k)

KeepsAhead ==
  /\ overtakes \in Nat
  /\ ~m_backto0 => Promises
  /\ Orderly /\ ~m_backto0 => InStep

LEMMA InitKeepsAhead == Init => KeepsAhead
<1> SUFFICES ASSUME Init PROVE KeepsAhead
  OBVIOUS
<1>1. /\ snd_nxt = 0 /\ snd_una = 0 /\ ~complete /\ expected = 0
      /\ data = <<>> /\ acks = <<>> /\ overtakes = 0
  BY DEF Init
<1>2. Len(data) = 0 /\ Len(acks) = 0 /\ 1..0 = {} /\ 0 \in 0..0
  BY <1>1
<1>3. RunBehind(0) /\ NackStands
  BY <1>2 DEF RunBehind, NackStands
<1>4. InStep
  BY <1>1, <1>2, <1>3 DEF InStep
<1>5. QED
  BY <1>1, <1>4, InitPromises DEF KeepsAhead

LEMMA TransportTypes ==
  ASSUME Promises
  PROVE  /\ Size \in Nat /\ Mtu \in Nat \ {0}
         /\ snd_nxt \in 0..Size /\ snd_una \in 0..Size /\ expected \in 0..Size
         /\ complete \in BOOLEAN
         /\ data \in Seq(Packets) /\ acks \in Seq(Answers)
         /\ \A i \in 1..Len(data) : /\ data[i].seq \in Nat /\ data[i].size \in Nat \ {0}
                                   /\ Ends(data[i]) <= Size
         /\ \A i \in 1..Len(acks) : acks[i].seq \in Nat
<1>1. \A i \in 1..Len(data) : data[i] \in Packets
  BY DEF Promises
<1>2. \A i \in 1..Len(acks) : acks[i] \in Answers
  BY DEF Promises
<1>3. \A p \in Packets : p.seq \in Nat /\ p.size \in Nat \ {0} /\ Ends(p) <= Size
  BY TransportAssumption DEF Packets, Ends
<1>4. \A a \in Answers : a.seq \in Nat
  BY TransportAssumption DEF Answers
<1>5. /\ \A i \in 1..Len(data) : /\ data[i].seq \in Nat /\ data[i].size \in Nat \ {0}
                                 /\ Ends(data[i]) <= Size
      /\ \A i \in 1..Len(acks) : acks[i].seq \in Nat
  BY <1>1, <1>2, <1>3, <1>4, Zenon
<1>6. Size \in Nat /\ Mtu \in Nat \ {0}
  BY TransportAssumption
<1>7. /\ snd_nxt \in 0..Size /\ snd_una \in 0..Size /\ expected \in 0..Size
      /\ complete \in BOOLEAN
      /\ data \in Seq(Packets) /\ acks \in Seq(Answers)
  BY DEF Promises
<1>8. QED
  BY <1>5, <1>6, <1>7, Zenon

LEMMA LenType ==
  ASSUME NEW S, NEW s \in Seq(S)
  PROVE  Len(s) \in Nat /\ DOMAIN s = 1..Len(s) /\ \A i \in 1..Len(s) : s[i] \in S
  OBVIOUS

\* A packet taken from the link, lost or received, leaves a run behind what is stale.
LEMMA RunShortened ==
  ASSUME data \in Seq(Packets), data' \in Seq(Packets),
         NEW k \in 0..Len(data), RunBehind(k), NEW i \in 1..Len(data),
         Len(data') = Len(data) - 1,
         \A m \in 1..Len(data') : data'[m] = IF m < i THEN data[m] ELSE data[m + 1],
         expected' = expected, snd_nxt' = snd_nxt, Suppressed => Suppressed'
  PROVE  \E n \in 0..Len(data') : RunBehind(n)'
<1> DEFINE n == IF i <= k THEN k - 1 ELSE k
           Source(m) == IF m < i THEN m ELSE m + 1
<1>1. Len(data) \in Nat /\ Len(data') \in Nat /\ n \in 0..Len(data')
  BY LenType
<1>2. \A m \in 1..Len(data') :
        /\ Source(m) \in 1..Len(data) /\ data'[m] = data[Source(m)]
        /\ m <= n => Source(m) <= k
        /\ m > n => Source(m) > k
  BY <1>1
<1>3. \A m, o \in 1..Len(data') : m < o => Source(m) < Source(o)
  BY <1>1
<1>4. n > 0 => k > 0
  BY <1>1
<1> HIDE DEF n, Source
<1>5. n > 0 => Suppressed'
  BY <1>4 DEF RunBehind
<1>6. \A m \in 1..Len(data') : m <= n => data'[m].seq > expected'
  BY <1>2 DEF RunBehind
<1>7. \A m \in 1..Len(data') :
        m > n => data'[m].seq >= expected' /\ Ends(data'[m]) <= snd_nxt'
  BY <1>2 DEF RunBehind, Ends
<1>8. \A m, o \in 1..Len(data') : n < m /\ m < o => Ends(data'[m]) <= data'[o].seq
  <2> SUFFICES ASSUME NEW m \in 1..Len(data'), NEW o \in 1..Len(data'), n < m, m < o
               PROVE  Ends(data'[m]) <= data'[o].seq
    OBVIOUS
  <2>1. Source(m) \in 1..Len(data) /\ Source(o) \in 1..Len(data)
        /\ k < Source(m) /\ Source(m) < Source(o)
    BY <1>1, <1>2, <1>3
  <2>2. Ends(data[Source(m)]) <= data[Source(o)].seq
    BY <2>1 DEF RunBehind
  <2>3. QED
    BY <1>2, <2>2 DEF Ends
<1>9. RunBehind(n)'
  BY <1>5, <1>6, <1>7, <1>8 DEF RunBehind, Ends
<1>10. QED
  BY <1>1, <1>9

\* The part of the invariant a step that leaves the queue pairs alone must restore.
LEMMA NetworkInStep ==
  ASSUME ~complete, ~complete', InStep,
         UNCHANGED <<snd_nxt, snd_una, expected>>, NackStands',
         \A i \in 1..Len(acks') : acks'[i].seq <= expected,
         \E k \in 0..Len(data') : RunBehind(k)'
  PROVE  InStep'
  BY DEF InStep

LEMMA SendInStep ==
  ASSUME Promises, InStep, Send
  PROVE  InStep'
<1> DEFINE payload == IF Mtu < GetBytesLeft THEN Mtu ELSE GetBytesLeft
           packet == [seq |-> snd_nxt, size |-> payload]
<1>1. /\ GetBytesLeft > 0
      /\ data' = Append(data, packet)
      /\ snd_nxt' = snd_nxt + payload
      /\ UNCHANGED <<snd_una, complete, expected, nackTimer, lastNACK, acks>>
  BY DEF Send, CanSend, receiver, rest
<1>2. ~complete /\ payload \in Nat \ {0}
  BY <1>1, TransportTypes DEF InStep, GetBytesLeft
<1> HIDE DEF payload
<1>3. /\ Len(data) \in Nat /\ Len(data') = Len(data) + 1
      /\ \A i \in 1..Len(data) : data'[i] = data[i]
      /\ data'[Len(data) + 1] = packet
  BY <1>1, TransportTypes
<1>4. packet.seq = snd_nxt /\ Ends(packet) = snd_nxt' /\ snd_nxt' > snd_nxt
  BY <1>1, <1>2, TransportTypes DEF Ends
<1> HIDE DEF packet
<1>5. PICK k \in 0..Len(data) : RunBehind(k)
  BY <1>2 DEF InStep
<1>6. \A i \in 1..Len(data') : i \in 1..Len(data) \/ i = Len(data) + 1
  BY <1>3
<1>7. expected <= snd_nxt
  BY <1>2 DEF InStep
<1>8. RunBehind(k)'
  <2>1. k > 0 => Suppressed'
    BY <1>1, <1>5 DEF RunBehind, Suppressed
  <2>2. \A i \in 1..Len(data') : i <= k => data'[i].seq > expected
    BY <1>3, <1>5, <1>6 DEF RunBehind
  <2>3. \A i \in 1..Len(data') :
          i > k => data'[i].seq >= expected /\ Ends(data'[i]) <= snd_nxt'
    <3> SUFFICES ASSUME NEW i \in 1..Len(data'), i > k
                 PROVE  data'[i].seq >= expected /\ Ends(data'[i]) <= snd_nxt'
      OBVIOUS
    <3>1. CASE i \in 1..Len(data)
      <4>1. data[i].seq >= expected /\ Ends(data[i]) <= snd_nxt
        BY <1>5, <3>1 DEF RunBehind
      <4>2. Ends(data[i]) \in Nat
        <5>1. data[i].seq \in Nat /\ data[i].size \in Nat
          BY <1>2, <3>1, TransportTypes
        <5>2. QED
          BY <5>1 DEF Ends
      <4>3. data'[i] = data[i]
        BY <1>3, <3>1
      <4>4. snd_nxt \in Nat /\ snd_nxt' \in Nat
        BY <1>1, <1>2, TransportTypes
      <4>5. Ends(data[i]) <= snd_nxt'
        BY <1>4, <4>1, <4>2, <4>4
      <4>6. QED
        BY <4>1, <4>3, <4>5
    <3>2. CASE i = Len(data) + 1
      BY <1>1, <1>2, <1>3, <1>4, <1>7, <3>2, TransportTypes
    <3>3. QED
      BY <1>6, <3>1, <3>2
  <2>4. \A i, j \in 1..Len(data') : k < i /\ i < j => Ends(data'[i]) <= data'[j].seq
    <3> SUFFICES ASSUME NEW i \in 1..Len(data'), NEW j \in 1..Len(data'), k < i, i < j
                 PROVE  Ends(data'[i]) <= data'[j].seq
      OBVIOUS
    <3>1. i \in 1..Len(data)
      BY <1>3
    <3>2. CASE j \in 1..Len(data)
      BY <1>3, <1>5, <3>1, <3>2 DEF RunBehind
    <3>3. CASE j = Len(data) + 1
      BY <1>3, <1>4, <1>5, <3>1, <3>3 DEF RunBehind
    <3>4. QED
      BY <1>6, <3>2, <3>3
  <2>5. QED
    BY <1>1, <2>1, <2>2, <2>3, <2>4 DEF RunBehind, Ends
<1>9. NackStands'
  <2> SUFFICES ASSUME NEW i \in 1..Len(acks), IsNack(i)
               PROVE  /\ acks[i].seq = expected /\ Suppressed /\ snd_nxt' > expected
                      /\ \A j \in 1..Len(data') : data'[j].seq > expected
                      /\ \A j \in 1..Len(acks) : IsNack(j) => j = i
    BY <1>1 DEF NackStands, Suppressed, IsNack
  <2>1. /\ acks[i].seq = expected /\ Suppressed /\ snd_nxt > expected
        /\ \A j \in 1..Len(data) : data[j].seq > expected
        /\ \A j \in 1..Len(acks) : IsNack(j) => j = i
    BY <1>2 DEF InStep, NackStands
  <2>2. snd_nxt' > expected
    BY <1>1, <1>2, <2>1, TransportTypes
  <2>3. \A j \in 1..Len(data') : data'[j].seq > expected
    BY <1>3, <1>4, <1>6, <2>1
  <2>4. QED
    BY <2>1, <2>2, <2>3
<1>10. \A i \in 1..Len(acks') : acks'[i].seq <= expected'
  BY <1>1, <1>2 DEF InStep
<1>11. snd_una' <= expected' /\ expected' <= snd_nxt'
  BY <1>1, <1>2, TransportTypes DEF InStep
<1>12. k \in 0..Len(data')
  BY <1>3
<1>13. QED
  BY <1>1, <1>2, <1>8, <1>9, <1>10, <1>11, <1>12 DEF InStep

\* Fewer packets, or none, do not contradict a NACK, nor do fewer answers.
LEMMA NackStillStands ==
  ASSUME NackStands, UNCHANGED <<snd_nxt, expected, nackTimer, lastNACK, acks>>,
         \A m \in 1..Len(data') : \E j \in 1..Len(data) : data'[m] = data[j]
  PROVE  NackStands'
  BY DEF NackStands, IsNack, Suppressed

LEMMA AnswerTaken ==
  ASSUME NackStands, UNCHANGED <<snd_nxt, expected, nackTimer, lastNACK, data>>,
         acks \in Seq(Answers), NEW i \in 1..Len(acks), Len(acks') = Len(acks) - 1,
         \A m \in 1..Len(acks') : acks'[m] = IF m < i THEN acks[m] ELSE acks[m + 1]
  PROVE  /\ NackStands'
         /\ \A m \in 1..Len(acks') : \E j \in 1..Len(acks) : j # i /\ acks'[m] = acks[j]
<1> DEFINE Source(m) == IF m < i THEN m ELSE m + 1
<1>1. Len(acks) \in Nat /\ Len(acks') \in Nat
  BY LenType
<1>2. \A m \in 1..Len(acks') :
        Source(m) \in 1..Len(acks) /\ Source(m) # i /\ acks'[m] = acks[Source(m)]
  BY <1>1
<1>3. \A m, o \in 1..Len(acks') : Source(m) = Source(o) => m = o
  BY <1>1
<1> HIDE DEF Source
<1>4. \A m \in 1..Len(acks') : IsNack(m)' <=> IsNack(Source(m))
  BY <1>2 DEF IsNack
<1>5. NackStands'
  <2> SUFFICES ASSUME NEW m \in 1..Len(acks'), IsNack(m)'
               PROVE  /\ acks'[m].seq = expected /\ Suppressed /\ snd_nxt > expected
                      /\ \A j \in 1..Len(data) : data[j].seq > expected
                      /\ \A j \in 1..Len(acks') : IsNack(j)' => j = m
    BY DEF NackStands, Suppressed
  <2>1. Source(m) \in 1..Len(acks) /\ IsNack(Source(m))
    BY <1>2, <1>4
  <2>2. /\ acks[Source(m)].seq = expected /\ Suppressed /\ snd_nxt > expected
        /\ \A j \in 1..Len(data) : data[j].seq > expected
        /\ \A j \in 1..Len(acks) : IsNack(j) => j = Source(m)
    BY <2>1 DEF NackStands
  <2>3. \A j \in 1..Len(acks') : IsNack(j)' => j = m
    BY <1>2, <1>3, <1>4, <2>2
  <2>4. QED
    BY <1>2, <2>2, <2>3
<1>6. QED
  BY <1>2, <1>5

LEMMA TailPlaces ==
  ASSUME NEW S, NEW s \in Seq(S), s # <<>>
  PROVE  /\ 1 \in 1..Len(s) /\ Head(s) = s[1]
         /\ Tail(s) \in Seq(S) /\ Len(Tail(s)) = Len(s) - 1
         /\ \A k \in 1..(Len(s) - 1) : Tail(s)[k] = IF k < 1 THEN s[k] ELSE s[k + 1]
  OBVIOUS

LEMMA LoseInStep ==
  ASSUME Promises, InStep, Lose
  PROVE  InStep'
<1>1. UNCHANGED <<snd_nxt, snd_una, complete, expected, nackTimer, lastNACK>>
  BY DEF Lose, sender, receiver
<1>2. CASE \E i \in DOMAIN data : data' = RemoveAt(data, i) /\ acks' = acks
  <2>1. PICK i \in DOMAIN data : data' = RemoveAt(data, i) /\ acks' = acks
    BY <1>2
  <2>2. /\ data \in Seq(Packets) /\ Len(data) \in Nat /\ i \in 1..Len(data)
    BY <2>1, TransportTypes
  <2>3. /\ data' \in Seq(Packets) /\ Len(data') = Len(data) - 1
        /\ \A m \in 1..Len(data') : data'[m] = IF m < i THEN data[m] ELSE data[m + 1]
    BY <2>1, <2>2, RemoveAtPlaces
  <2>4. ~complete
    <3>1. data # <<>>
      BY <2>2
    <3>2. QED
      BY <3>1 DEF InStep
  <2>5. \A m \in 1..Len(data') : \E j \in 1..Len(data) : data'[m] = data[j]
    <3>1. \A m \in 1..Len(data') : m \in 1..Len(data) /\ m + 1 \in 1..Len(data)
      BY <2>2, <2>3
    <3>2. QED
      BY <2>3, <3>1
  <2>6. NackStands'
    BY <1>1, <2>1, <2>4, <2>5, NackStillStands DEF InStep
  <2>7. PICK k \in 0..Len(data) : RunBehind(k)
    BY <2>4 DEF InStep
  <2>8. Suppressed => Suppressed'
    BY <1>1 DEF Suppressed
  <2>9. \E n \in 0..Len(data') : RunBehind(n)'
    BY <1>1, <2>2, <2>3, <2>7, <2>8, RunShortened
  <2>10. \A m \in 1..Len(acks') : acks'[m].seq <= expected
    BY <2>1, <2>4 DEF InStep
  <2>11. QED
    BY <1>1, <2>4, <2>6, <2>9, <2>10, NetworkInStep
<1>3. CASE \E i \in DOMAIN acks : acks' = RemoveAt(acks, i) /\ data' = data
  <2>1. PICK i \in DOMAIN acks : acks' = RemoveAt(acks, i) /\ data' = data
    BY <1>3
  <2>2. /\ acks \in Seq(Answers) /\ Len(acks) \in Nat /\ i \in 1..Len(acks)
    BY <2>1, TransportTypes
  <2>3. /\ Len(acks') = Len(acks) - 1
        /\ \A m \in 1..Len(acks') : acks'[m] = IF m < i THEN acks[m] ELSE acks[m + 1]
    BY <2>1, <2>2, RemoveAtPlaces
  <2>4. CASE complete
    BY <1>1, <2>1, <2>4 DEF InStep
  <2>5. CASE ~complete
    <3>1. /\ NackStands'
          /\ \A m \in 1..Len(acks') : \E j \in 1..Len(acks) : acks'[m] = acks[j]
      BY <1>1, <2>1, <2>2, <2>3, <2>5, AnswerTaken DEF InStep
    <3>2. \A m \in 1..Len(acks') : acks'[m].seq <= expected
      BY <2>5, <3>1 DEF InStep
    <3>3. \E k \in 0..Len(data') : RunBehind(k)'
      BY <1>1, <2>1, <2>5 DEF InStep, RunBehind, Suppressed
    <3>4. QED
      BY <1>1, <2>5, <3>1, <3>2, <3>3, NetworkInStep
  <2>6. QED
    BY <2>4, <2>5
<1>4. QED
  BY <1>2, <1>3 DEF Lose

LEMMA QuietInStep ==
  ASSUME Promises, InStep, Orderly,
         ChangeRate \/ NackTimerExpires \/ ReceiveStrayAck \/ UNCHANGED vars
  PROVE  InStep'
<1>1. UNCHANGED <<snd_nxt, snd_una, complete, expected, data>>
  BY DEF ChangeRate, NackTimerExpires, ReceiveStrayAck, vars, sender, receiver, network, rest
<1>2. CASE complete
  BY <1>1, <1>2 DEF InStep
<1>3. CASE ~complete /\ UNCHANGED <<nackTimer, lastNACK, acks>>
  BY <1>1, <1>3 DEF InStep, NackStands, RunBehind, IsNack, Suppressed
<1>4. CASE ~complete /\ NackTimerExpires
  <2>1. data = <<>> /\ acks = <<>> /\ acks' = <<>> /\ data' = <<>>
    BY <1>4 DEF NackTimerExpires, Orderly, network
  <2>2. Len(data') = 0 /\ Len(acks') = 0 /\ 1..0 = {} /\ 0 \in 0..0
    BY <2>1
  <2>3. RunBehind(0)' /\ NackStands'
    BY <2>2 DEF RunBehind, NackStands
  <2>4. QED
    BY <1>1, <1>4, <2>2, <2>3, NetworkInStep
<1>5. ~complete /\ ~NackTimerExpires => UNCHANGED <<nackTimer, lastNACK, acks>>
  BY DEF ChangeRate, ReceiveStrayAck, vars, receiver, network, rest
<1>6. QED
  BY <1>2, <1>3, <1>4, <1>5

\* The head of the link is a packet the receiver waits for, one behind a gap it has not
\* reported, or one that is ignored; in all cases the rest is still a run.
LEMMA ReceiveUdpInStep ==
  ASSUME Promises, InStep, ~m_backto0, ReceiveUdp
  PROVE  InStep'
<1> DEFINE packet == Head(data)
<1>1. /\ data # <<>> /\ data' = Tail(data)
      /\ UNCHANGED <<snd_nxt, snd_una, complete>>
      /\ Accept(packet) \/ Nack(packet) \/ Ignore(packet)
  BY DEF ReceiveUdp, sender
<1>2. ~complete /\ ~complete'
  BY <1>1 DEF InStep
<1>3. /\ data \in Seq(Packets) /\ data' \in Seq(Packets) /\ Len(data) \in Nat
      /\ 1 \in 1..Len(data) /\ packet = data[1] /\ Len(data') = Len(data) - 1
      /\ \A m \in 1..Len(data') :
           data'[m] = (IF m < 1 THEN data[m] ELSE data[m + 1])
  BY <1>1, TransportTypes, TailPlaces
<1>4. \A m \in 1..Len(data') :
        m + 1 \in 1..Len(data) /\ m + 1 > 1 /\ data'[m] = data[m + 1]
  BY <1>3
<1>5. /\ snd_nxt \in Nat /\ snd_una \in Nat /\ expected \in Nat
      /\ acks \in Seq(Answers) /\ Len(acks) \in Nat
  BY TransportTypes
<1>6. packet.seq \in Nat /\ packet.size \in Nat \ {0} /\ Ends(packet) \in Nat
  BY <1>3, TransportTypes DEF Ends
<1>7. PICK k \in 0..Len(data) : RunBehind(k)
  BY <1>2 DEF InStep
<1>8. NackStands /\ snd_una <= expected /\ expected <= snd_nxt
      /\ \A i \in 1..Len(acks) : acks[i].seq <= expected
  BY <1>2 DEF InStep
<1> HIDE DEF packet
<1>9. CASE Ignore(packet)
  <2>1. UNCHANGED <<expected, nackTimer, lastNACK, acks>>
    BY <1>9 DEF Ignore, receiver
  <2>2. \A m \in 1..Len(data') : \E j \in 1..Len(data) : data'[m] = data[j]
    BY <1>4
  <2>3. NackStands'
    BY <1>1, <1>8, <2>1, <2>2, NackStillStands
  <2>4. Suppressed => Suppressed'
    BY <2>1 DEF Suppressed
  <2>5. \E n \in 0..Len(data') : RunBehind(n)'
    BY <1>1, <1>3, <1>7, <2>1, <2>4, RunShortened
  <2>6. QED
    BY <1>1, <1>2, <1>8, <2>1, <2>3, <2>5 DEF InStep
<1>10. CASE Accept(packet)
  <2> DEFINE ack == [kind |-> "ack", seq |-> Ends(packet)]
  <2>1. /\ packet.seq = expected /\ expected' = Ends(packet)
        /\ UNCHANGED <<nackTimer, lastNACK>>
        /\ acks' = Append(acks, ack) \/ acks' = acks
    BY <1>10 DEF Accept, InOrder, Ends
  <2>2. k = 0
    BY <1>3, <1>5, <1>7, <2>1 DEF RunBehind
  <2>3. Ends(packet) <= snd_nxt /\ Ends(packet) > expected
    BY <1>3, <1>5, <1>6, <1>7, <2>1, <2>2 DEF RunBehind, Ends
  <2>4. \A m \in 1..Len(acks) : ~IsNack(m)
    BY <1>3, <1>5, <1>8, <2>1 DEF NackStands
  <2>5. ack.seq = Ends(packet) /\ ack.kind = "ack"
    OBVIOUS
  <2> HIDE DEF ack
  <2>6. \A m \in 1..Len(acks') :
          \/ m \in 1..Len(acks) /\ acks'[m] = acks[m]
          \/ acks'[m] = ack
    BY <1>5, <2>1
  <2>7. NackStands'
    <3>1. \A m \in 1..Len(acks') : ~IsNack(m)'
      BY <2>4, <2>5, <2>6 DEF IsNack
    <3>2. QED
      BY <3>1 DEF NackStands
  <2>8. \A m \in 1..Len(acks') : acks'[m].seq <= expected'
    <3> SUFFICES ASSUME NEW m \in 1..Len(acks') PROVE acks'[m].seq <= expected'
      OBVIOUS
    <3>1. CASE m \in 1..Len(acks) /\ acks'[m] = acks[m]
      <4>1. acks[m].seq <= expected /\ acks[m].seq \in Nat
        BY <1>8, <3>1, TransportTypes
      <4>2. QED
        BY <1>5, <1>6, <2>1, <2>3, <3>1, <4>1
    <3>2. CASE acks'[m] = ack
      BY <1>6, <2>1, <2>5, <3>2
    <3>3. QED
      BY <2>6, <3>1, <3>2
  <2>9. \A m \in 1..Len(data') : data'[m].seq >= Ends(packet) /\ Ends(data'[m]) <= snd_nxt
    BY <1>3, <1>4, <1>7, <2>2 DEF RunBehind
  <2>10. \A m, o \in 1..Len(data') : m < o => Ends(data'[m]) <= data'[o].seq
    <3> SUFFICES ASSUME NEW m \in 1..Len(data'), NEW o \in 1..Len(data'), m < o
                 PROVE  Ends(data'[m]) <= data'[o].seq
      OBVIOUS
    <3>1. m + 1 \in 1..Len(data) /\ o + 1 \in 1..Len(data) /\ 0 < m + 1 /\ m + 1 < o + 1
      BY <1>4
    <3>2. Ends(data[m + 1]) <= data[o + 1].seq
      BY <1>7, <2>2, <3>1 DEF RunBehind
    <3>3. QED
      BY <1>4, <3>2
  <2>11. RunBehind(0)'
    BY <1>1, <2>1, <2>9, <2>10 DEF RunBehind, Ends
  <2>12. 0 \in 0..Len(data')
    BY <1>3
  <2>13. snd_una' <= expected' /\ expected' <= snd_nxt'
    BY <1>1, <1>5, <1>6, <1>8, <2>1, <2>3
  <2>14. QED
    BY <1>2, <2>7, <2>8, <2>11, <2>12, <2>13 DEF InStep
<1>11. CASE Nack(packet)
  <2> DEFINE nack == [kind |-> "nack", seq |-> expected]
  <2>1. /\ packet.seq > expected /\ ~Suppressed
        /\ nackTimer' = TRUE /\ lastNACK' = expected /\ expected' = expected
        /\ acks' = Append(acks, nack)
    BY <1>11 DEF Nack, NackDue, Suppressed, RewindReceiver, Confirmable
  <2>2. k = 0
    BY <1>7, <2>1 DEF RunBehind
  <2>3. Ends(packet) <= snd_nxt /\ Ends(packet) > packet.seq
    BY <1>3, <1>6, <1>7, <2>2 DEF RunBehind, Ends
  <2>4. \A m \in 1..Len(acks) : ~IsNack(m)
    BY <1>8, <2>1 DEF NackStands
  <2>5. snd_nxt > expected
    BY <1>5, <1>6, <2>1, <2>3
  <2>6. nack.seq = expected /\ nack.kind = "nack"
    OBVIOUS
  <2> HIDE DEF nack
  <2>7. /\ Len(acks') = Len(acks) + 1
        /\ \A m \in 1..Len(acks) : acks'[m] = acks[m]
        /\ acks'[Len(acks) + 1] = nack
    BY <1>5, <2>1
  <2>8. \A m \in 1..Len(acks') : m \in 1..Len(acks) \/ m = Len(acks) + 1
    BY <1>5, <2>7
  <2>9. \A m \in 1..Len(data') : data'[m].seq > expected
    <3> SUFFICES ASSUME NEW m \in 1..Len(data') PROVE data'[m].seq > expected
      OBVIOUS
    <3>1. Ends(packet) <= data[m + 1].seq
      BY <1>3, <1>4, <1>7, <2>2 DEF RunBehind
    <3>2. data[m + 1].seq \in Nat
      BY <1>4, TransportTypes
    <3>3. data'[m].seq = data[m + 1].seq
      BY <1>4
    <3>4. packet.seq >= expected /\ packet.seq \in Int /\ expected \in Int
          /\ Ends(packet) \in Int
      BY <1>5, <1>6, <2>1
    <3>5. QED
      BY <2>3, <3>1, <3>2, <3>3, <3>4
  <2>10. \A m \in 1..Len(acks') : acks'[m].seq <= expected'
    BY <1>5, <1>8, <2>1, <2>6, <2>7, <2>8
  <2>11. \A m \in 1..Len(acks') : IsNack(m)' => m = Len(acks) + 1
    BY <2>4, <2>7, <2>8 DEF IsNack
  <2>12. Suppressed'
    BY <2>1, Zenon DEF Suppressed
  <2>13. NackStands'
    <3> SUFFICES ASSUME NEW m \in 1..Len(acks'), IsNack(m)'
                 PROVE  /\ acks'[m].seq = expected /\ snd_nxt > expected
                        /\ \A j \in 1..Len(data') : data'[j].seq > expected
                        /\ \A j \in 1..Len(acks') : IsNack(j)' => j = m
      BY <1>1, <2>1, <2>12 DEF NackStands
    <3>1. m = Len(acks) + 1
      BY <2>11
    <3>2. QED
      BY <2>5, <2>6, <2>7, <2>9, <2>11, <3>1
  <2>14. Suppressed => Suppressed'
    BY <2>12
  <2>15. \E n \in 0..Len(data') : RunBehind(n)'
    BY <1>1, <1>3, <1>7, <2>1, <2>14, RunShortened
  <2>16. snd_una' <= expected' /\ expected' <= snd_nxt'
    BY <1>1, <1>8, <2>1
  <2>17. QED
    BY <1>2, <2>10, <2>13, <2>15, <2>16 DEF InStep
<1>12. QED
  BY <1>1, <1>9, <1>10, <1>11

\* A NACK takes the sender back to where the receiver is, and makes all that is on the link
\* stale; the answer that completes a flow finds the link empty.
LEMMA ReceiveAckInStep ==
  ASSUME Promises, InStep, ~m_backto0, ReceiveAck
  PROVE  InStep'
<1> DEFINE ack == Head(acks)
           una == Acknowledge(ack.seq)
<1>1. /\ acks # <<>> /\ ~complete /\ acks' = Tail(acks) /\ data' = data
      /\ snd_una' = una
      /\ snd_nxt' = IF ack.kind = "nack" THEN una ELSE snd_nxt
      /\ complete' = (una >= Size)
      /\ ~complete' => UNCHANGED <<expected, nackTimer, lastNACK>>
  BY DEF ReceiveAck, RecoverQueue, IsFinished, receiver, rest
<1>2. /\ Size \in Nat /\ snd_nxt \in 0..Size /\ snd_una \in 0..Size /\ expected \in 0..Size
      /\ acks \in Seq(Answers) /\ data \in Seq(Packets) /\ Len(data) \in Nat
  BY TransportTypes
<1>3. /\ 1 \in 1..Len(acks) /\ ack = acks[1] /\ Len(acks') = Len(acks) - 1
      /\ \A m \in 1..Len(acks') : acks'[m] = (IF m < 1 THEN acks[m] ELSE acks[m + 1])
  BY <1>1, <1>2, TailPlaces
<1>4. NackStands /\ snd_una <= expected /\ expected <= snd_nxt
      /\ \A i \in 1..Len(acks) : acks[i].seq <= expected
  BY <1>1 DEF InStep
<1>5. ack.seq \in Nat /\ ack.seq <= expected
  BY <1>3, <1>4, TransportTypes
<1>6. una = Larger(snd_una, ack.seq)
  BY DEF Acknowledge, Confirmable
<1> HIDE DEF ack, una
<1>7. una \in Nat /\ una <= expected /\ una >= ack.seq
  BY <1>2, <1>4, <1>5, <1>6 DEF Larger
<1>8. PICK k \in 0..Len(data) : RunBehind(k)
  BY <1>1 DEF InStep
<1>9. \A i \in 1..Len(data) : data[i].seq >= expected
  <2> SUFFICES ASSUME NEW i \in 1..Len(data) PROVE data[i].seq >= expected
    OBVIOUS
  <2>1. i <= k \/ i > k
    BY <1>2
  <2>2. data[i].seq \in Nat
    BY TransportTypes
  <2>3. QED
    BY <1>2, <1>8, <2>1, <2>2 DEF RunBehind
<1>10. CASE complete'
  <2>1. una = Size /\ expected = Size /\ snd_nxt = Size
    <3>1. una >= Size
      BY <1>1, <1>10, Zenon
    <3>2. QED
      BY <1>2, <1>4, <1>7, <3>1
  <2>2. snd_nxt' = Size /\ snd_una' = Size
    BY <1>1, <2>1
  <2>3. Len(data) = 0
    <3> SUFFICES ASSUME 1 \in 1..Len(data) PROVE FALSE
      BY <1>2
    <3>1. data[1].seq \in Nat /\ data[1].size \in Nat \ {0} /\ Ends(data[1]) <= Size
      BY TransportTypes
    <3>2. QED
      BY <1>2, <1>9, <2>1, <3>1 DEF Ends
  <2>4. data' = <<>>
    BY <1>1, <1>2, <2>3
  <2>5. QED
    BY <1>10, <2>2, <2>4 DEF InStep
<1>11. CASE ~complete'
  <2>1. UNCHANGED <<expected, nackTimer, lastNACK, data>>
    BY <1>1, <1>11
  <2>2. \A m \in 1..Len(acks') :
          m + 1 \in 1..Len(acks) /\ m + 1 # 1 /\ acks'[m] = acks[m + 1]
    BY <1>2, <1>3, LenType
  <2>3. \A m \in 1..Len(acks') : acks'[m].seq <= expected'
    BY <1>4, <2>1, <2>2
  <2>4. CASE ack.kind # "nack"
    <3>1. snd_nxt' = snd_nxt
      BY <1>1, <2>4
    <3>2. NackStands'
      BY <1>2, <1>3, <1>4, <2>1, <3>1, AnswerTaken
    <3>3. RunBehind(k)'
      BY <1>8, <2>1, <3>1 DEF RunBehind, Suppressed
    <3>4. snd_una' <= expected' /\ expected' <= snd_nxt'
      BY <1>1, <1>4, <1>7, <2>1, <3>1
    <3>5. QED
      BY <1>11, <2>1, <2>3, <3>2, <3>3, <3>4 DEF InStep
  <2>5. CASE ack.kind = "nack"
    <3>1. IsNack(1)
      BY <1>3, <2>5 DEF IsNack
    <3>2. /\ ack.seq = expected /\ Suppressed
          /\ \A j \in 1..Len(data) : data[j].seq > expected
          /\ \A j \in 1..Len(acks) : IsNack(j) => j = 1
      BY <1>3, <1>4, <3>1 DEF NackStands
    <3>3. una = expected
      BY <1>2, <1>7, <3>2
    <3>4. snd_nxt' = expected /\ snd_una' = expected
      BY <1>1, <2>5, <3>3
    <3>5. \A m \in 1..Len(acks') : ~IsNack(m)'
      BY <2>2, <3>2 DEF IsNack
    <3>6. NackStands'
      BY <3>5 DEF NackStands
    <3>7. Suppressed'
      BY <2>1, <3>2 DEF Suppressed
    <3>8. ASSUME NEW n \in 0..Len(data'), n = Len(data') PROVE RunBehind(n)'
      <4>1. \A i \in 1..Len(data') : i <= n /\ ~(i > n)
        BY <3>8
      <4>2. \A i \in 1..Len(data') : data'[i].seq > expected'
        BY <2>1, <3>2
      <4>3. \A i, j \in 1..Len(data') : ~(n < i /\ i < j)
        BY <4>1
      <4>4. QED
        BY <3>7, <4>1, <4>2, <4>3 DEF RunBehind
    <3>9. Len(data') \in 0..Len(data')
      BY <1>2, <2>1
    <3>10. snd_una' <= expected' /\ expected' <= snd_nxt'
      BY <1>2, <2>1, <3>4
    <3>11. \E n \in 0..Len(data') : RunBehind(n)'
      BY <3>8, <3>9
    <3>12. QED
      BY <1>11, <2>3, <3>6, <3>10, <3>11 DEF InStep
  <2>6. QED
    BY <2>4, <2>5
<1>12. QED
  BY <1>1, <1>10, <1>11

LEMMA NextKeepsAhead == KeepsAhead /\ [Next]_vars => KeepsAhead'
<1> SUFFICES ASSUME KeepsAhead, [Next]_vars PROVE KeepsAhead'
  OBVIOUS
<1>1. UNCHANGED setting
  BY DEF Next, Send, ChangeRate, ReceiveUdp, NackTimerExpires, ReceiveAck, ReceiveStrayAck,
         Lose, Overtake, rest, vars
<1>2. overtakes' = overtakes \/ (Overtake /\ overtakes' = overtakes + 1)
  BY DEF Next, Send, ChangeRate, ReceiveUdp, NackTimerExpires, ReceiveAck, ReceiveStrayAck,
         Lose, Overtake, rest, vars
<1>3. overtakes' \in Nat /\ (overtakes' = 0 => overtakes = 0 /\ ~Overtake)
  BY <1>2 DEF KeepsAhead, Overtake
<1>4. ~m_backto0' => Promises'
  BY <1>1, NextPromises DEF KeepsAhead, setting
<1>5. ASSUME Orderly', ~m_backto0' PROVE InStep'
  <2>1. Orderly /\ ~m_backto0 /\ ~Overtake /\ Promises /\ InStep
    BY <1>1, <1>3, <1>5 DEF KeepsAhead, Orderly, setting
  <2>2. QED
    BY <2>1, SendInStep, LoseInStep, QuietInStep, ReceiveUdpInStep, ReceiveAckInStep DEF Next
<1>6. QED
  BY <1>3, <1>4, <1>5 DEF KeepsAhead

\* In go-back-N, where nothing is reordered, the sender never takes an acknowledgement for
\* what it has not sent since it last went back, however many messages are lost.
THEOREM AckedWasSent == Spec => []NothingAckedUnsent
<1>1. KeepsAhead => NothingAckedUnsent
  <2> SUFFICES ASSUME KeepsAhead, Orderly, ~m_backto0 PROVE snd_una <= snd_nxt
    BY DEF NothingAckedUnsent
  <2>1. Promises /\ InStep
    BY DEF KeepsAhead
  <2>2. QED
    BY <2>1, TransportTypes DEF InStep
<1>2. QED
  BY <1>1, InitKeepsAhead, NextKeepsAhead, PTL DEF Spec

\* When the sender completes a flow no packet of it is left to re-create the receiving
\* queue pair.
THEOREM CompletionIsLast == Spec => []NothingFollowsCompletion
<1>1. KeepsAhead => NothingFollowsCompletion
  BY DEF KeepsAhead, NothingFollowsCompletion, InStep
<1>2. QED
  BY <1>1, InitKeepsAhead, NextKeepsAhead, PTL DEF Spec

\* What NackBringsProgress rests on.  A NACK on its way names the place where the receiver
\* still stands, and finds the sender and all that is on the link beyond it.
NackNamesGap ==
  Orderly /\ ~m_backto0 /\ ~complete =>
    \A nack \in ToSet(acks) : nack.kind = "nack" =>
      /\ nack.seq = expected /\ snd_nxt > expected
      /\ \A packet \in ToSet(data) : packet.seq > expected

THEOREM NacksNameGaps == Spec => []NackNamesGap
<1>1. KeepsAhead => NackNamesGap
  <2> SUFFICES ASSUME KeepsAhead, Orderly, ~m_backto0, ~complete,
                      NEW nack \in ToSet(acks), nack.kind = "nack"
               PROVE  /\ nack.seq = expected /\ snd_nxt > expected
                      /\ \A packet \in ToSet(data) : packet.seq > expected
    BY DEF NackNamesGap
  <2>1. Promises /\ NackStands
    BY DEF KeepsAhead, InStep
  <2>2. acks \in Seq(Answers) /\ data \in Seq(Packets)
    BY <2>1, TransportTypes
  <2>3. PICK i \in 1..Len(acks) : nack = acks[i]
    BY <2>2 DEF ToSet
  <2>4. /\ acks[i].seq = expected /\ snd_nxt > expected
        /\ \A j \in 1..Len(data) : data[j].seq > expected
    BY <2>1, <2>3 DEF NackStands, IsNack
  <2>5. \A packet \in ToSet(data) : \E j \in 1..Len(data) : packet = data[j]
    BY <2>2 DEF ToSet
  <2>6. QED
    BY <2>3, <2>4, <2>5
<1>2. QED
  BY <1>1, InitKeepsAhead, NextKeepsAhead, PTL DEF Spec

\* The sender that obeys a NACK goes back, and to no other place than the one the receiver
\* waits for: neither before it, sending again what was received, nor beyond it.
GoesBackToGap ==
  ReceiveAck /\ Head(acks).kind = "nack" /\ Orderly /\ ~m_backto0 =>
    snd_nxt' < snd_nxt /\ snd_nxt' = expected /\ expected' = expected

THEOREM SenderGoesBack == Spec => [][GoesBackToGap]_vars
<1>1. KeepsAhead => GoesBackToGap
  <2> SUFFICES ASSUME KeepsAhead, ReceiveAck, Head(acks).kind = "nack", Orderly, ~m_backto0
               PROVE  snd_nxt' < snd_nxt /\ snd_nxt' = expected /\ expected' = expected
    BY DEF GoesBackToGap
  <2> DEFINE ack == Head(acks)
             una == Acknowledge(ack.seq)
  <2>1. /\ acks # <<>> /\ ~complete /\ snd_nxt' = una
        /\ complete' = (una >= Size)
        /\ ~complete' => expected' = expected
    BY DEF ReceiveAck, RecoverQueue, IsFinished, receiver
  <2>2. Promises /\ InStep
    BY DEF KeepsAhead
  <2>3. /\ Size \in Nat /\ snd_nxt \in 0..Size /\ snd_una \in 0..Size /\ expected \in 0..Size
        /\ acks \in Seq(Answers)
    BY <2>2, TransportTypes
  <2>4. 1 \in 1..Len(acks) /\ ack = acks[1]
    BY <2>1, <2>3
  <2>5. NackStands /\ snd_una <= expected
    BY <2>1, <2>2 DEF InStep
  <2>6. ack.seq = expected /\ snd_nxt > expected
    BY <2>4, <2>5 DEF NackStands, IsNack
  <2>7. una = Larger(snd_una, ack.seq)
    BY DEF Acknowledge, Confirmable
  <2> HIDE DEF una, ack
  <2>8. una = expected
    BY <2>3, <2>5, <2>6, <2>7 DEF Larger
  <2>9. ~(una >= Size)
    BY <2>3, <2>6, <2>8
  <2>10. ~complete'
    BY <2>1, <2>9, Zenon
  <2>11. snd_nxt' = expected /\ expected' = expected
    BY <2>1, <2>8, <2>10
  <2>12. QED
    BY <2>3, <2>6, <2>11
<1>2. KeepsAhead /\ [Next]_vars => [GoesBackToGap]_vars
  BY <1>1
<1>3. QED
  BY <1>2, InitKeepsAhead, NextKeepsAhead, PTL DEF Spec

-----------------------------------------------------------------------------
(***************************************************************************)
(* Where nothing was lost or overtaken, with chunks or without, packets    *)
(* and answers form one sequence: the packets on the link go on where the  *)
(* receiver stands and end where the sender stands, and the last answer on *)
(* its way says where the receiver stands.  Every packet must be answered, *)
(* so the interval of the ACKs is no longer than a packet or the flow.     *)
(***************************************************************************)
\* Where the receiver will stand when it has received i packets more.
Reached(i) == IF i = 0 THEN expected ELSE Ends(data[i])

InSequence ==
  /\ snd_una < Size /\ win \in Windows
  /\ snd_nxt = 0 \/ snd_nxt >= AckInterval
  /\ \A i \in 1..Len(data) : data[i].seq = Reached(i - 1) /\ Ends(data[i]) >= AckInterval
  /\ snd_nxt = Reached(Len(data))
  /\ \A i \in 1..Len(acks) : acks[i].kind = "ack"
  /\ acks = <<>> => snd_una = Confirmable(expected)
  /\ acks # <<>> => acks[Len(acks)].seq = expected

Small == m_backto0 => Mtu <= Chunk

Unspoilt ==
  /\ losses \in Nat /\ overtakes \in Nat
  /\ Small => Promises
  /\ Small /\ losses = 0 /\ overtakes = 0 /\ ~complete => InSequence

LEMMA InitUnspoilt == Init => Unspoilt
<1> SUFFICES ASSUME Init PROVE Unspoilt
  OBVIOUS
<1>1. /\ snd_nxt = 0 /\ snd_una = 0 /\ win \in Windows /\ expected = 0
      /\ data = <<>> /\ acks = <<>> /\ losses = 0 /\ overtakes = 0
  BY DEF Init
<1>2. Len(data) = 0 /\ Len(acks) = 0 /\ 1..0 = {}
  BY <1>1
<1>3. Confirmable(0) = 0
  BY ConfirmableFacts
<1>4. 0 < Size
  BY TransportAssumption
<1>5. InSequence
  BY <1>1, <1>2, <1>3, <1>4 DEF InSequence, Reached
<1>6. QED
  BY <1>1, <1>5, InitPromises DEF Unspoilt

\* The packet that is sent goes on where the last one ended, and ends beyond the interval.
LEMMA SendInSequence ==
  ASSUME AckInterval <= Mtu, AckInterval <= Size, Promises, InSequence, Send
  PROVE  InSequence'
<1> DEFINE payload == IF Mtu < GetBytesLeft THEN Mtu ELSE GetBytesLeft
           packet == [seq |-> snd_nxt, size |-> payload]
<1>1. /\ GetBytesLeft > 0
      /\ data' = Append(data, packet)
      /\ snd_nxt' = snd_nxt + payload
      /\ UNCHANGED <<snd_una, win, expected, acks, m_backto0>>
  BY DEF Send, CanSend, receiver, rest, setting
<1>2. /\ Size \in Nat /\ Mtu \in Nat \ {0} /\ snd_nxt \in 0..Size /\ AckInterval \in Nat
      /\ expected \in 0..Size /\ data \in Seq(Packets) /\ Len(data) \in Nat
  BY TransportTypes, TransportAssumption
<1>3. payload \in Nat \ {0} /\ payload = (IF Mtu < Size - snd_nxt THEN Mtu ELSE Size - snd_nxt)
  BY <1>1, <1>2 DEF GetBytesLeft
<1> HIDE DEF payload
<1>4. snd_nxt + payload >= AckInterval
  <2>1. CASE snd_nxt = 0
    BY <1>2, <1>3, <2>1
  <2>2. CASE snd_nxt >= AckInterval
    BY <1>2, <1>3, <2>2
  <2>3. QED
    BY <2>1, <2>2 DEF InSequence
<1>5. packet.seq = snd_nxt /\ Ends(packet) = snd_nxt + payload
  BY DEF Ends
<1> HIDE DEF packet
<1>6. /\ Len(data') = Len(data) + 1
      /\ \A i \in 1..Len(data) : data'[i] = data[i]
      /\ data'[Len(data) + 1] = packet
  BY <1>1, <1>2
<1>7. ASSUME NEW i \in 0..Len(data) PROVE Reached(i)' = Reached(i)
  <2>1. CASE i = 0
    BY <1>1, <2>1 DEF Reached
  <2>2. CASE i # 0
    <3>1. i \in 1..Len(data)
      BY <1>2, <2>2
    <3>2. data'[i] = data[i]
      BY <1>6, <3>1
    <3>3. QED
      BY <2>2, <3>2 DEF Reached
  <2>3. QED
    BY <2>1, <2>2
<1>8. ASSUME NEW i \in 1..Len(data')
      PROVE  data'[i].seq = Reached(i - 1)' /\ Ends(data'[i]) >= AckInterval
  <2>1. i - 1 \in 0..Len(data) /\ Reached(i - 1)' = Reached(i - 1)
    <3>1. i - 1 \in 0..Len(data)
      BY <1>2, <1>6
    <3>2. QED
      BY <3>1, <1>7
  <2>2. CASE i \in 1..Len(data)
    <3>1. data[i].seq = Reached(i - 1) /\ Ends(data[i]) >= AckInterval
      BY <2>2 DEF InSequence
    <3>2. data'[i] = data[i]
      BY <1>6, <2>2
    <3>3. QED
      BY <2>1, <3>1, <3>2
  <2>3. CASE i = Len(data) + 1
    <3>1. i - 1 = Len(data) /\ data'[i] = packet
      BY <1>2, <1>6, <2>3
    <3>2. snd_nxt = Reached(i - 1)
      BY <3>1 DEF InSequence
    <3>3. QED
      BY <1>4, <1>5, <2>1, <3>1, <3>2
  <2>4. i \in 1..Len(data) \/ i = Len(data) + 1
    BY <1>2, <1>6
  <2>5. QED
    BY <2>2, <2>3, <2>4
<1>9. snd_nxt' = Reached(Len(data))'
  <2>1. Len(data') # 0 /\ data'[Len(data')] = packet
    BY <1>2, <1>6
  <2>2. QED
    BY <1>1, <1>5, <2>1 DEF Reached
<1>10. Confirmable(expected)' = Confirmable(expected)
  BY <1>1 DEF Confirmable, ChunkStart
<1>11. snd_nxt' >= AckInterval
  BY <1>1, <1>4
<1>12. \A i \in 1..Len(acks') : acks'[i].kind = "ack"
  BY <1>1 DEF InSequence
<1>13. snd_una' < Size /\ win' \in Windows
  BY <1>1 DEF InSequence
<1>14. /\ acks' = <<>> => snd_una' = Confirmable(expected)'
       /\ acks' # <<>> => acks'[Len(acks')].seq = expected'
  BY <1>1, <1>10 DEF InSequence
<1>15. QED
  BY <1>8, <1>9, <1>11, <1>12, <1>13, <1>14 DEF InSequence

\* The packet at the head of the link is the one the receiver waits for, and is answered.
LEMMA ReceiveUdpInSequence ==
  ASSUME Promises, InSequence, ReceiveUdp
  PROVE  InSequence'
<1> DEFINE packet == Head(data)
           ack == [kind |-> "ack", seq |-> Ends(packet)]
<1>1. /\ data # <<>> /\ data' = Tail(data)
      /\ UNCHANGED <<snd_nxt, snd_una, win, m_backto0>>
      /\ Accept(packet) \/ Nack(packet) \/ Ignore(packet)
  BY DEF ReceiveUdp, sender, rest, setting
<1>2. /\ expected \in Nat /\ data \in Seq(Packets) /\ acks \in Seq(Answers)
      /\ Len(data) \in Nat /\ Len(acks) \in Nat /\ AckInterval \in Nat
  BY TransportTypes, TransportAssumption
<1>3. /\ 1 \in 1..Len(data) /\ packet = data[1] /\ Len(data') = Len(data) - 1
      /\ \A m \in 1..(Len(data) - 1) :
           data'[m] = IF m < 1 THEN data[m] ELSE data[m + 1]
  BY <1>1, <1>2, TailPlaces
<1>4. ASSUME NEW i \in 1..Len(data')
      PROVE  i + 1 \in 1..Len(data) /\ data'[i] = data[i + 1]
  BY <1>2, <1>3
<1>5. packet.seq = expected /\ Ends(packet) >= AckInterval
  <2>1. data[1].seq = Reached(1 - 1) /\ Ends(data[1]) >= AckInterval
    BY <1>3 DEF InSequence
  <2>2. Reached(1 - 1) = expected
    BY DEF Reached
  <2>3. QED
    BY <1>3, <2>1, <2>2
<1> HIDE DEF packet
<1>6. expected' = Ends(packet) /\ acks' = Append(acks, ack)
  <2>1. Accept(packet)
    BY <1>1, <1>2, <1>5 DEF Nack, Ignore
  <2>2. AckDue(Ends(packet))
    BY <1>5 DEF AckDue
  <2>3. QED
    BY <2>1, <2>2 DEF Accept, Ends
<1>7. ack.kind = "ack" /\ ack.seq = expected'
  BY <1>6
<1> HIDE DEF ack
<1>8. ASSUME NEW i \in 0..Len(data') PROVE Reached(i)' = Reached(i + 1)
  <2>1. i + 1 # 0
    BY <1>2, <1>3
  <2>2. CASE i = 0
    <3>1. Reached(i)' = Ends(packet)
      BY <1>6, <2>2 DEF Reached
    <3>2. Reached(i + 1) = Ends(data[1])
      BY <2>2 DEF Reached
    <3>3. QED
      BY <1>3, <3>1, <3>2
  <2>3. CASE i # 0
    <3>1. i \in 1..Len(data')
      BY <1>2, <1>3, <2>3
    <3>2. Reached(i)' = Ends(data'[i])
      BY <2>3 DEF Reached
    <3>3. Reached(i + 1) = Ends(data[i + 1])
      BY <2>1 DEF Reached
    <3>4. QED
      BY <1>4, <3>1, <3>2, <3>3
  <2>4. QED
    BY <2>2, <2>3
<1>9. ASSUME NEW i \in 1..Len(data')
      PROVE  data'[i].seq = Reached(i - 1)' /\ Ends(data'[i]) >= AckInterval
  <2>1. i - 1 \in 0..Len(data') /\ (i - 1) + 1 = i /\ (i + 1) - 1 = i
    BY <1>2, <1>3
  <2>2. Reached(i - 1)' = Reached(i)
    <3>1. Reached(i - 1)' = Reached((i - 1) + 1)
      BY <2>1, <1>8
    <3>2. QED
      BY <2>1, <3>1
  <2>3. data[i + 1].seq = Reached((i + 1) - 1) /\ Ends(data[i + 1]) >= AckInterval
    BY <1>4 DEF InSequence
  <2>4. data'[i] = data[i + 1]
    BY <1>4
  <2>5. QED
    BY <2>1, <2>2, <2>3, <2>4
<1>10. snd_nxt' = Reached(Len(data))'
  <2>1. Len(data') \in 0..Len(data') /\ Len(data') + 1 = Len(data)
    BY <1>2, <1>3
  <2>2. Reached(Len(data))' = Reached(Len(data') + 1)
    BY <1>8, <2>1
  <2>3. snd_nxt = Reached(Len(data))
    BY DEF InSequence
  <2>4. QED
    BY <1>1, <2>1, <2>2, <2>3
<1>11. /\ Len(acks') = Len(acks) + 1 /\ acks' # <<>> /\ acks'[Len(acks')] = ack
       /\ \A i \in 1..Len(acks) : acks'[i] = acks[i]
  BY <1>2, <1>6
<1>12. ASSUME NEW i \in 1..Len(acks') PROVE acks'[i].kind = "ack"
  <2>1. i \in 1..Len(acks) \/ i = Len(acks')
    BY <1>2, <1>11
  <2>2. CASE i \in 1..Len(acks)
    BY <1>11, <2>2 DEF InSequence
  <2>3. CASE i = Len(acks')
    BY <1>7, <1>11, <2>3
  <2>4. QED
    BY <2>1, <2>2, <2>3
<1>13. snd_una' < Size /\ win' \in Windows /\ (snd_nxt' = 0 \/ snd_nxt' >= AckInterval)
  BY <1>1 DEF InSequence
<1>14. acks' # <<>> /\ acks'[Len(acks')].seq = expected'
  BY <1>7, <1>11
<1>15. QED
  BY <1>9, <1>10, <1>12, <1>13, <1>14 DEF InSequence

\* The last answer on its way confirms all that may be confirmed.
LEMMA ReceiveAckInSequence ==
  ASSUME Promises, InSequence, ReceiveAck, ~complete'
  PROVE  InSequence' /\ snd_nxt' = snd_nxt
<1> DEFINE ack == Head(acks)
           una == Acknowledge(ack.seq)
<1>1. /\ acks # <<>> /\ ~complete /\ acks' = Tail(acks)
      /\ UNCHANGED <<data, win, expected, m_backto0>>
      /\ snd_una' = una /\ ~(una >= Size)
      /\ snd_nxt' = IF ack.kind = "nack" THEN una ELSE snd_nxt
  BY DEF ReceiveAck, RecoverQueue, IsFinished, receiver, rest, setting
<1>2. /\ Size \in Nat /\ snd_una \in 0..Size /\ expected \in Nat
      /\ acks \in Seq(Answers) /\ Len(acks) \in Nat
  BY TransportTypes
<1>3. /\ 1 \in 1..Len(acks) /\ ack = acks[1] /\ Len(acks') = Len(acks) - 1
      /\ \A m \in 1..(Len(acks) - 1) :
           acks'[m] = IF m < 1 THEN acks[m] ELSE acks[m + 1]
  BY <1>1, <1>2, TailPlaces
<1>4. ack.kind = "ack" /\ ack.seq \in Nat
  BY <1>3, TransportTypes DEF InSequence
<1>5. una = Larger(snd_una, Confirmable(ack.seq))
  BY DEF Acknowledge
<1>6. snd_nxt' = snd_nxt
  BY <1>1, <1>4
<1> HIDE DEF ack, una
<1>7. Confirmable(ack.seq) \in Nat /\ Confirmable(expected) \in Nat
  BY <1>2, <1>4, ConfirmableFacts
<1>8. snd_una <= Confirmable(expected)
  BY <1>1 DEF Promises, Delivered
<1>9. snd_una' < Size
  BY <1>1, <1>2, <1>5, <1>7 DEF Larger
<1>10. Confirmable(expected)' = Confirmable(expected)
  BY <1>1 DEF Confirmable, ChunkStart
<1>11. ASSUME NEW i \in 1..Len(acks')
       PROVE  i + 1 \in 1..Len(acks) /\ acks'[i] = acks[i + 1]
  BY <1>2, <1>3
<1>12. \A i \in 1..Len(acks') : acks'[i].kind = "ack"
  BY <1>11 DEF InSequence
<1>13. acks[Len(acks)].seq = expected
  BY <1>1 DEF InSequence
<1>14. ASSUME acks' = <<>> PROVE snd_una' = Confirmable(expected)'
  <2>1. Len(acks) = 1
    BY <1>2, <1>3, <1>14
  <2>2. ack.seq = expected
    BY <1>3, <1>13, <2>1
  <2>3. una = Confirmable(expected)
    BY <1>2, <1>5, <1>7, <1>8, <2>2 DEF Larger
  <2>4. QED
    BY <1>1, <1>10, <2>3
<1>15. ASSUME acks' # <<>> PROVE acks'[Len(acks')].seq = expected'
  <2>1. acks' \in Seq(Answers)
    BY <1>1, <1>2
  <2>2. Len(acks') \in 1..Len(acks') /\ Len(acks') + 1 = Len(acks)
    BY <1>2, <1>3, <1>15, <2>1
  <2>3. acks'[Len(acks')] = acks[Len(acks)]
    BY <1>11, <2>2
  <2>4. QED
    BY <1>1, <1>13, <2>3
<1>16. ASSUME NEW i PROVE Reached(i)' = Reached(i)
  BY <1>1 DEF Reached
<1>17. \A i \in 1..Len(data') : data'[i].seq = Reached(i - 1)' /\ Ends(data'[i]) >= AckInterval
  BY <1>1, <1>16 DEF InSequence
<1>18. /\ win' \in Windows /\ (snd_nxt' = 0 \/ snd_nxt' >= AckInterval)
       /\ snd_nxt' = Reached(Len(data))'
  BY <1>1, <1>6, <1>16 DEF InSequence
<1>19. QED
  BY <1>6, <1>9, <1>12, <1>14, <1>15, <1>17, <1>18 DEF InSequence

LEMMA QuietInSequence ==
  ASSUME Promises, InSequence, ~complete,
         ChangeRate \/ NackTimerExpires \/ ReceiveStrayAck \/ UNCHANGED vars
  PROVE  InSequence'
<1>1. UNCHANGED <<snd_nxt, snd_una, expected, data, acks, m_backto0>>
  BY DEF ChangeRate, NackTimerExpires, ReceiveStrayAck, vars, sender, receiver, network,
         rest, setting
<1>2. win' = win \/ win' \in Windows
  BY DEF ChangeRate, NackTimerExpires, ReceiveStrayAck, vars, sender
<1>3. Confirmable(expected)' = Confirmable(expected)
  BY <1>1 DEF Confirmable, ChunkStart
<1>4. ASSUME NEW i PROVE Reached(i)' = Reached(i)
  BY <1>1 DEF Reached
<1>5. QED
  BY <1>1, <1>2, <1>3, <1>4 DEF InSequence

LEMMA NextUnspoilt ==
  ASSUME AckInterval <= Mtu, AckInterval <= Size, Unspoilt, [Next]_vars
  PROVE  Unspoilt'
<1>1. UNCHANGED setting
  BY DEF Next, Send, ChangeRate, ReceiveUdp, NackTimerExpires, ReceiveAck, ReceiveStrayAck,
         Lose, Overtake, rest, vars
<1>2. Small' = Small
  BY <1>1 DEF Small, setting
<1>3. \/ UNCHANGED <<losses, overtakes>> /\ ~Lose /\ ~Overtake
      \/ Lose /\ losses' = losses + 1 /\ overtakes' = overtakes
      \/ Overtake /\ overtakes' = overtakes + 1 /\ losses' = losses
  <2>1. CASE Lose
    BY <2>1 DEF Lose
  <2>2. CASE Overtake
    BY <2>2 DEF Overtake
  <2>3. CASE ~Lose /\ ~Overtake
    BY <2>3 DEF Next, Send, ChangeRate, ReceiveUdp, NackTimerExpires, ReceiveAck,
                ReceiveStrayAck, rest, vars
  <2>4. QED
    BY <2>1, <2>2, <2>3
<1>4. losses' \in Nat /\ overtakes' \in Nat
  BY <1>3 DEF Unspoilt
<1>5. Small' => Promises'
  BY <1>2, NextPromises DEF Unspoilt, Small
<1>6. ASSUME Small', losses' = 0, overtakes' = 0, ~complete' PROVE InSequence'
  <2>1. losses = 0 /\ overtakes = 0 /\ ~Lose /\ ~Overtake
    BY <1>3, <1>6 DEF Unspoilt
  <2>2. ~complete
    BY <1>6 DEF Next, Send, ChangeRate, ReceiveUdp, NackTimerExpires, ReceiveAck,
                ReceiveStrayAck, Lose, Overtake, vars, sender
  <2>3. Promises /\ InSequence
    BY <1>2, <1>6, <2>1, <2>2 DEF Unspoilt
  <2>4. QED
    BY <1>6, <2>1, <2>2, <2>3, SendInSequence, ReceiveUdpInSequence, ReceiveAckInSequence,
       QuietInSequence DEF Next
<1>7. QED
  BY <1>4, <1>5, <1>6 DEF Unspoilt

\* What Completes rests on.  A sender waits, with nothing on its way to wake it, only when
\* something was lost or overtaken, or in chunk mode when its window is less than a chunk
\* or the flow is not a whole number of chunks.
StandsOnlyAfterLoss ==
  /\ losses = 0 /\ overtakes = 0 /\ ~complete /\ data = <<>> /\ acks = <<>>
  /\ m_backto0 => Mtu <= Chunk /\ Size % Chunk = 0 /\ win \notin 1..(Chunk - 1)
  => CanSend

LEMMA SmallDifference ==
  ASSUME NEW d \in Nat, NEW n \in Nat \ {0}, d < n
  PROVE  d % n = d
  OBVIOUS

LEMMA ChunkStartNear ==
  ASSUME NEW n \in Nat
  PROVE  /\ ChunkStart(n) \in Nat /\ ChunkStart(n) <= n
         /\ n < ChunkStart(n) + Chunk
  BY ChunkStartBounds

LEMMA WholeChunks ==
  ASSUME Size % Chunk = 0
  PROVE  ChunkStart(Size) = Size
<1>1. Chunk \in Nat \ {0} /\ Size \in Nat
  BY TransportAssumption
<1>2. PICK q : q = Size \div Chunk
  OBVIOUS
<1>3. q \in Nat /\ Size = Chunk * q + (Size % Chunk)
  BY <1>1, <1>2
<1>4. Size = Chunk * q
  BY <1>1, <1>3
<1>5. q * Chunk = Chunk * q
  BY <1>1, <1>3
<1>6. QED
  BY <1>2, <1>4, <1>5 DEF ChunkStart

THEOREM NoStandstill ==
  ASSUME AckInterval <= Mtu, AckInterval <= Size
  PROVE  Spec => []StandsOnlyAfterLoss
<1>1. Unspoilt => StandsOnlyAfterLoss
  <2> SUFFICES ASSUME Unspoilt, losses = 0, overtakes = 0, ~complete, data = <<>>,
                      acks = <<>>,
                      m_backto0 => Mtu <= Chunk /\ Size % Chunk = 0 /\ win \notin 1..(Chunk - 1)
               PROVE  CanSend
    BY DEF StandsOnlyAfterLoss
  <2>1. Promises /\ InSequence
    BY DEF Unspoilt, Small
  <2>2. /\ Size \in Nat /\ snd_nxt \in 0..Size /\ snd_una \in 0..Size /\ Chunk \in Nat \ {0}
        /\ win \in Windows
    BY <2>1, TransportTypes, TransportAssumption DEF InSequence
  <2>3. win \in Nat /\ Wrap \in Nat /\ Wrap > Size + win
    BY <2>2, TransportAssumption
  <2>4. expected = snd_nxt
    <3>1. Len(data) = 0
      OBVIOUS
    <3>2. QED
      BY <2>1, <3>1 DEF InSequence, Reached
  <2>5. snd_una = Confirmable(snd_nxt) /\ snd_una < Size
    BY <2>1, <2>4 DEF InSequence
  <2>6. snd_nxt # Size
    <3>1. CASE m_backto0
      BY <2>5, <3>1, <2>2, WholeChunks DEF Confirmable
    <3>2. CASE ~m_backto0
      BY <2>2, <2>5, <3>2 DEF Confirmable
    <3>3. QED
      BY <3>1, <3>2
  <2>7. snd_una <= snd_nxt /\ (win # 0 => snd_nxt - snd_una < win)
    <3>1. CASE m_backto0
      <4>1. /\ ChunkStart(snd_nxt) \in Nat /\ ChunkStart(snd_nxt) <= snd_nxt
            /\ snd_nxt < ChunkStart(snd_nxt) + Chunk
        <5>1. snd_nxt \in Nat
          BY <2>2
        <5>2. QED
          BY <5>1, ChunkStartNear, Zenon
      <4>2. snd_una = ChunkStart(snd_nxt)
        BY <2>5, <3>1 DEF Confirmable
      <4>3. win # 0 => win >= Chunk
        BY <2>2, <2>3, <3>1
      <4>4. QED
        BY <2>2, <2>3, <4>1, <4>2, <4>3
    <3>2. CASE ~m_backto0
      BY <2>2, <2>3, <2>5, <3>2 DEF Confirmable
    <3>3. QED
      BY <3>1, <3>2
  <2>8. GetOnTheFly = snd_nxt - snd_una
    <3>1. /\ snd_nxt - snd_una \in Nat /\ snd_nxt - snd_una < Wrap
          /\ Wrap \in Nat \ {0}
      BY <2>2, <2>3, <2>7
    <3>2. QED
      BY <3>1, SmallDifference DEF GetOnTheFly
  <2>9. ~IsWinBound
    BY <2>2, <2>3, <2>7, <2>8 DEF IsWinBound
  <2>10. GetBytesLeft > 0
    BY <2>2, <2>6 DEF GetBytesLeft
  <2>11. QED
    BY <2>9, <2>10 DEF CanSend
<1>2. QED
  BY <1>1, InitUnspoilt, NextUnspoilt, PTL DEF Spec

\* Where nothing was lost or overtaken the sender never goes back: no byte is sent twice,
\* also in chunk mode, where every NACK costs up to a chunk.
NothingSentTwice ==
  Small /\ losses = 0 /\ overtakes = 0 => snd_nxt' >= snd_nxt

THEOREM NoNeedlessResend ==
  ASSUME AckInterval <= Mtu, AckInterval <= Size
  PROVE  Spec => [][NothingSentTwice]_vars
<1>1. Unspoilt /\ [Next]_vars => [NothingSentTwice]_vars
  <2> SUFFICES ASSUME Unspoilt, Next, Small, losses = 0, overtakes = 0
               PROVE  snd_nxt' >= snd_nxt
    BY DEF NothingSentTwice
  <2>1. Promises
    BY DEF Unspoilt
  <2>2. snd_nxt \in 0..Size /\ Size \in Nat
    BY <2>1, TransportTypes
  <2>3. CASE ReceiveAck
    <3>1. /\ ~complete /\ acks # <<>>
          /\ snd_nxt' = IF Head(acks).kind = "nack" THEN RecoverQueue(Acknowledge(Head(acks).seq))
                        ELSE snd_nxt
      BY <2>3 DEF ReceiveAck
    <3>2. InSequence
      BY <3>1 DEF Unspoilt
    <3>3. acks \in Seq(Answers)
      BY <2>1, TransportTypes
    <3>4. 1 \in 1..Len(acks) /\ Head(acks) = acks[1]
      BY <3>1, <3>3
    <3>5. Head(acks).kind = "ack"
      BY <3>2, <3>4 DEF InSequence
    <3>6. snd_nxt' = snd_nxt
      BY <3>1, <3>5
    <3>7. QED
      BY <2>2, <3>6
  <2>4. CASE Send
    <3> DEFINE payload == IF Mtu < GetBytesLeft THEN Mtu ELSE GetBytesLeft
    <3>1. GetBytesLeft > 0 /\ snd_nxt' = snd_nxt + payload
      BY <2>4 DEF Send, CanSend
    <3>2. payload \in Nat
      BY <2>1, <2>2, <3>1, TransportTypes DEF GetBytesLeft
    <3>3. QED
      BY <2>2, <3>1, <3>2
  <2>5. CASE ~ReceiveAck /\ ~Send
    <3>1. snd_nxt' = snd_nxt
      BY <2>5 DEF Next, ChangeRate, ReceiveUdp, NackTimerExpires, ReceiveStrayAck, Lose,
                  Overtake, sender
    <3>2. QED
      BY <2>2, <3>1
  <2>6. QED
    BY <2>3, <2>4, <2>5
<1>2. QED
  BY <1>1, InitUnspoilt, NextUnspoilt, PTL DEF Spec

\* Without going back to the start of a chunk, where nothing is reordered, the unsigned
\* difference never wraps, and a sender the window holds back has bytes on the fly.  What
\* breaks WindowBoundsOnTheFly is therefore the chunk mode, or a network that is not Orderly.
WindowSeesOnTheFly ==
  Orderly /\ ~m_backto0 =>
    /\ GetOnTheFly = snd_nxt - snd_una
    /\ IsWinBound => snd_nxt > snd_una

THEOREM WindowIsSound == Spec => []WindowSeesOnTheFly
<1> DEFINE Held == KeepsAhead /\ win \in Windows
<1>1. Init => Held
  BY InitKeepsAhead DEF Init
<1>2. Held /\ [Next]_vars => Held'
  <2> SUFFICES ASSUME Held, [Next]_vars PROVE win' \in Windows
    BY NextKeepsAhead
  <2>1. win' = win \/ win' \in Windows
    BY DEF Next, Send, ChangeRate, ReceiveUdp, NackTimerExpires, ReceiveAck,
           ReceiveStrayAck, Lose, Overtake, vars, sender
  <2>2. QED
    BY <2>1
<1>3. Held => WindowSeesOnTheFly
  <2> SUFFICES ASSUME Held, Orderly, ~m_backto0
               PROVE  /\ GetOnTheFly = snd_nxt - snd_una
                      /\ IsWinBound => snd_nxt > snd_una
    BY DEF WindowSeesOnTheFly
  <2>1. Promises /\ InStep
    BY DEF KeepsAhead
  <2>2. /\ Size \in Nat /\ snd_nxt \in 0..Size /\ snd_una \in 0..Size /\ expected \in 0..Size
        /\ win \in Nat /\ Wrap \in Nat /\ Wrap > Size + win
    <3>1. Size \in Nat /\ snd_nxt \in 0..Size /\ snd_una \in 0..Size /\ expected \in 0..Size
      BY <2>1, TransportTypes
    <3>2. win \in Nat /\ Wrap \in Nat /\ Wrap > Size + win
      BY TransportAssumption
    <3>3. QED
      BY <3>1, <3>2
  <2>3. snd_una <= snd_nxt
    BY <2>1, <2>2 DEF InStep
  <2>4. GetOnTheFly = snd_nxt - snd_una
    <3>1. /\ snd_nxt - snd_una \in Nat /\ snd_nxt - snd_una < Wrap
          /\ Wrap \in Nat \ {0}
      BY <2>2, <2>3
    <3>2. QED
      BY <3>1, SmallDifference DEF GetOnTheFly
  <2>5. IsWinBound => snd_nxt > snd_una
    BY <2>2, <2>4 DEF IsWinBound
  <2>6. QED
    BY <2>4, <2>5
<1>4. QED
  BY <1>1, <1>2, <1>3, PTL DEF Spec

=============================================================================
