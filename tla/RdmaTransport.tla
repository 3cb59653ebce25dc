----------------------------- MODULE RdmaTransport -----------------------------
(***************************************************************************)
(* One RDMA flow: the sending RdmaQueuePair, the receiving RdmaRxQueuePair *)
(* and the network between them (rdma-hw.cc, rdma-queue-pair.cc).          *)
(*                                                                         *)
(* The window is the only thing that stops the sender, an ACK or a NACK    *)
(* the only thing that wakes it: there is no retransmission timer.  Rates  *)
(* and pacing are abstracted to "may send now"; what congestion control    *)
(* does to the variable window is a choice of another one (ChangeRate).    *)
(*                                                                         *)
(* The network is FIFO each way, as hashing keeps a flow on one path.  It  *)
(* may lose anything (a full headroom, the error model, a link taken       *)
(* down), and a change of routes lets one message overtake another.        *)
(***************************************************************************)
EXTENDS Integers, Sequences, SequencesExt

CONSTANTS
  Size,         \* m_size, bytes of the flow
  Mtu,          \* m_mtu
  Chunk,        \* m_chunk
  AckInterval,  \* m_ack_interval, in bytes
  Windows,      \* what GetWin may return; {0} when there is no window
  Wrap,         \* 2^64, the range of snd_nxt - snd_una
  MaxLoss,      \* bound: messages lost
  MaxOvertake,  \* bound: overtakings
  MaxFlight     \* bound: packets in flight

VARIABLES
  snd_nxt, snd_una, win,  \* RdmaQueuePair
  complete,               \* QpComplete was called: m_qpMap has the flow no more
  expected,               \* ReceiverNextExpectedSeq
  nackTimer,              \* Now < m_nackTimer
  lastNACK,
  data, acks,             \* what is on its way
  m_backto0,              \* L2BackToZero: a gap rewinds to the start of a chunk
  slowPath,               \* a round trip may outlast the NACK interval
  losses, overtakes

sender == <<snd_nxt, snd_una, win, complete>>
receiver == <<expected, nackTimer, lastNACK>>
network == <<data, acks>>
setting == <<m_backto0, slowPath>>
rest == <<setting, losses, overtakes>>
vars == <<sender, receiver, network, rest>>

ASSUME TransportAssumption ==
  /\ Size \in Nat \ {0} /\ Mtu \in Nat \ {0} /\ Chunk \in Nat \ {0}
  /\ AckInterval \in Nat \ {0}
  /\ Windows \subseteq Nat /\ Windows # {}
  /\ Wrap \in Nat /\ \A w \in Windows : Wrap > Size + w
  /\ MaxLoss \in Nat /\ MaxOvertake \in Nat /\ MaxFlight \in Nat \ {0}

-----------------------------------------------------------------------------

ChunkStart(seq) == (seq \div Chunk) * Chunk

\* What an acknowledgement of seq is taken to acknowledge.
Confirmable(seq) == IF m_backto0 THEN ChunkStart(seq) ELSE seq

GetBytesLeft == IF Size >= snd_nxt THEN Size - snd_nxt ELSE 0

\* An unsigned subtraction of 64 bits.
GetOnTheFly == (snd_nxt - snd_una) % Wrap

IsWinBound == win # 0 /\ GetOnTheFly >= win

\* What GetNextQindex asks of a queue pair, but for pacing and pauses.
CanSend == GetBytesLeft > 0 /\ ~IsWinBound

\* GetNxtPacket.
Send ==
  LET payload == IF Mtu < GetBytesLeft THEN Mtu ELSE GetBytesLeft
  IN  /\ CanSend
      /\ Len(data) < MaxFlight
      /\ data' = Append(data, [seq |-> snd_nxt, size |-> payload])
      /\ snd_nxt' = snd_nxt + payload
      /\ UNCHANGED <<snd_una, win, complete, receiver, acks, rest>>

\* ChangeRate, seen from the window.
ChangeRate ==
  /\ ~complete
  /\ win' \in Windows \ {win}
  /\ UNCHANGED <<snd_nxt, snd_una, complete, receiver, network, rest>>

-----------------------------------------------------------------------------

\* ReceiveUdp sets m_milestone_rx to the interval before every packet.
AckDue(next) == next >= AckInterval \/ next % Chunk = 0

InOrder(packet) == packet.seq = expected

Accept(packet) ==
  LET next == packet.seq + packet.size
  IN  /\ InOrder(packet)
      /\ expected' = next
      /\ acks' = IF AckDue(next) THEN Append(acks, [kind |-> "ack", seq |-> next])
                 ELSE acks
      /\ UNCHANGED <<nackTimer, lastNACK>>

\* Mutant of NackDue: every packet behind a gap asks for it again.
NackAlways == TRUE

NackDue == ~nackTimer \/ lastNACK # expected

RewindReceiver == Confirmable(expected)

Nack(packet) ==
  /\ packet.seq > expected
  /\ NackDue
  /\ nackTimer' = TRUE
  /\ lastNACK' = expected
  /\ expected' = RewindReceiver
  /\ acks' = Append(acks, [kind |-> "nack", seq |-> RewindReceiver])

\* A gap for which a NACK is on its way, or a packet that was received before.
Ignore(packet) ==
  /\ packet.seq < expected \/ (packet.seq > expected /\ ~NackDue)
  /\ UNCHANGED <<receiver, acks>>

ReceiveUdp ==
  /\ data # <<>>
  /\ LET packet == Head(data)
     IN  Accept(packet) \/ Nack(packet) \/ Ignore(packet)
  /\ data' = Tail(data)
  /\ UNCHANGED <<sender, rest>>

\* The NACK interval is over.  On a fast path it outlasts what is in flight.
NackTimerExpires ==
  /\ nackTimer
  /\ slowPath \/ (data = <<>> /\ acks = <<>>)
  /\ nackTimer' = FALSE
  /\ UNCHANGED <<sender, expected, lastNACK, network, rest>>

-----------------------------------------------------------------------------

Larger(a, b) == IF a > b THEN a ELSE b

\* Mutant of Acknowledge: the sequence number is believed as it is, in chunk mode too.
AcknowledgeAll(seq) == Larger(snd_una, seq)

Acknowledge(seq) == Larger(snd_una, Confirmable(seq))

\* Mutant of RecoverQueue: nothing is sent again.
RecoverNothing(una) == snd_nxt

RecoverQueue(una) == una

\* Mutants of IsFinished: all has been sent; the boundary is missed.
IsSent(una) == snd_nxt >= Size
FinishedBeyond(una) == una > Size

IsFinished(una) == una >= Size

\* ReceiveAck, and qp_finish, which deletes the receiving queue pair.  A packet
\* that finds none gets a new one, so a deleted one is a fresh one.
ReceiveAck ==
  /\ acks # <<>> /\ ~complete
  /\ LET ack == Head(acks)
         una == Acknowledge(ack.seq)
     IN  /\ snd_una' = una
         /\ snd_nxt' = IF ack.kind = "nack" THEN RecoverQueue(una) ELSE snd_nxt
         /\ complete' = IsFinished(una)
         /\ IF complete'
            THEN expected' = 0 /\ nackTimer' = FALSE /\ lastNACK' = 0
            ELSE UNCHANGED receiver
  /\ acks' = Tail(acks)
  /\ UNCHANGED <<win, data, rest>>

\* ReceiveAck that "cannot find the flow".
ReceiveStrayAck ==
  /\ acks # <<>> /\ complete
  /\ acks' = Tail(acks)
  /\ UNCHANGED <<sender, receiver, data, rest>>

-----------------------------------------------------------------------------

Lose ==
  /\ losses < MaxLoss
  /\ losses' = losses + 1
  /\ \/ /\ \E i \in DOMAIN data : data' = RemoveAt(data, i)
        /\ UNCHANGED acks
     \/ /\ \E i \in DOMAIN acks : acks' = RemoveAt(acks, i)
        /\ UNCHANGED data
  /\ UNCHANGED <<sender, receiver, setting, overtakes>>

SwapWithNext(s, i) == [s EXCEPT ![i] = s[i + 1], ![i + 1] = s[i]]

Overtake ==
  /\ overtakes < MaxOvertake
  /\ overtakes' = overtakes + 1
  /\ \/ /\ \E i \in 1..(Len(data) - 1) : data' = SwapWithNext(data, i)
        /\ UNCHANGED acks
     \/ /\ \E i \in 1..(Len(acks) - 1) : acks' = SwapWithNext(acks, i)
        /\ UNCHANGED data
  /\ UNCHANGED <<sender, receiver, setting, losses>>

Init ==
  /\ snd_nxt = 0 /\ snd_una = 0 /\ win \in Windows /\ complete = FALSE
  /\ expected = 0 /\ nackTimer = FALSE /\ lastNACK = 0
  /\ data = <<>> /\ acks = <<>>
  /\ m_backto0 \in BOOLEAN /\ slowPath \in BOOLEAN
  /\ losses = 0 /\ overtakes = 0

Next ==
  \/ Send \/ ChangeRate
  \/ ReceiveUdp \/ NackTimerExpires
  \/ ReceiveAck \/ ReceiveStrayAck
  \/ Lose \/ Overtake

Spec == Init /\ [][Next]_vars

\* The simulator delivers what is on the wire, and lets time pass.
Fairness ==
  /\ WF_vars(Send)
  /\ WF_vars(ReceiveUdp) /\ WF_vars(NackTimerExpires)
  /\ WF_vars(ReceiveAck) /\ WF_vars(ReceiveStrayAck)

FairSpec == Spec /\ Fairness

-----------------------------------------------------------------------------

TypeOK ==
  /\ snd_nxt \in 0..Size /\ snd_una \in 0..Size /\ expected \in 0..Size
  /\ win \in Windows
  /\ complete \in BOOLEAN /\ nackTimer \in BOOLEAN /\ m_backto0 \in BOOLEAN
  /\ slowPath \in BOOLEAN
  /\ lastNACK \in 0..Size
  /\ data \in Seq([seq : 0..Size, size : 1..Mtu])
  /\ acks \in Seq([kind : {"ack", "nack"}, seq : 0..Size])

\* The transport keeps its promise whatever the network loses or reorders: the
\* receiver takes every packet once and in order, the sender confirms only what
\* the receiver has and will not throw away, and a flow that is complete is delivered.
InOrderDelivery == INSTANCE Delivery WITH
  Total <- Size,
  Grain <- Larger(Mtu, Chunk),
  delivered <- IF complete THEN Size ELSE Confirmable(expected),
  confirmed <- snd_una

ImplementsDelivery == InOrderDelivery!Spec

\* Packets, or acknowledgements, arrive in the order they were sent in, and an
\* answer arrives within the NACK interval.
Orderly == overtakes = 0 /\ ~slowPath

\* What has been acknowledged has been sent since the last rewind, so GetOnTheFly
\* does not wrap.  In chunk mode this is lost with the first gap: m_lastNACK
\* remembers the place before the rewind, and the next packet brings a second NACK.
NothingAckedUnsent == Orderly /\ ~m_backto0 => snd_una <= snd_nxt

\* "m_win; // bound of on-the-fly packets": a sender the window holds back has
\* bytes on the fly.
WindowBoundsOnTheFly == IsWinBound /\ ~complete => snd_nxt > snd_una

\* When the sender completes a flow none of its packets is still on its way, so
\* none re-creates the receiving queue pair that qp_finish has just deleted (in
\* chunk mode the second NACK leaves packets behind).
NothingFollowsCompletion == Orderly /\ complete /\ ~m_backto0 => data = <<>>

\* Where nothing is lost every flow completes.  In chunk mode it must be a whole
\* number of chunks, as the last acknowledgement is rounded down, and its window
\* must not fall below a chunk, of which the bytes received count as on the fly.
Completes ==
  (m_backto0 => Size % Chunk = 0)
    => <>(complete \/ losses > 0 \/ ~Orderly \/ (m_backto0 /\ win \in 1..(Chunk - 1)))

\* A NACK that was sent gets the receiver past the gap, unless a second message is
\* lost: the sender goes back, and nothing that comes after the NACK makes it lose
\* its place again.
NackBringsProgress ==
  \A e \in 0..(Size - 1) :
    (~m_backto0 /\ Orderly /\ losses = 1 /\ [kind |-> "nack", seq |-> e] \in ToSet(acks))
      ~> (expected > e \/ complete \/ losses > 1 \/ ~Orderly)
=============================================================================
