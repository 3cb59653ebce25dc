----------------------------- MODULE NicScheduler -----------------------------
(***************************************************************************)
(* How the NIC of a host chooses the next packet (QbbNetDevice with its    *)
(* RdmaEgressQueue): acknowledgements first, then round robin over the     *)
(* flows that are not paused, have something to send, have room in their   *)
(* window and may send again at their rate.  If there is none, the NIC     *)
(* sleeps until something wakes it: a timer for the earliest m_nextAvail,  *)
(* an acknowledgement, a resume, a new flow, the end of a transmission.    *)
(* Finished flows are taken out of the vector of flows in passing.         *)
(*                                                                         *)
(* Time is relative to now, in slots of one full packet at line rate;      *)
(* sequence numbers and windows count packets.                             *)
(***************************************************************************)
EXTENDS Integers, Sequences, FiniteSets, FiniteSetsExt, SequencesExt

CONSTANTS
  Flows,       \* numbers, in the order of their keys in m_qpMap
  NoFlow,      \* what is found past the end of the vector
  Size,        \* Size[flow], in packets
  Pg,          \* Pg[flow]: its priority group
  AckPg,       \* ack_q_idx, the group whose pause holds acknowledgements back
  m_win,       \* m_win[flow], 0 for none
  m_var_win,   \* the window follows the rate
  SendTimes,   \* slots from one packet of a flow to the next; 1 is line rate
  MaxEvents    \* bound: packets for the high-priority queue, NACKs and link failures

ASSUME NicAssumption ==
  /\ Flows \subseteq Nat /\ NoFlow \notin Flows
  /\ \A f \in Flows : Size[f] \in Nat \ {0} /\ m_win[f] \in Nat
  /\ SendTimes \subseteq Nat \ {0} /\ 1 \in SendTimes

None == -1

VARIABLES
  m_qps,        \* the vector of the flows
  m_rrlast,     \* index of the flow served last, from 0
  snd_nxt, snd_una,
  sendTime,     \* 1 / m_rate of a flow
  m_nextAvail,  \* of a flow
  m_nextSend,   \* the wake-up timer, or None
  txLeft,       \* what is left of the transmission, or None
  m_ackQ,       \* packets in the high-priority queue
  m_paused,     \* the paused groups
  m_cc_mode,    \* "mlx": timers set m_rate; "ack": ACKs do, by ChangeRate
  trigger,      \* DequeueAndTransmit is called next, by the event under way
  reassigned,   \* the flows RedistributeQp has yet to add
  events        \* those bounded by MaxEvents

wire == <<snd_nxt, snd_una>>
rates == <<sendTime, m_nextAvail>>
nicVars == <<m_qps, m_rrlast, wire, rates, m_nextSend, txLeft, m_ackQ, m_paused,
          m_cc_mode, trigger, reassigned, events>>

Groups == {AckPg} \cup {Pg[f] : f \in Flows}

\* Events run one by one, each with the DequeueAndTransmit it calls.
Settled == ~trigger /\ reassigned = <<>>

-----------------------------------------------------------------------------

BytesLeft(f) == Max({Size[f] - snd_nxt[f], 0})
IsFinished(f) == snd_una[f] >= Size[f]

\* The window in packets: bytes on the fly are compared with m_win * rate / max rate.
GetWin(f) ==
  IF m_var_win THEN (m_win[f] + sendTime[f] - 1) \div sendTime[f] ELSE m_win[f]

IsWinBound(f) == GetWin(f) # 0 /\ snd_nxt[f] - snd_una[f] >= GetWin(f)

CanSend(f) == Pg[f] \notin m_paused /\ BytesLeft(f) > 0 /\ ~IsWinBound(f)
Ready(f) == CanSend(f) /\ m_nextAvail[f] <= 0

\* Values this far in the past make no difference: no change of rate brings them back.
Past == Min(SendTimes) - Max(SendTimes)
Ago(t) == Max({t, Past})

GetQp(qps, i) == IF i < Len(qps) THEN qps[i + 1] ELSE NoFlow

\* The numbers of a set, the smallest first.
Ascending(S) ==
  [n \in 1..Cardinality(S) |-> CHOOSE x \in S : Cardinality({y \in S : y < x}) = n - 1]

\* GetNextQindex scans the vector from behind the flow served last.
Scanned(k) == (k + m_rrlast) % Len(m_qps)
ReadyAt == {k \in 1..Len(m_qps) : Ready(GetQp(m_qps, Scanned(k)))}

\* The finished flows met before one that is ready.
FinishedMet ==
  {i \in {Scanned(k) : k \in {l \in 1..Len(m_qps) : \A r \in ReadyAt : l < r}} :
     IsFinished(GetQp(m_qps, i))}

\* From the first of them on, the finished flows are cleared.
IsKept(i) == (\A j \in FinishedMet : i < j) \/ ~IsFinished(GetQp(m_qps, i))
Kept == LET kept == Ascending({i \in 0..(Len(m_qps) - 1) : IsKept(i)})
        IN  [n \in DOMAIN kept |-> GetQp(m_qps, kept[n])]

\* Mutant of Renumbered: the index is not updated.
NotRenumbered(res) == res

\* The place of the flow chosen in the vector that has been cleared.
Renumbered(res) == Cardinality({i \in 0..(res - 1) : IsKept(i)})

\* The m_nextAvail of the flows with bytes left, paused and window-bound ones included.
Wakeups(qps) == {m_nextAvail[f] : f \in {g \in ToSet(qps) : BytesLeft(g) > 0}}

\* The timer is armed if it is not and if the earliest of them is still to come.
ArmTimer(times) ==
  m_nextSend' = IF m_nextSend = None /\ times # {} /\ \A t \in times : t > 0
                THEN Min(times) ELSE m_nextSend

SendAck ==
  /\ m_ackQ' = m_ackQ - 1
  /\ txLeft' = 0
  /\ UNCHANGED <<m_qps, m_rrlast, wire, rates, m_nextSend>>

\* DequeueQindex, GetNxtPacket, PktSent.
SendFlow ==
  LET res == Renumbered(Scanned(Min(ReadyAt)))
      f == GetQp(Kept, res)
  IN  /\ m_qps' = Kept
      /\ m_rrlast' = res
      /\ snd_nxt' = [g \in Flows |->
           IF g = f THEN Min({snd_nxt[f] + 1, Size[f]}) ELSE snd_nxt[g]]
      /\ m_nextAvail' = [g \in Flows |-> IF g = f THEN sendTime[f] ELSE m_nextAvail[g]]
      /\ txLeft' = 1
      /\ UNCHANGED <<snd_una, sendTime, m_nextSend, m_ackQ>>

Sleep ==
  /\ m_qps' = Kept
  /\ ArmTimer(Wakeups(Kept))
  /\ UNCHANGED <<m_rrlast, wire, rates, txLeft, m_ackQ>>

DequeueAndTransmit ==
  /\ trigger
  /\ trigger' = FALSE
  /\ \/ /\ txLeft # None
        /\ UNCHANGED <<m_qps, m_rrlast, wire, rates, m_nextSend, txLeft, m_ackQ>>
     \/ txLeft = None /\ AckPg \notin m_paused /\ m_ackQ > 0 /\ SendAck
     \/ /\ txLeft = None /\ (AckPg \in m_paused \/ m_ackQ = 0)
        /\ IF ReadyAt # {} THEN SendFlow ELSE Sleep
  /\ UNCHANGED <<m_paused, m_cc_mode, reassigned, events>>

-----------------------------------------------------------------------------

TransmitComplete ==
  /\ Settled /\ txLeft = 0
  /\ txLeft' = None
  /\ trigger' = TRUE
  /\ UNCHANGED <<m_qps, m_rrlast, wire, rates, m_nextSend, m_ackQ, m_paused, m_cc_mode,
                 reassigned, events>>

TimerExpires ==
  /\ Settled /\ m_nextSend = 0
  /\ m_nextSend' = None
  /\ trigger' = TRUE
  /\ UNCHANGED <<m_qps, m_rrlast, wire, rates, txLeft, m_ackQ, m_paused, m_cc_mode,
                 reassigned, events>>

\* AddQueuePair: the rate is the line rate.
NewQp(f) ==
  /\ Settled
  /\ f \notin ToSet(m_qps) /\ snd_nxt[f] = 0
  /\ m_qps' = Append(m_qps, f)
  /\ m_nextAvail' = [m_nextAvail EXCEPT ![f] = 0]
  /\ trigger' = TRUE
  /\ UNCHANGED <<m_rrlast, wire, sendTime, m_nextSend, txLeft, m_ackQ, m_paused,
                 m_cc_mode, reassigned, events>>

\* The timer is moved forward if t is before it.
UpdateNextAvail(t) ==
  m_nextSend' = IF m_nextSend # None /\ t < m_nextSend THEN Max({t, 0}) ELSE m_nextSend

ChangeRate(f, time) ==
  LET avail == m_nextAvail[f] + time - sendTime[f]
  IN  /\ sendTime' = [sendTime EXCEPT ![f] = time]
      /\ m_nextAvail' = [m_nextAvail EXCEPT ![f] = Ago(avail)]
      /\ UpdateNextAvail(avail)

\* ReceiveAck on a flow that is not finished, of an ACK or, if isNack, of a NACK.
ReceiveAck(f, seq, isNack) ==
  /\ Settled
  /\ snd_una[f] < snd_nxt[f]
  /\ snd_una' = [snd_una EXCEPT ![f] = seq]
  /\ snd_nxt' = IF isNack THEN [snd_nxt EXCEPT ![f] = seq] ELSE snd_nxt
  /\ IF m_cc_mode = "ack"
     THEN \E time \in SendTimes : ChangeRate(f, time)
     ELSE UNCHANGED <<rates, m_nextSend>>
  /\ trigger' = TRUE
  /\ UNCHANGED <<m_qps, m_rrlast, txLeft, m_ackQ, m_paused, m_cc_mode, reassigned>>

Ack(f) ==
  /\ \E seq \in (snd_una[f] + 1)..snd_nxt[f] : ReceiveAck(f, seq, FALSE)
  /\ UNCHANGED events

ReceiveNack(f) ==
  /\ events < MaxEvents
  /\ \E seq \in snd_una[f]..(snd_nxt[f] - 1) : ReceiveAck(f, seq, TRUE)
  /\ events' = events + 1

\* The timers of DCQCN, and a CNP, set m_rate and nothing else.
SetRate(f) ==
  /\ Settled /\ m_cc_mode = "mlx"
  /\ snd_nxt[f] > 0 /\ ~IsFinished(f)
  /\ \E time \in SendTimes : sendTime' = [sendTime EXCEPT ![f] = time]
  /\ UNCHANGED <<m_qps, m_rrlast, wire, m_nextAvail, m_nextSend, txLeft, m_ackQ,
                 m_paused, m_cc_mode, trigger, reassigned, events>>

\* ReceiveUdp answers a packet, or ScheduleAckClock polls.
RdmaEnqueueHighPrioQ ==
  /\ Settled /\ events < MaxEvents
  /\ m_ackQ' = m_ackQ + 1
  /\ trigger' = TRUE
  /\ events' = events + 1
  /\ UNCHANGED <<m_qps, m_rrlast, wire, rates, m_nextSend, txLeft, m_paused, m_cc_mode,
                 reassigned>>

Pause(pg) ==
  /\ Settled /\ pg \notin m_paused
  /\ m_paused' = m_paused \cup {pg}
  /\ UNCHANGED <<m_qps, m_rrlast, wire, rates, m_nextSend, txLeft, m_ackQ, m_cc_mode,
                 trigger, reassigned, events>>

\* Mutant of Resume: nobody looks for a packet.
ResumeSilently(pg) ==
  /\ Settled /\ pg \in m_paused
  /\ m_paused' = m_paused \ {pg}
  /\ UNCHANGED <<m_qps, m_rrlast, wire, rates, m_nextSend, txLeft, m_ackQ, m_cc_mode,
                 trigger, reassigned, events>>

Resume(pg) ==
  /\ Settled /\ pg \in m_paused
  /\ m_paused' = m_paused \ {pg}
  /\ trigger' = TRUE
  /\ UNCHANGED <<m_qps, m_rrlast, wire, rates, m_nextSend, txLeft, m_ackQ, m_cc_mode,
                 reassigned, events>>

\* After a link failure, the flows of m_qpMap are dealt out anew: one by one, in the
\* order of their keys, each with a DequeueAndTransmit over those dealt so far.
RedistributeQp ==
  /\ Settled /\ events < MaxEvents
  /\ m_qps' = <<>>
  /\ reassigned' = Ascending({f \in ToSet(m_qps) : ~IsFinished(f)})
  /\ events' = events + 1
  /\ UNCHANGED <<m_rrlast, wire, rates, m_nextSend, txLeft, m_ackQ, m_paused, m_cc_mode,
                 trigger>>

ReassignedQp ==
  /\ ~trigger /\ reassigned # <<>>
  /\ m_qps' = Append(m_qps, Head(reassigned))
  /\ reassigned' = Tail(reassigned)
  /\ trigger' = TRUE
  /\ UNCHANGED <<m_rrlast, wire, rates, m_nextSend, txLeft, m_ackQ, m_paused, m_cc_mode,
                 events>>

\* Time goes on when nothing is due now.
TimePasses ==
  /\ Settled /\ txLeft # 0 /\ m_nextSend # 0
  /\ txLeft' = IF txLeft = None THEN None ELSE txLeft - 1
  /\ m_nextSend' = IF m_nextSend = None THEN None ELSE m_nextSend - 1
  /\ m_nextAvail' = [f \in Flows |-> Ago(m_nextAvail[f] - 1)]
  /\ UNCHANGED <<m_qps, m_rrlast, wire, sendTime, m_ackQ, m_paused, m_cc_mode, trigger,
                 reassigned, events>>

NicInit ==
  /\ m_qps = <<>> /\ m_rrlast = 0
  /\ snd_nxt = [f \in Flows |-> 0] /\ snd_una = [f \in Flows |-> 0]
  /\ sendTime = [f \in Flows |-> 1]
  /\ m_nextAvail = [f \in Flows |-> 0]
  /\ m_nextSend = None /\ txLeft = None
  /\ m_ackQ = 0 /\ m_paused = {}
  /\ m_cc_mode \in {"mlx", "ack"}
  /\ trigger = FALSE /\ reassigned = <<>>
  /\ events = 0

NicNext ==
  \/ DequeueAndTransmit \/ TransmitComplete \/ TimerExpires \/ TimePasses
  \/ \E f \in Flows : NewQp(f) \/ Ack(f) \/ ReceiveNack(f) \/ SetRate(f)
  \/ RdmaEnqueueHighPrioQ
  \/ \E pg \in Groups : Pause(pg) \/ Resume(pg)
  \/ RedistributeQp \/ ReassignedQp

NicSpec == NicInit /\ [][NicNext]_nicVars

\* Events that are due happen, time goes on, what is sent is acknowledged, and a pause
\* ends.
FairNicSpec ==
  /\ NicSpec
  /\ WF_nicVars(DequeueAndTransmit \/ ReassignedQp)
  /\ SF_nicVars(TransmitComplete \/ TimerExpires \/ TimePasses)
  /\ \A f \in Flows : SF_nicVars(Ack(f))
  /\ \A pg \in Groups : SF_nicVars(Resume(pg))

-----------------------------------------------------------------------------

\* Whenever the NIC is asked for a packet while some flow may send, the packet that
\* leaves is one of a flow that may send: the index chosen during the scan still means
\* that flow after the finished ones have been cleared out of the vector.
SendsWhenPossible ==
  [][trigger /\ txLeft = None /\ (AckPg \in m_paused \/ m_ackQ = 0) =>
       LET ready == {f \in ToSet(m_qps) : Ready(f)}
       IN  IF ready = {} THEN wire' = wire
           ELSE \E f \in ready : snd_nxt' = [snd_nxt EXCEPT ![f] = @ + 1]]_nicVars

\* Every flow that is started is acknowledged to its end, whatever the rates, the
\* windows and the pauses of the others.
AllComplete == \A f \in Flows : f \in ToSet(m_qps) ~> IsFinished(f)
=============================================================================
