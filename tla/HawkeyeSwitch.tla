----------------------------- MODULE HawkeyeSwitch -----------------------------
(***************************************************************************)
(* One Tofino switch under Hawkeye: the ingress tables, the egress passes  *)
(* (HawkeyePipeline), the mirror session to the CPU port, and the control- *)
(* ler on the CPU (ctrl.c), which reads the telemetry out, one register    *)
(* after another, while packets keep coming, and then takes the lock off.  *)
(*                                                                         *)
(* A register read or written by the controller takes far longer than a    *)
(* pass through the pipe.  The registers of ports, which it prints first,  *)
(* are not protected by the lock and are left out of the read-out.         *)
(***************************************************************************)
EXTENDS HawkeyePipeline, Sequences, SequencesExt

CONSTANTS
  Events,       \* event IDs
  ResetEvent,   \* 255
  ReadWindows,  \* epoch_num: the windows the controller reads
  PollPorts,    \* bound: ports by which polling packets arrive
  MaxPackets    \* bound: packets of any kind that arrive

VARIABLES
  polls,     \* copies of polling packets on their way to an egress port
  mirrored,  \* copies in the mirror session, on their way to the egress of CpuPort
  inbox,     \* copies in the socket of the controller
  reading,   \* the copy whose event is being read out, or idle
  snapshot,  \* the columns read so far
  used_flag, \* the events that were processed
  orphaned,  \* history: a copy was dropped as a duplicate since the lock was taken off
  packets    \* that arrived

ctrlVars == <<reading, snapshot, used_flag>>
copyVars == <<polls, mirrored, inbox>>
vars == <<pipeVars, copyVars, ctrlVars, orphaned, packets>>

idle == [event |-> -1]
NoTarget == 511

ASSUME SwitchAssumption ==
  /\ Ports \subseteq Nat /\ PollPorts \subseteq Ports
  /\ Events \subseteq Nat /\ ReadWindows \in 1..Windows
  /\ MaxPackets \in Nat

-----------------------------------------------------------------------------

OnePacket == packets < MaxPackets /\ packets' = packets + 1

\* ti_match_polling_TP.  A polling packet of the traced path (TP 1) goes to the
\* egress port of the flow; a signal goes to all other ports, with the egress port of
\* the flow (TP 3) or with none (TP 2).
Replicas(in, tp, out) ==
  CASE tp = 1 -> {[port |-> out, target |-> out]}
    [] tp = 2 -> {[port |-> p, target |-> NoTarget] : p \in Ports \ {in}}
    [] tp = 3 -> {[port |-> p, target |-> out] : p \in Ports \ {in}}

PollArrives(in, tp, out, event) ==
  /\ OnePacket
  /\ in # out
  /\ polls' = polls \cup
       {[port |-> r.port, target |-> r.target, tp |-> tp, event |-> event,
         number |-> packets] : r \in Replicas(in, tp, out)}
  /\ UNCHANGED <<pipeVars, mirrored, inbox, ctrlVars, orphaned>>

\* An 8-bit difference.
comp_egress_port(poll) == ((poll.target % 256) - poll.port) % 256

\* Mutant of SetsLock: the other ports of a signal set the lock too.
SetsLockAlways(poll) == TRUE

\* te_select_update_lock_flag.
SetsLock(poll) ==
  \/ poll.tp \in {1, 3} /\ comp_egress_port(poll) = 0
  \/ poll.tp \in {2, 3} /\ comp_egress_port(poll) = 1 /\ port_paused_num(poll.port) > 0

\* te_match_polling_TP_port: what is copied to the CPU, and sent on.
Copied(poll) ==
  \/ poll.tp \in {1, 3} /\ comp_egress_port(poll) = 0
  \/ /\ poll.tp \in {2, 3} /\ comp_egress_port(poll) # 0
     /\ port_paused_num(poll.port) > 0

Quiet == mirrored = <<>> /\ inbox = <<>> /\ reading = idle

CopyOf(poll) ==
  [event |-> poll.event, locked |-> SetsLock(poll), alone |-> SetsLock(poll) /\ Quiet]

\* The egress pass of a polling packet.
PollPass(poll) ==
  /\ Polling(SetsLock(poll))
  /\ polls' = polls \ {poll}
  /\ mirrored' = IF Copied(poll) THEN Append(mirrored, CopyOf(poll)) ELSE mirrored
  /\ UNCHANGED <<inbox, ctrlVars, orphaned, packets>>

\* The egress pass of a copy.  Its mirror flag keeps it out of the second table, and the
\* CPU port is the target of no packet.
MirrorPass ==
  /\ mirrored # <<>>
  /\ Polling(FALSE)
  /\ inbox' = Append(inbox, Head(mirrored))
  /\ mirrored' = Tail(mirrored)
  /\ UNCHANGED <<polls, ctrlVars, orphaned, packets>>

DataPass(f) ==
  /\ OnePacket
  /\ Ipv4(f)
  /\ UNCHANGED <<copyVars, ctrlVars, orphaned>>

PausePass(p) ==
  /\ OnePacket
  /\ Pause(p)
  /\ UNCHANGED <<copyVars, ctrlVars, orphaned>>

TimePasses ==
  /\ Tick
  /\ UNCHANGED <<copyVars, ctrlVars, orphaned, packets>>

-----------------------------------------------------------------------------

\* The registers of flows in the order of the read-out.
Columns ==
  FlattenSeq([i \in 1..ReadWindows |->
                <<<<"pkt_num", i - 1>>, <<"enq_num", i - 1>>, <<"paused_num", i - 1>>>>])
    \o <<<<"dst_ip", 0>>, <<"src_ip", 0>>, <<"src_port", 0>>>>

Column(c) ==
  CASE c[1] = "pkt_num" -> pkt_num[c[2]]
    [] c[1] = "enq_num" -> enq_num[c[2]]
    [] c[1] = "paused_num" -> paused_num[c[2]]
    [] OTHER -> owner

process_event_id(event) == event \notin used_flag

UsedAfter(event) == IF event = ResetEvent THEN {} ELSE used_flag \cup {event}

Accept ==
  /\ reading = idle /\ inbox # <<>>
  /\ process_event_id(Head(inbox).event)
  /\ used_flag' = UsedAfter(Head(inbox).event)
  /\ reading' = Head(inbox)
  /\ inbox' = Tail(inbox)
  /\ UNCHANGED <<pipeVars, polls, mirrored, snapshot, orphaned, packets>>

\* A duplicate is skipped, and the lock left as it is.
Skip ==
  /\ reading = idle /\ inbox # <<>>
  /\ ~process_event_id(Head(inbox).event)
  /\ orphaned' = (orphaned \/ Head(inbox).locked)
  /\ inbox' = Tail(inbox)
  /\ UNCHANGED <<pipeVars, polls, mirrored, ctrlVars, packets>>

registers_syn_get ==
  /\ reading # idle /\ Len(snapshot) < Len(Columns)
  /\ snapshot' = Append(snapshot, Column(Columns[Len(snapshot) + 1]))
  /\ UNCHANGED <<pipeVars, copyVars, reading, used_flag, orphaned, packets>>

\* re_lock_flag_write_to_completion, and back to recv_update_polling.
TakeLockOff ==
  /\ reading # idle /\ Len(snapshot) = Len(Columns)
  /\ lock' = FALSE /\ orphaned' = FALSE
  /\ reading' = idle /\ snapshot' = <<>>
  /\ UNCHANGED <<now, last_epoch, portVars, flowVars, historyVars, copyVars,
                 used_flag, packets>>

Init ==
  /\ PipelineInit
  /\ polls = {} /\ mirrored = <<>> /\ inbox = <<>>
  /\ reading = idle /\ snapshot = <<>> /\ used_flag = {}
  /\ orphaned = FALSE /\ packets = 0

Next ==
  \/ \E in \in PollPorts, out \in Ports, tp \in {1, 2, 3}, e \in Events :
       PollArrives(in, tp, out, e)
  \/ \E poll \in polls : PollPass(poll)
  \/ MirrorPass
  \/ \E f \in Flows : DataPass(f)
  \/ \E p \in Ports : PausePass(p)
  \/ TimePasses
  \/ Accept \/ Skip \/ registers_syn_get \/ TakeLockOff

Spec == Init /\ [][Next]_vars

-----------------------------------------------------------------------------

\* A PAUSE frame is not forgotten before its time: a data packet that comes to the
\* port within the pause time finds it paused, whatever came in between and however
\* the time stamps wrap.
PauseNeverMissed == \A p \in Ports : sincePause[p] < PauseTime => is_paused(p)

\* A port that was found paused in this epoch has a positive counter in the window a
\* polling packet reads, so the trace goes on through it.
PausesCounted == \A p \in Ports : sawPause[p] => port_paused_num(p) > 0

\* A read-out of an event that locked the telemetry while the controller had nothing
\* else to do is of one moment: what has been read still stands when the last
\* register has been read.
ReadoutConsistent ==
  reading # idle /\ reading.alone =>
    \A i \in DOMAIN snapshot : snapshot[i] = Column(Columns[i])

\* The lock is set for somebody who will take it off: a copy on its way, or the read-
\* out going on; or its copy was dropped as a duplicate, and nobody will.
LockExplained ==
  lock => \/ \E i \in DOMAIN mirrored : mirrored[i].locked
          \/ \E i \in DOMAIN inbox : inbox[i].locked
          \/ reading # idle
          \/ orphaned
=============================================================================
