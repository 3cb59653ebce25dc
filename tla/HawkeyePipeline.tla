---------------------------- MODULE HawkeyePipeline ----------------------------
(***************************************************************************)
(* The stateful registers of the Hawkeye data plane (hawkeye.p4) in one    *)
(* egress pipe, and what each kind of packet does to them on its pass.     *)
(*                                                                         *)
(* Packets go through the stages of a pipe one behind another, so a pass   *)
(* is one step.  Time is the 16-bit counter of microseconds the registers  *)
(* see; an epoch is a number of its ticks and selects one of four windows. *)
(*                                                                         *)
(* Left out: the sums of queue depths and the meter per pair of ports.     *)
(* The meter starts at 250 and is only ever set back to 1, so the tests    *)
(* "port_meter_rate > 0" of the tables succeed, whatever entry is read.    *)
(***************************************************************************)
EXTENDS Integers

CONSTANTS
  Ports,        \* egress ports, as 8-bit device ports
  Flows, Slots,
  Nobody,       \* the addresses in a register nobody has written
  EgressPort,   \* EgressPort[f]
  Slot,         \* Slot[f]: the register index the tuple of f is hashed to
  EpochLength,  \* ticks
  Windows,      \* number of windows
  TimerMod,     \* ticks after which the time stamps repeat
  PauseTime     \* what a PAUSE frame sets the timer to

VARIABLES
  now,         \* reltv_tstamp[25:10]
  last_epoch,  \* re_last_epoch_idx
  pkt_last,    \* [port]: re_pkt_last_timer
  pause_timer, \* [port]: re_pause_timer
  port_paused, \* [window][port]: re_port_paused_num
  lock,        \* re_lock_flag
  owner,       \* [slot]: the flow whose addresses re_telemetry_dst_ip etc. hold
  pkt_num, enq_num, paused_num,  \* [window][slot]: the flow telemetry
  sincePause,  \* history: ticks since the last PAUSE frame of a port, up to PauseTime
  sawPause     \* history: a data packet of this epoch found the port paused

portVars == <<pkt_last, pause_timer, port_paused>>
flowVars == <<owner, pkt_num, enq_num, paused_num>>
historyVars == <<sincePause, sawPause>>
pipeVars == <<now, last_epoch, portVars, lock, flowVars, historyVars>>

WindowSet == 0..(Windows - 1)

ASSUME PipelineAssumption ==
  /\ EpochLength \in Nat \ {0} /\ Windows \in Nat \ {0}
  /\ PauseTime \in Nat \ {0} /\ TimerMod \in Nat
  /\ PauseTime < TimerMod
  /\ Nobody \notin Flows
  /\ EgressPort \in [Flows -> Ports] /\ Slot \in [Flows -> Slots]

-----------------------------------------------------------------------------

epoch_idx == (now \div EpochLength) % Windows

change_epoch == epoch_idx # last_epoch

\* A difference of two 16-bit time stamps.
time_delta(p) ==
  IF now >= pkt_last[p] THEN now - pkt_last[p] ELSE now - pkt_last[p] + TimerMod

is_paused(p) == pause_timer[p] > time_delta(p)

\* Every pass notes the epoch, of whatever kind the packet is.
NoteEpoch == last_epoch' = epoch_idx

\* Mutant of UpdatePauseTimer: the time is subtracted, but not noted.
UpdatePauseTimerOnly(p) ==
  /\ pkt_last' = pkt_last
  /\ pause_timer' = [pause_timer EXCEPT ![p] = IF is_paused(p) THEN @ - time_delta(p) ELSE 0]

UpdatePauseTimer(p) ==
  /\ pkt_last' = [pkt_last EXCEPT ![p] = now]
  /\ pause_timer' = [pause_timer EXCEPT ![p] = IF is_paused(p) THEN @ - time_delta(p) ELSE 0]

One(condition) == IF condition THEN 1 ELSE 0

\* Mutant of PausedNum: the port is not counted as paused by the packet that resets it.
PausedNumZero(p, value) == IF change_epoch THEN 0 ELSE value + One(is_paused(p))

\* The counter is reset only by the packet that notices the new epoch.
PausedNum(p, value) ==
  IF change_epoch THEN One(is_paused(p)) ELSE value + One(is_paused(p))

\* Mutant of UpdateFlow: the lock does not protect the flow telemetry.
UpdateFlowAlways(f) ==
  LET w == epoch_idx  s == Slot[f]  p == EgressPort[f]
  IN  /\ owner' = [owner EXCEPT ![s] = f]
      /\ pkt_num' = [pkt_num EXCEPT ![w][s] = @ + 1]
      /\ enq_num' = [enq_num EXCEPT ![w][s] = @ + One(~is_paused(p))]
      /\ paused_num' = [paused_num EXCEPT ![w][s] = @ + One(is_paused(p))]

\* The telemetry of the slot of a flow, unless the lock is set.  It is never reset:
\* should_reset_flow_epoch_data is assigned nowhere.
UpdateFlow(f) == IF lock THEN UNCHANGED flowVars ELSE UpdateFlowAlways(f)

\* The egress pass of a data packet.
Ipv4(f) ==
  LET p == EgressPort[f]
  IN  /\ NoteEpoch
      /\ UpdatePauseTimer(p)
      /\ port_paused' = [port_paused EXCEPT ![epoch_idx][p] = PausedNum(p, @)]
      /\ UpdateFlow(f)
      /\ sawPause' = [sawPause EXCEPT ![p] = @ \/ is_paused(p)]
      /\ UNCHANGED <<now, lock, sincePause>>

\* A PAUSE frame, reflected to the egress of the port it came by.  A resume frame
\* has the same type and does the same.
Pause(p) ==
  /\ NoteEpoch
  /\ pkt_last' = [pkt_last EXCEPT ![p] = now]
  /\ pause_timer' = [pause_timer EXCEPT ![p] = PauseTime]
  /\ sincePause' = [sincePause EXCEPT ![p] = 0]
  /\ UNCHANGED <<now, port_paused, lock, flowVars, sawPause>>

port_paused_num(p) == port_paused[epoch_idx][p]

\* The registers in the pass of a polling packet.
Polling(sets) ==
  /\ NoteEpoch
  /\ lock' = (lock \/ sets)
  /\ UNCHANGED <<now, portVars, flowVars, historyVars>>

Next_tick == IF now + 1 = TimerMod THEN 0 ELSE now + 1

Tick ==
  /\ now' = Next_tick
  /\ sincePause' = [p \in Ports |->
       IF sincePause[p] < PauseTime THEN sincePause[p] + 1 ELSE PauseTime]
  /\ sawPause' = [p \in Ports |-> sawPause[p] /\ Next_tick % EpochLength # 0]
  /\ UNCHANGED <<last_epoch, portVars, lock, flowVars>>

PipelineInit ==
  LET zeros == [w \in WindowSet |-> [s \in Slots |-> 0]]
  IN  /\ now = 0 /\ last_epoch = 0
      /\ pkt_last = [p \in Ports |-> 0]
      /\ pause_timer = [p \in Ports |-> 0]
      /\ port_paused = [w \in WindowSet |-> [p \in Ports |-> 0]]
      /\ lock = FALSE
      /\ owner = [s \in Slots |-> Nobody]
      /\ pkt_num = zeros /\ enq_num = zeros /\ paused_num = zeros
      /\ sincePause = [p \in Ports |-> PauseTime]
      /\ sawPause = [p \in Ports |-> FALSE]
=============================================================================
