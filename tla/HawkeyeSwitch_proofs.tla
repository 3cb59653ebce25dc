------------------------- MODULE HawkeyeSwitch_proofs -------------------------
(***************************************************************************)
(* The safety properties of HawkeyeSwitch hold for all ports, flows,       *)
(* events, epoch lengths and pause times, and without a bound on packets   *)
(* or on what is on its way to the controller.                             *)
(*                                                                         *)
(* Three inductive invariants, each about variables the others do not      *)
(* need: Timers (what a pause timer still has to run), Counted (when a     *)
(* paused counter was last reset) and Handover (where the copies are that  *)
(* have set the lock).                                                     *)
(***************************************************************************)
EXTENDS HawkeyeSwitch, TLAPS

-----------------------------------------------------------------------------
(***************************************************************************)
(* Pauses are remembered.                                                  *)
(***************************************************************************)
Stamps == 0..(TimerMod - 1)

timerVars == <<now, pkt_last, pause_timer, sincePause>>

\* Within the pause time the timer of a port runs for what is left of it, so the age of
\* its time stamp is below PauseTime and has not wrapped.
Timers ==
  /\ now \in Stamps
  /\ pkt_last \in [Ports -> Stamps]
  /\ pause_timer \in [Ports -> 0..PauseTime]
  /\ sincePause \in [Ports -> 0..PauseTime]
  /\ \A p \in Ports : sincePause[p] < PauseTime =>
       pause_timer[p] - time_delta(p) >= PauseTime - sincePause[p]

\* The passes of a data packet and of a PAUSE frame, and the clock, are all that moves
\* a timer.
LEMMA TimerSteps ==
  ASSUME [Next]_vars
  PROVE  \/ \E f \in Flows : Ipv4(f)
         \/ \E p \in Ports : Pause(p)
         \/ Tick
         \/ UNCHANGED timerVars
<1>1. CASE UNCHANGED vars
  BY <1>1 DEF vars, pipeVars, portVars, historyVars, timerVars
<1>2. CASE Next
  <2>1. ASSUME NEW in \in PollPorts, NEW out \in Ports, NEW tp \in {1, 2, 3},
               NEW e \in Events, PollArrives(in, tp, out, e)
        PROVE  UNCHANGED timerVars
    BY <2>1 DEF PollArrives, pipeVars, portVars, historyVars, timerVars
  <2>2. ASSUME NEW poll \in polls, PollPass(poll)
        PROVE  UNCHANGED timerVars
    BY <2>2 DEF PollPass, Polling, portVars, historyVars, timerVars
  <2>3. ASSUME MirrorPass PROVE UNCHANGED timerVars
    BY <2>3 DEF MirrorPass, Polling, portVars, historyVars, timerVars
  <2>4. ASSUME Accept \/ Skip \/ registers_syn_get \/ TakeLockOff
        PROVE  UNCHANGED timerVars
    BY <2>4 DEF Accept, Skip, registers_syn_get, TakeLockOff, pipeVars, portVars,
                historyVars, timerVars
  <2>5. QED
    BY <1>2, <2>1, <2>2, <2>3, <2>4 DEF Next, DataPass, PausePass, TimePasses
<1>3. QED
  BY <1>1, <1>2

LEMMA AgeType ==
  ASSUME Timers, NEW p \in Ports
  PROVE  time_delta(p) \in 0..(TimerMod - 1)
  BY PipelineAssumption DEF Timers, Stamps, time_delta

LEMMA InitTimers == Init => Timers
  BY PipelineAssumption DEF Init, PipelineInit, Timers, Stamps, time_delta

\* What noting the time does: the timer of the port has run down by the age of its stamp.
LEMMA Ipv4Timers ==
  ASSUME Timers, NEW f \in Flows, Ipv4(f)
  PROVE  Timers'
<1> DEFINE p == EgressPort[f]
<1>1. p \in Ports
  BY PipelineAssumption
<1> HIDE DEF p
<1>2. /\ now' = now /\ sincePause' = sincePause
      /\ pkt_last' = [pkt_last EXCEPT ![p] = now]
      /\ pause_timer' =
           [pause_timer EXCEPT ![p] = IF is_paused(p) THEN @ - time_delta(p) ELSE 0]
  BY DEF Ipv4, UpdatePauseTimer, p
<1>3. time_delta(p) \in Nat
  BY <1>1, AgeType DEF Timers, Stamps
<1>4. pause_timer'[p] \in 0..PauseTime
  BY <1>1, <1>2, <1>3, PipelineAssumption DEF Timers, is_paused
<1>5. ASSUME NEW q \in Ports, sincePause'[q] < PauseTime
      PROVE  pause_timer'[q] - time_delta(q)' >= PauseTime - sincePause'[q]
  <2>1. CASE q = p
    <3>1. time_delta(q)' = 0
      BY <1>1, <1>2, <2>1 DEF time_delta, Timers, Stamps
    <3>2. pause_timer[p] - time_delta(p) >= PauseTime - sincePause[p]
      BY <1>1, <1>2, <1>5, <2>1 DEF Timers
    <3>3. is_paused(p) /\ pause_timer'[p] = pause_timer[p] - time_delta(p)
      BY <1>1, <1>2, <1>3, <1>5, <2>1, <3>2, PipelineAssumption DEF is_paused, Timers
    <3>4. QED
      BY <1>1, <1>2, <1>3, <2>1, <3>1, <3>2, <3>3, PipelineAssumption DEF Timers
  <2>2. CASE q # p
    <3>1. time_delta(q)' = time_delta(q) /\ pause_timer'[q] = pause_timer[q]
      BY <1>2, <2>2 DEF time_delta, Timers
    <3>2. QED
      BY <1>2, <1>5, <3>1 DEF Timers
  <2>3. QED
    BY <2>1, <2>2
<1>6. QED
  BY <1>1, <1>2, <1>4, <1>5 DEF Timers

LEMMA PauseTimers ==
  ASSUME Timers, NEW p \in Ports, Pause(p)
  PROVE  Timers'
<1>1. /\ now' = now
      /\ pkt_last' = [pkt_last EXCEPT ![p] = now]
      /\ pause_timer' = [pause_timer EXCEPT ![p] = PauseTime]
      /\ sincePause' = [sincePause EXCEPT ![p] = 0]
  BY DEF Pause
<1>2. ASSUME NEW q \in Ports, sincePause'[q] < PauseTime
      PROVE  pause_timer'[q] - time_delta(q)' >= PauseTime - sincePause'[q]
  <2>1. CASE q = p
    BY <1>1, <2>1, PipelineAssumption DEF time_delta, Timers, Stamps
  <2>2. CASE q # p
    <3>1. /\ time_delta(q)' = time_delta(q) /\ pause_timer'[q] = pause_timer[q]
          /\ sincePause'[q] = sincePause[q]
      BY <1>1, <2>2 DEF time_delta, Timers
    <3>2. QED
      BY <1>2, <3>1 DEF Timers
  <2>3. QED
    BY <2>1, <2>2
<1>3. QED
  BY <1>1, <1>2, PipelineAssumption DEF Timers

\* Within the pause time the age of a stamp grows by one with the clock.
LEMMA TickTimers ==
  ASSUME Timers, Tick
  PROVE  Timers'
<1>1. /\ now' = Next_tick /\ pkt_last' = pkt_last /\ pause_timer' = pause_timer
      /\ sincePause' = [p \in Ports |->
           IF sincePause[p] < PauseTime THEN sincePause[p] + 1 ELSE PauseTime]
  BY DEF Tick, portVars
<1>2. now' \in Stamps
  BY <1>1, PipelineAssumption DEF Next_tick, Timers, Stamps
<1>3. ASSUME NEW q \in Ports, sincePause'[q] < PauseTime
      PROVE  pause_timer'[q] - time_delta(q)' >= PauseTime - sincePause'[q]
  <2>1. sincePause[q] < PauseTime /\ sincePause'[q] = sincePause[q] + 1
    BY <1>1, <1>3, PipelineAssumption DEF Timers
  <2>2. pause_timer[q] - time_delta(q) >= PauseTime - sincePause[q]
    BY <2>1 DEF Timers
  <2>3. time_delta(q) \in Nat /\ time_delta(q) + 1 < TimerMod
    BY <2>1, <2>2, AgeType, PipelineAssumption DEF Timers
  <2>4. time_delta(q)' = time_delta(q) + 1
    BY <1>1, <2>3, PipelineAssumption DEF time_delta, Next_tick, Timers, Stamps
  <2>5. QED
    BY <1>1, <2>1, <2>2, <2>3, <2>4, PipelineAssumption DEF Timers
<1>4. sincePause' \in [Ports -> 0..PauseTime]
  BY <1>1, PipelineAssumption DEF Timers
<1>5. QED
  BY <1>1, <1>2, <1>3, <1>4 DEF Timers

LEMMA NextTimers == Timers /\ [Next]_vars => Timers'
<1> SUFFICES ASSUME Timers, [Next]_vars PROVE Timers'
  OBVIOUS
<1>1. CASE UNCHANGED timerVars
  BY <1>1 DEF timerVars, Timers, time_delta
<1>2. QED
  BY <1>1, TimerSteps, Ipv4Timers, PauseTimers, TickTimers

\* A data packet within the pause time of a PAUSE frame finds its port paused.
THEOREM PausesRemembered == Spec => []PauseNeverMissed
<1>1. Timers => PauseNeverMissed
  <2> SUFFICES ASSUME Timers, NEW p \in Ports, sincePause[p] < PauseTime
               PROVE  pause_timer[p] > time_delta(p)
    BY DEF PauseNeverMissed, is_paused
  <2>1. pause_timer[p] - time_delta(p) >= PauseTime - sincePause[p]
    BY DEF Timers
  <2>2. time_delta(p) \in Nat /\ pause_timer[p] \in Nat /\ sincePause[p] \in Nat
    BY AgeType, PipelineAssumption DEF Timers
  <2>3. QED
    BY <2>1, <2>2, PipelineAssumption
<1>2. QED
  BY <1>1, InitTimers, NextTimers, PTL DEF Spec

-----------------------------------------------------------------------------
(***************************************************************************)
(* Pauses are counted.                                                     *)
(***************************************************************************)
\* Where a pause was seen in this epoch, a packet has noticed the epoch already, so the
\* counter will not be reset in it again.
Counted ==
  /\ port_paused \in [WindowSet -> [Ports -> Nat]]
  /\ sawPause \in [Ports -> BOOLEAN]
  /\ \A p \in Ports : sawPause[p] =>
       last_epoch = epoch_idx /\ port_paused[epoch_idx][p] > 0

\* The quotient of a number changes only where its remainder is zero.
LEMMA SameQuotient ==
  ASSUME NEW n \in Nat, NEW d \in Nat \ {0}, (n + 1) % d # 0
  PROVE  (n + 1) \div d = n \div d
<1> DEFINE q == n \div d
           r == n % d
           q1 == (n + 1) \div d
           r1 == (n + 1) % d
<1>1. /\ q \in Nat /\ r \in 0..(d - 1) /\ n = d * q + r
      /\ q1 \in Nat /\ r1 \in 0..(d - 1) /\ n + 1 = d * q1 + r1
  OBVIOUS
<1>2. r1 # 0
  OBVIOUS
<1> HIDE DEF q, r, q1, r1
<1>3. d * (q1 - q) = r + 1 - r1
  BY <1>1
<1>4. ASSUME q1 - q >= 1 PROVE FALSE
  <2>1. d * (q1 - q) >= d
    BY <1>1, <1>4
  <2>2. QED
    BY <1>1, <1>2, <1>3, <2>1
<1>5. ASSUME q1 - q <= -1 PROVE FALSE
  <2>1. d * (q1 - q) <= -d
    BY <1>1, <1>5
  <2>2. QED
    BY <1>1, <1>2, <1>3, <2>1
<1>6. q1 = q
  BY <1>1, <1>4, <1>5
<1>7. QED
  BY <1>6 DEF q, q1

LEMMA EpochType == Timers => epoch_idx \in WindowSet
<1> SUFFICES ASSUME Timers PROVE epoch_idx \in WindowSet
  OBVIOUS
<1>1. now \in Nat /\ EpochLength \in Nat \ {0} /\ Windows \in Nat \ {0}
  BY PipelineAssumption DEF Timers, Stamps
<1>2. now \div EpochLength \in Nat
  BY <1>1
<1>3. (now \div EpochLength) % Windows \in 0..(Windows - 1)
  BY <1>1, <1>2
<1>4. QED
  BY <1>3 DEF epoch_idx, WindowSet

LEMMA InitCounted == Init => Counted
  BY PipelineAssumption DEF Init, PipelineInit, Counted, WindowSet

LEMMA Ipv4Counted ==
  ASSUME Timers, Counted, NEW f \in Flows, Ipv4(f)
  PROVE  Counted'
<1> DEFINE p == EgressPort[f]
<1>1. p \in Ports /\ epoch_idx \in WindowSet
  BY PipelineAssumption, EpochType
<1> HIDE DEF p
<1>2. /\ last_epoch' = epoch_idx
      /\ port_paused' =
           [port_paused EXCEPT ![epoch_idx][p] = PausedNum(p, port_paused[epoch_idx][p])]
      /\ sawPause' = [sawPause EXCEPT ![p] = sawPause[p] \/ is_paused(p)]
  BY <1>1 DEF Ipv4, NoteEpoch, p, Counted
<1>3. epoch_idx' = epoch_idx
  BY DEF Ipv4, epoch_idx
<1>4. PausedNum(p, port_paused[epoch_idx][p]) \in Nat
  BY <1>1 DEF PausedNum, One, Counted
<1>5. port_paused' \in [WindowSet -> [Ports -> Nat]]
  BY <1>1, <1>2, <1>4 DEF Counted
<1>6. sawPause' \in [Ports -> BOOLEAN]
  BY <1>2 DEF Counted, is_paused
<1>7. ASSUME NEW q \in Ports, sawPause'[q]
      PROVE  port_paused'[epoch_idx][q] > 0
  <2>1. CASE q = p
    <3>1. port_paused'[epoch_idx][p] = PausedNum(p, port_paused[epoch_idx][p])
      BY <1>1, <1>2 DEF Counted
    <3>2. CASE is_paused(p)
      BY <1>1, <2>1, <3>1, <3>2 DEF PausedNum, One, Counted
    <3>3. CASE ~is_paused(p)
      <4>1. sawPause[p]
        BY <1>1, <1>2, <1>7, <2>1, <3>3 DEF Counted
      <4>2. ~change_epoch /\ port_paused[epoch_idx][p] > 0
        BY <1>1, <4>1 DEF change_epoch, Counted
      <4>3. QED
        BY <1>1, <2>1, <3>1, <3>3, <4>2 DEF PausedNum, One, Counted
    <3>4. QED
      BY <3>2, <3>3
  <2>2. CASE q # p
    <3>1. sawPause[q] /\ port_paused'[epoch_idx][q] = port_paused[epoch_idx][q]
      BY <1>1, <1>2, <1>7, <2>2 DEF Counted
    <3>2. QED
      BY <3>1 DEF Counted
  <2>3. QED
    BY <2>1, <2>2
<1>8. QED
  BY <1>2, <1>3, <1>5, <1>6, <1>7 DEF Counted

\* A new window begins where the remainder is zero, and there the history is cleared.
LEMMA TickCounted ==
  ASSUME Timers, Counted, Tick
  PROVE  Counted'
<1>1. /\ now' = Next_tick
      /\ sawPause' = [p \in Ports |-> sawPause[p] /\ Next_tick % EpochLength # 0]
      /\ last_epoch' = last_epoch /\ port_paused' = port_paused
  BY DEF Tick, portVars
<1>2. ASSUME NEW p \in Ports, sawPause'[p]
      PROVE  sawPause[p] /\ epoch_idx' = epoch_idx
  <2>1. sawPause[p] /\ Next_tick % EpochLength # 0
    BY <1>1, <1>2
  <2>2. 0 % EpochLength = 0
    BY PipelineAssumption
  <2>3. Next_tick = now + 1
    BY <2>1, <2>2 DEF Next_tick
  <2>4. Next_tick \div EpochLength = now \div EpochLength
    <3>1. now \in Nat /\ EpochLength \in Nat \ {0} /\ (now + 1) % EpochLength # 0
      BY <2>1, <2>3, PipelineAssumption DEF Timers, Stamps
    <3>2. QED
      BY <2>3, <3>1, SameQuotient
  <2>5. QED
    BY <1>1, <2>1, <2>4 DEF epoch_idx
<1>3. sawPause' \in [Ports -> BOOLEAN]
  BY <1>1 DEF Counted
<1>4. QED
  BY <1>1, <1>2, <1>3 DEF Counted

\* All other steps leave the time, the counters and the history alone, and note the
\* epoch if they note anything.
LEMMA OtherCounted ==
  ASSUME [Next]_vars
  PROVE  \/ \E f \in Flows : Ipv4(f)
         \/ Tick
         \/ /\ UNCHANGED <<now, port_paused, sawPause>>
            /\ last_epoch' \in {last_epoch, epoch_idx}
<1> DEFINE Other == /\ UNCHANGED <<now, port_paused, sawPause>>
                    /\ last_epoch' \in {last_epoch, epoch_idx}
<1>1. CASE UNCHANGED vars
  BY <1>1 DEF vars, pipeVars, portVars, historyVars
<1>2. CASE Next
  <2>1. ASSUME NEW in \in PollPorts, NEW out \in Ports, NEW tp \in {1, 2, 3},
               NEW e \in Events, PollArrives(in, tp, out, e)
        PROVE  Other
    BY <2>1 DEF PollArrives, pipeVars, portVars, historyVars
  <2>2. ASSUME NEW poll \in polls, PollPass(poll)
        PROVE  Other
    BY <2>2 DEF PollPass, Polling, NoteEpoch, portVars, historyVars
  <2>3. ASSUME MirrorPass PROVE Other
    BY <2>3 DEF MirrorPass, Polling, NoteEpoch, portVars, historyVars
  <2>4. ASSUME Accept \/ Skip \/ registers_syn_get \/ TakeLockOff
        PROVE  Other
    BY <2>4 DEF Accept, Skip, registers_syn_get, TakeLockOff, pipeVars, portVars,
                historyVars
  <2>5. ASSUME NEW p \in Ports, Pause(p) PROVE Other
    BY <2>5 DEF Pause, NoteEpoch
  <2>6. QED
    BY <1>2, <2>1, <2>2, <2>3, <2>4, <2>5 DEF Next, DataPass, PausePass, TimePasses
<1>3. QED
  BY <1>1, <1>2

LEMMA NextCounted == Timers /\ Counted /\ [Next]_vars => Counted'
<1> SUFFICES ASSUME Timers, Counted, [Next]_vars PROVE Counted'
  OBVIOUS
<1>1. CASE /\ UNCHANGED <<now, port_paused, sawPause>>
           /\ last_epoch' \in {last_epoch, epoch_idx}
  BY <1>1 DEF Counted, epoch_idx
<1>2. QED
  BY <1>1, OtherCounted, Ipv4Counted, TickCounted

\* A port that a data packet of this epoch found paused has a positive counter in the
\* window the polling packets read.
THEOREM PausesAreCounted == Spec => []PausesCounted
<1>1. Counted => PausesCounted
  BY DEF Counted, PausesCounted, port_paused_num
<1>2. QED
  BY <1>1, InitTimers, NextTimers, InitCounted, NextCounted, PTL DEF Spec

-----------------------------------------------------------------------------
(***************************************************************************)
(* Locks are explained, and what is read under one is of one moment.       *)
(***************************************************************************)
Copies == [event: Events, locked: BOOLEAN, alone: BOOLEAN]

\* A copy that found the controller with nothing else to do is the only one, and the
\* lock stays on until its read-out ends; so the flow telemetry does not move.
Handover ==
  /\ lock \in BOOLEAN
  /\ \A poll \in polls : poll.event \in Events
  /\ mirrored \in Seq(Copies) /\ inbox \in Seq(Copies)
  /\ reading \in Copies \cup {idle}
  /\ reading = idle => snapshot = <<>>
  /\ \E S : snapshot \in Seq(S)
  /\ \A i \in DOMAIN mirrored : mirrored[i].alone =>
       i = 1 /\ inbox = <<>> /\ reading = idle /\ lock
  /\ \A i \in DOMAIN inbox : inbox[i].alone => i = 1 /\ reading = idle /\ lock
  /\ reading # idle /\ reading.alone => lock
  /\ ReadoutConsistent
  /\ LockExplained

LEMMA CopyNotIdle == \A c \in Copies : c # idle
<1> SUFFICES ASSUME NEW c \in Copies, c = idle PROVE FALSE
  OBVIOUS
<1>1. c.event \in Nat
  BY SwitchAssumption DEF Copies
<1>2. c.event = -1
  BY DEF idle
<1>3. QED
  BY <1>1, <1>2

LEMMA InitHandover == Init => Handover
<1> SUFFICES ASSUME Init PROVE Handover
  OBVIOUS
<1>1. /\ polls = {} /\ mirrored = <<>> /\ inbox = <<>> /\ reading = idle
      /\ snapshot = <<>> /\ lock = FALSE
  BY DEF Init, PipelineInit
<1>2. snapshot \in Seq({}) /\ lock \in BOOLEAN /\ ~lock
  <2>1. snapshot \in Seq({})
    BY <1>1
  <2>2. lock \in BOOLEAN /\ ~lock
    BY <1>1, Zenon
  <2>3. QED
    BY <2>1, <2>2
<1>3. ReadoutConsistent /\ LockExplained
  BY <1>1, <1>2 DEF ReadoutConsistent, LockExplained
<1>4. mirrored \in Seq(Copies) /\ inbox \in Seq(Copies)
  BY <1>1
<1>5. /\ \A poll \in polls : poll.event \in Events
      /\ \A i \in DOMAIN mirrored : FALSE
      /\ \A i \in DOMAIN inbox : FALSE
  BY <1>1
<1>6. \E S : snapshot \in Seq(S)
  BY <1>2
<1>7. QED
  BY <1>1, <1>2, <1>3, <1>4, <1>5, <1>6, Zenon DEF Handover

\* Steps that touch neither the copies, the controller nor the lock, and write no flow
\* telemetry behind the lock.
LEMMA Quiescent ==
  ASSUME Handover, polls' = polls, lock' = lock,
         UNCHANGED <<mirrored, inbox, ctrlVars, orphaned>>,
         lock => UNCHANGED flowVars
  PROVE  Handover'
<1>1. lock => \A c : Column(c)' = Column(c)
  BY DEF Column, flowVars
<1>2. ReadoutConsistent'
  BY <1>1 DEF Handover, ReadoutConsistent, ctrlVars
<1>3. LockExplained'
  BY DEF Handover, LockExplained, ctrlVars
<1>4. QED
  BY <1>2, <1>3 DEF Handover, ctrlVars

LEMMA ArrivesHandover ==
  ASSUME Handover, NEW in \in PollPorts, NEW out \in Ports, NEW tp \in {1, 2, 3},
         NEW e \in Events, PollArrives(in, tp, out, e)
  PROVE  Handover'
<1>1. /\ UNCHANGED <<mirrored, inbox, ctrlVars, orphaned, lock, flowVars>>
      /\ \A poll \in polls' : poll \in polls \/ poll.event = e
  BY DEF PollArrives, pipeVars, flowVars, ctrlVars
<1>2. \A poll \in polls' : poll.event \in Events
  BY <1>1 DEF Handover
<1>3. ReadoutConsistent' /\ LockExplained'
  BY <1>1 DEF Handover, ReadoutConsistent, LockExplained, Column, ctrlVars, flowVars
<1>4. QED
  BY <1>1, <1>2, <1>3 DEF Handover, ctrlVars

LEMMA SetsLockCopied == \A poll : SetsLock(poll) => Copied(poll)
  BY DEF SetsLock, Copied

LEMMA PollHandover ==
  ASSUME Handover, NEW poll \in polls, PollPass(poll)
  PROVE  Handover'
<1> DEFINE c == CopyOf(poll)
<1>1. /\ UNCHANGED <<inbox, reading, snapshot, used_flag, orphaned>>
      /\ UNCHANGED <<owner, pkt_num, enq_num, paused_num>>
      /\ lock' = (lock \/ SetsLock(poll))
      /\ polls' = polls \ {poll}
      /\ mirrored' = IF Copied(poll) THEN Append(mirrored, c) ELSE mirrored
  BY DEF PollPass, Polling, ctrlVars, flowVars
<1>2. c \in Copies
  BY DEF CopyOf, Copies, Handover, SetsLock, Quiet
<1>3. /\ c.locked = SetsLock(poll)
      /\ c.alone => SetsLock(poll) /\ mirrored = <<>> /\ inbox = <<>> /\ reading = idle
  BY DEF CopyOf, Quiet
<1> HIDE DEF c
<1>4. mirrored \in Seq(Copies) /\ mirrored' \in Seq(Copies)
  BY <1>1, <1>2 DEF Handover
<1>5. ASSUME NEW i \in DOMAIN mirrored', mirrored'[i].alone
      PROVE  i = 1 /\ inbox' = <<>> /\ reading' = idle /\ lock'
  <2>1. CASE i \in DOMAIN mirrored /\ mirrored'[i] = mirrored[i]
    BY <1>1, <1>5, <2>1 DEF Handover
  <2>2. CASE Copied(poll) /\ i = Len(mirrored) + 1 /\ mirrored'[i] = c
    <3>1. SetsLock(poll) /\ mirrored = <<>> /\ inbox = <<>> /\ reading = idle
      BY <1>3, <1>5, <2>2
    <3>2. lock'
      BY <1>1, <3>1
    <3>3. QED
      BY <1>1, <1>4, <2>2, <3>1, <3>2
  <2>3. CASE Copied(poll)
    <3>1. mirrored' = Append(mirrored, c)
      BY <1>1, <2>3
    <3>2. \/ i \in DOMAIN mirrored /\ mirrored'[i] = mirrored[i]
          \/ i = Len(mirrored) + 1 /\ mirrored'[i] = c
      BY <1>2, <1>4, <3>1
    <3>3. QED
      BY <2>1, <2>2, <2>3, <3>2
  <2>4. CASE ~Copied(poll)
    BY <1>1, <2>1, <2>4
  <2>5. QED
    BY <2>3, <2>4
<1>6. ReadoutConsistent'
  BY <1>1 DEF Handover, ReadoutConsistent, Column
<1>7. LockExplained'
  <2>1. CASE SetsLock(poll)
    <3>1. /\ mirrored' = Append(mirrored, c)
          /\ Len(mirrored) + 1 \in DOMAIN mirrored'
          /\ mirrored'[Len(mirrored) + 1] = c
      BY <1>1, <1>2, <1>4, <2>1, SetsLockCopied
    <3>2. mirrored'[Len(mirrored) + 1].locked
      BY <1>3, <2>1, <3>1
    <3>3. QED
      BY <3>1, <3>2 DEF LockExplained
  <2>2. CASE ~SetsLock(poll)
    <3>1. \A i \in DOMAIN mirrored : i \in DOMAIN mirrored' /\ mirrored'[i] = mirrored[i]
      BY <1>1, <1>2, <1>4
    <3>2. QED
      BY <1>1, <2>2, <3>1 DEF Handover, LockExplained
  <2>3. QED
    BY <2>1, <2>2
<1>8. QED
  BY <1>1, <1>4, <1>5, <1>6, <1>7 DEF Handover

LEMMA MirrorHandover ==
  ASSUME Handover, MirrorPass
  PROVE  Handover'
<1>1. /\ UNCHANGED <<polls, reading, snapshot, orphaned, lock>>
      /\ UNCHANGED <<owner, pkt_num, enq_num, paused_num>>
      /\ mirrored # <<>>
      /\ mirrored' = Tail(mirrored)
      /\ inbox' = Append(inbox, Head(mirrored))
  BY DEF MirrorPass, Polling, ctrlVars, flowVars, Handover
<1>2. /\ mirrored \in Seq(Copies) /\ inbox \in Seq(Copies)
      /\ mirrored' \in Seq(Copies) /\ inbox' \in Seq(Copies)
      /\ 1 \in DOMAIN mirrored /\ Head(mirrored) = mirrored[1]
  BY <1>1 DEF Handover
<1>3. \A i \in DOMAIN mirrored' : i + 1 \in DOMAIN mirrored /\ mirrored'[i] = mirrored[i + 1]
  BY <1>1, <1>2
<1>4. \A i \in DOMAIN mirrored' : ~mirrored'[i].alone
  BY <1>2, <1>3 DEF Handover
<1>5. ASSUME NEW i \in DOMAIN inbox', inbox'[i].alone
      PROVE  i = 1 /\ reading' = idle /\ lock'
  <2>1. CASE i \in DOMAIN inbox /\ inbox'[i] = inbox[i]
    BY <1>1, <1>5, <2>1 DEF Handover
  <2>2. CASE i = Len(inbox) + 1 /\ inbox'[i] = mirrored[1]
    BY <1>1, <1>2, <1>5, <2>2 DEF Handover
  <2>3. QED
    BY <1>1, <1>2, <2>1, <2>2
<1>6. ReadoutConsistent'
  BY <1>1 DEF Handover, ReadoutConsistent, Column
<1>7. LockExplained'
  <2> SUFFICES ASSUME lock PROVE LockExplained'
    BY <1>1 DEF LockExplained
  <2>1. CASE \E i \in DOMAIN mirrored : mirrored[i].locked
    <3> PICK i \in DOMAIN mirrored : mirrored[i].locked
      BY <2>1
    <3>1. CASE i = 1
      <4>1. Len(inbox) + 1 \in DOMAIN inbox' /\ inbox'[Len(inbox) + 1] = mirrored[1]
        BY <1>1, <1>2
      <4>2. QED
        BY <3>1, <4>1 DEF LockExplained
    <3>2. CASE i # 1
      <4>1. i - 1 \in DOMAIN mirrored' /\ mirrored'[i - 1] = mirrored[i]
        BY <1>1, <1>2, <3>2
      <4>2. QED
        BY <4>1 DEF LockExplained
    <3>3. QED
      BY <3>1, <3>2
  <2>2. CASE \E i \in DOMAIN inbox : inbox[i].locked
    <3>1. \A i \in DOMAIN inbox : i \in DOMAIN inbox' /\ inbox'[i] = inbox[i]
      BY <1>1, <1>2
    <3>2. QED
      BY <2>2, <3>1 DEF LockExplained
  <2>3. CASE reading # idle \/ orphaned
    BY <1>1, <2>3 DEF LockExplained
  <2>4. QED
    BY <2>1, <2>2, <2>3 DEF Handover, LockExplained
<1>8. QED
  BY <1>1, <1>2, <1>4, <1>5, <1>6, <1>7 DEF Handover

LEMMA AcceptHandover ==
  ASSUME Handover, Accept
  PROVE  Handover'
<1>1. /\ UNCHANGED <<polls, mirrored, snapshot, orphaned, lock>>
      /\ reading = idle /\ inbox # <<>> /\ snapshot = <<>>
      /\ reading' = Head(inbox) /\ inbox' = Tail(inbox)
  BY DEF Accept, pipeVars, Handover
<1>2. /\ inbox \in Seq(Copies) /\ inbox' \in Seq(Copies)
      /\ 1 \in DOMAIN inbox /\ reading' = inbox[1] /\ reading' \in Copies
  BY <1>1 DEF Handover
<1>3. reading' # idle
  BY <1>2, CopyNotIdle
<1>4. \A i \in DOMAIN inbox' : i + 1 \in DOMAIN inbox /\ inbox'[i] = inbox[i + 1]
  BY <1>1, <1>2
<1>5. \A i \in DOMAIN inbox' : ~inbox'[i].alone
  BY <1>2, <1>4 DEF Handover
<1>6. \A i \in DOMAIN mirrored : ~mirrored[i].alone
  BY <1>1 DEF Handover
<1>7. reading'.alone => lock
  BY <1>2 DEF Handover
<1>8. ReadoutConsistent' /\ LockExplained'
  BY <1>1, <1>3 DEF ReadoutConsistent, LockExplained, idle
<1>9. QED
  BY <1>1, <1>2, <1>3, <1>5, <1>6, <1>7, <1>8 DEF Handover, idle

LEMMA SkipHandover ==
  ASSUME Handover, Skip
  PROVE  Handover'
<1>1. /\ UNCHANGED <<polls, mirrored, snapshot, reading, lock>>
      /\ UNCHANGED <<owner, pkt_num, enq_num, paused_num>>
      /\ reading = idle /\ inbox # <<>>
      /\ orphaned' = (orphaned \/ Head(inbox).locked) /\ inbox' = Tail(inbox)
  BY DEF Skip, pipeVars, ctrlVars, flowVars
<1>2. /\ inbox \in Seq(Copies) /\ inbox' \in Seq(Copies)
      /\ 1 \in DOMAIN inbox /\ Head(inbox) = inbox[1]
  BY <1>1 DEF Handover
<1>3. \A i \in DOMAIN inbox' : i + 1 \in DOMAIN inbox /\ inbox'[i] = inbox[i + 1]
  BY <1>1, <1>2
<1>4. \A i \in DOMAIN inbox' : ~inbox'[i].alone
  BY <1>2, <1>3 DEF Handover
<1>5. \A i \in DOMAIN mirrored : ~mirrored[i].alone
  BY <1>1 DEF Handover
<1>6. ReadoutConsistent'
  BY <1>1 DEF ReadoutConsistent, idle
<1>7. LockExplained'
  <2> SUFFICES ASSUME lock PROVE LockExplained'
    BY <1>1 DEF LockExplained
  <2>1. CASE \E i \in DOMAIN inbox : inbox[i].locked
    <3> PICK i \in DOMAIN inbox : inbox[i].locked
      BY <2>1
    <3>1. CASE i = 1
      BY <1>1, <1>2, <3>1 DEF LockExplained
    <3>2. CASE i # 1
      <4>1. i - 1 \in DOMAIN inbox' /\ inbox'[i - 1] = inbox[i]
        BY <1>1, <1>2, <3>2
      <4>2. QED
        BY <4>1 DEF LockExplained
    <3>3. QED
      BY <3>1, <3>2
  <2>2. CASE (\E i \in DOMAIN mirrored : mirrored[i].locked) \/ orphaned
    BY <1>1, <2>2 DEF LockExplained
  <2>3. QED
    BY <1>1, <2>1, <2>2 DEF Handover, LockExplained
<1>8. QED
  BY <1>1, <1>2, <1>4, <1>5, <1>6, <1>7 DEF Handover, idle

\* The next column is read as it stands, and the ones before it have not changed.
LEMMA ReadHandover ==
  ASSUME Handover, registers_syn_get
  PROVE  Handover'
<1> DEFINE n == Len(snapshot) + 1
           v == Column(Columns[n])
<1>1. /\ UNCHANGED <<polls, mirrored, inbox, reading, orphaned, lock>>
      /\ UNCHANGED <<owner, pkt_num, enq_num, paused_num>>
      /\ reading # idle /\ snapshot' = Append(snapshot, v)
  BY DEF registers_syn_get, pipeVars, copyVars, flowVars
<1>2. \A c : Column(c)' = Column(c)
  BY <1>1 DEF Column
<1>3. PICK S : snapshot \in Seq(S)
  BY DEF Handover
<1>4. v = Column(Columns[n]) /\ n = Len(snapshot) + 1
  OBVIOUS
<1> HIDE DEF v, n
<1>5. snapshot \in Seq(S \cup {v})
  BY <1>3
<1>6. snapshot' \in Seq(S \cup {v})
  BY <1>1, <1>5
<1>7. ReadoutConsistent'
  <2> SUFFICES ASSUME reading.alone, NEW i \in DOMAIN snapshot'
               PROVE  snapshot'[i] = Column(Columns[i])
    BY <1>1, <1>2 DEF ReadoutConsistent, Columns
  <2>1. CASE i \in DOMAIN snapshot /\ snapshot'[i] = snapshot[i]
    BY <1>1, <2>1 DEF Handover, ReadoutConsistent
  <2>2. CASE i = n /\ snapshot'[i] = v
    BY <1>4, <2>2
  <2>3. QED
    BY <1>1, <1>4, <1>5, <2>1, <2>2
<1>8. LockExplained'
  BY <1>1 DEF Handover, LockExplained
<1>9. QED
  BY <1>1, <1>6, <1>7, <1>8 DEF Handover

LEMMA LockOffHandover ==
  ASSUME Handover, TakeLockOff
  PROVE  Handover'
<1>1. /\ UNCHANGED <<polls, mirrored, inbox>>
      /\ reading # idle /\ reading' = idle /\ snapshot' = <<>> /\ lock' = FALSE
  BY DEF TakeLockOff, copyVars
<1>2. /\ \A i \in DOMAIN mirrored : ~mirrored[i].alone
      /\ \A i \in DOMAIN inbox : ~inbox[i].alone
  BY <1>1 DEF Handover
<1>3. snapshot' \in Seq({})
  BY <1>1
<1>4. QED
  BY <1>1, <1>2, <1>3 DEF Handover, ReadoutConsistent, LockExplained

LEMMA NextHandover == Handover /\ [Next]_vars => Handover'
<1> SUFFICES ASSUME Handover, [Next]_vars PROVE Handover'
  OBVIOUS
<1>1. ASSUME NEW f \in Flows, DataPass(f) PROVE Handover'
  BY <1>1, Quiescent DEF DataPass, Ipv4, UpdateFlow, copyVars
<1>2. ASSUME NEW p \in Ports, PausePass(p) PROVE Handover'
  BY <1>2, Quiescent DEF PausePass, Pause, copyVars
<1>3. CASE TimePasses
  BY <1>3, Quiescent DEF TimePasses, Tick, copyVars
<1>4. CASE UNCHANGED vars
  BY <1>4, Quiescent DEF vars, pipeVars, copyVars
<1>5. QED
  BY <1>1, <1>2, <1>3, <1>4, ArrivesHandover, PollHandover, MirrorHandover,
     AcceptHandover, SkipHandover, ReadHandover, LockOffHandover DEF Next

\* A read-out that began with a lock of its own shows the telemetry of one moment.
THEOREM ReadoutsConsistent == Spec => []ReadoutConsistent
<1>1. Handover => ReadoutConsistent
  BY DEF Handover
<1>2. QED
  BY <1>1, InitHandover, NextHandover, PTL DEF Spec

\* Where the lock is set, the controller will take it off, or a copy that set it was
\* dropped as a duplicate.
THEOREM LocksExplained == Spec => []LockExplained
<1>1. Handover => LockExplained
  BY DEF Handover
<1>2. QED
  BY <1>1, InitHandover, NextHandover, PTL DEF Spec

=============================================================================
