------------------------------ MODULE RttProbe ------------------------------
(***************************************************************************)
(* How the detection agent keeps measuring the round trip of one flow:     *)
(* the event handlers of rtt_template.c, which run in the NIC.  A handler  *)
(* asks for an RTT request by returning rtt_req = 1; the NIC puts one into *)
(* the flow and reports it with a TX event that carries a flag; the answer *)
(* comes back as an RTT event, whose handler asks for the next.  Requests, *)
(* answers and events may be lost and answers may be late, so TX events    *)
(* also ask again.                                                         *)
(*                                                                         *)
(* Time passes in ticks.  The NIC and the network are external: they are   *)
(* SendRequest, Lose and the limit on the age of a request.  Rates and     *)
(* CNPs do not touch the measurement and are left out.                     *)
(***************************************************************************)
EXTENDS Integers, Sequences, FiniteSetsExt, SequencesExt

CONSTANTS AbortTime,   \* ABORT_TIME
          MaxAbort,    \* doublings after which the model no longer waits longer
          MaxDelay,    \* ticks until a request that is not lost is answered
          MaxFlight,   \* bound on the requests in the network
          MaxLost,     \* bound on losses
          MaxNack      \* bound on NACK events

ASSUME ProbeAssumption ==
    /\ {AbortTime, MaxDelay, MaxFlight} \subseteq Nat \ {0}
    /\ {MaxAbort, MaxLost, MaxNack} \subseteq Nat

VARIABLES cur_rate,             \* 0 until the first event of the flow, then 1
          rtt_meas_psn,         \* 1 from the report of a request to the next answer
          rtt_req_to_rtt_sent,  \* TX events since a request was asked for
          abort_cnt,            \* requests given up since the last answer
          since_start,          \* ticks since start_delay, up to Longest
          asked,                \* the NIC has a request to send
          flight,               \* the ages of the requests in the network, oldest first
          mishaps               \* what has gone wrong so far, by kind

context == <<cur_rate, rtt_meas_psn, rtt_req_to_rtt_sent, abort_cnt, since_start>>
vars == <<context, asked, flight, mishaps>>

Longest == AbortTime * 2^MaxAbort + 1
Mishap == {"packets", "events", "aborts", "nacks"}

TypeOK ==
    /\ {cur_rate, rtt_meas_psn} \subseteq {0, 1}
    /\ rtt_req_to_rtt_sent \in 0..2
    /\ abort_cnt \in 0..MaxAbort
    /\ since_start \in 0..Longest
    /\ asked \in BOOLEAN
    /\ flight \in Seq(0..MaxDelay)
    /\ mishaps \in [Mishap -> 0..MaxFlight]

\* Beyond MaxFlight the count leaves RequestsAccountedFor nothing to say.
Count(kind) == mishaps' = [mishaps EXCEPT ![kind] = Min({@ + 1, MaxFlight})]

Init ==
    /\ cur_rate = 0
    /\ rtt_meas_psn = 0
    /\ rtt_req_to_rtt_sent = 0
    /\ abort_cnt = 0
    /\ since_start = 0
    /\ asked = FALSE
    /\ flight = <<>>
    /\ mishaps = [k \in Mishap |-> 0]

-----------------------------------------------------------------------------
(***************************************************************************)
(* The handlers.                                                           *)
(***************************************************************************)
\* Whatever the first event of a flow is, it is taken for this (line 479).
NewFlow ==
    /\ cur_rate = 0
    /\ cur_rate' = 1
    /\ rtt_meas_psn' = 0
    /\ rtt_req_to_rtt_sent' = 1
    /\ abort_cnt' = 0
    /\ since_start' = 0
    /\ asked' = TRUE
    /\ UNCHANGED <<flight, mishaps>>

\* Mutant of RequestReported: the measurement is not marked as under way.
RequestReportedOnly ==
    /\ rtt_req_to_rtt_sent' = 0
    /\ since_start' = 0
    /\ UNCHANGED <<cur_rate, rtt_meas_psn, abort_cnt>>
\* A TX event with the flag, lines 267-270.
RequestReported ==
    /\ rtt_meas_psn' = 1
    /\ rtt_req_to_rtt_sent' = 0
    /\ since_start' = 0
    /\ UNCHANGED <<cur_rate, abort_cnt>>

\* Mutant of Overdue: line 278 with the test the other way round.
OverdueSinceAnswer == rtt_meas_psn = 0 /\ since_start > AbortTime * 2^abort_cnt
\* Lines 273-282.
Overdue == rtt_meas_psn = 1 /\ since_start > AbortTime * 2^abort_cnt

NotSent == rtt_req_to_rtt_sent + (1 - rtt_meas_psn) > 2

\* The other TX events, lines 271-289; TRUE where they ask again.
AskAgain ==
    /\ Overdue \/ NotSent
    /\ abort_cnt' = IF Overdue THEN Min({abort_cnt + 1, MaxAbort}) ELSE abort_cnt
    /\ rtt_req_to_rtt_sent' = 1
    /\ UNCHANGED <<cur_rate, rtt_meas_psn, since_start>>

GoOn ==
    /\ ~(Overdue \/ NotSent)
    /\ rtt_req_to_rtt_sent' = rtt_req_to_rtt_sent + (1 - rtt_meas_psn)
    /\ UNCHANGED <<cur_rate, rtt_meas_psn, abort_cnt, since_start>>

CountAbort == IF Overdue THEN Count("aborts") ELSE UNCHANGED mishaps

\* A packet of the flow was sent.
Tx ==
    /\ cur_rate = 1
    /\ \/ AskAgain /\ asked' = TRUE /\ CountAbort
       \/ GoOn /\ UNCHANGED <<asked, mishaps>>
    /\ UNCHANGED flight

\* The NIC sends the request it was asked for; the handler gets the event with the flag.
SendRequest ==
    /\ cur_rate = 1 /\ asked /\ Len(flight) < MaxFlight
    /\ flight' = Append(flight, 0)
    /\ IF rtt_meas_psn = 0
       THEN RequestReported /\ asked' = FALSE /\ UNCHANGED mishaps
       ELSE \/ AskAgain /\ asked' = TRUE /\ CountAbort
            \/ GoOn /\ asked' = FALSE /\ UNCHANGED mishaps

\* The same, but the event is dropped on its way to the handler.
SendUnreported ==
    /\ cur_rate = 1 /\ asked /\ Len(flight) < MaxFlight
    /\ mishaps["events"] + mishaps["packets"] < MaxLost
    /\ flight' = Append(flight, 0)
    /\ asked' = FALSE
    /\ Count("events")
    /\ UNCHANGED context

\* An RTT event.  The test of line 320 is there to drop answers nobody waits for.
Expected == ~(rtt_meas_psn = 0 /\ rtt_req_to_rtt_sent = 0)

Rtt(i) ==
    /\ cur_rate = 1
    /\ flight' = RemoveAt(flight, i)
    /\ IF Expected
       THEN /\ rtt_meas_psn' = 0
            /\ abort_cnt' = 0
            /\ rtt_req_to_rtt_sent' = 1
            /\ asked' = TRUE
            /\ UNCHANGED <<cur_rate, since_start>>
       ELSE UNCHANGED <<context, asked>>
    /\ UNCHANGED mishaps

\* The handler of NACKs leaves rtt_req as it finds it (line 437).
Nack ==
    /\ cur_rate = 1 /\ mishaps["nacks"] < MaxNack
    /\ asked' \in {asked, TRUE}
    /\ Count("nacks")
    /\ UNCHANGED <<context, flight>>

-----------------------------------------------------------------------------
(***************************************************************************)
(* The network.                                                            *)
(***************************************************************************)
Lose(i) ==
    /\ mishaps["events"] + mishaps["packets"] < MaxLost
    /\ flight' = RemoveAt(flight, i)
    /\ Count("packets")
    /\ UNCHANGED <<context, asked>>

\* Requests age; the NIC sends what it was asked for within a tick.
Tick ==
    /\ asked => Len(flight) = MaxFlight
    /\ \A i \in DOMAIN flight : flight[i] < MaxDelay
    /\ flight' = [i \in DOMAIN flight |-> flight[i] + 1]
    /\ since_start' = Min({since_start + 1, Longest})
    /\ UNCHANGED <<cur_rate, rtt_meas_psn, rtt_req_to_rtt_sent, abort_cnt, asked, mishaps>>

Answered == \E i \in DOMAIN flight : Rtt(i)

Next ==
    \/ NewFlow \/ Tx \/ SendRequest \/ SendUnreported \/ Nack \/ Tick
    \/ \E i \in DOMAIN flight : Rtt(i) \/ Lose(i)

\* The flow keeps sending, the NIC does what it is asked, the network answers, time passes.
Fairness ==
    /\ WF_vars(NewFlow) /\ WF_vars(Tx) /\ WF_vars(SendRequest) /\ WF_vars(Tick)
    /\ WF_vars(Answered)

Spec == Init /\ [][Next]_vars /\ Fairness

-----------------------------------------------------------------------------
(***************************************************************************)
(* Properties.                                                             *)
(***************************************************************************)
\* A flow has one measurement at a time, and one more for every event that was lost,
\* request that was given up and NACK: answers to requests given up too early are not told
\* from others, each asks for the next, and the number never falls but by losses.
RequestsAccountedFor ==
    Len(flight) + (IF asked THEN 1 ELSE 0)
        <= 1 + mishaps["events"] + mishaps["aborts"] + mishaps["nacks"]

\* Whatever is lost, a flow that goes on sending is measured again and again.
MeasuredAgain == []<><<Answered>>_vars
=============================================================================
