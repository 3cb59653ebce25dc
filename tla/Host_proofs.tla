----------------------------- MODULE Host_proofs -----------------------------
(***************************************************************************)
(* The parts of a host beside the transport.                               *)
(*                                                                         *)
(* RttProbe: the number of measurements of a flow is bounded by what went  *)
(* wrong, for every abort time, delay and number of losses.                *)
(* The inductive invariant says besides that a flow without a request      *)
(* under way has room for one more: the event that would have reported it  *)
(* was lost, or it was given up (the last conjunct of Accounts).  So       *)
(* asking again without counting an abort (NotSent) only replaces a        *)
(* request that was excused already.                                       *)
(*                                                                         *)
(* NicScheduler: a NIC that is asked for a packet sends one of a flow that *)
(* may send, and no flow leaves it before it is finished, for any flows,   *)
(* windows and rates.  The argument is that the scan meets every index     *)
(* (ScanMeetsAll), and that clearing the vector keeps every flow that is   *)
(* not finished, at the place Renumbered gives (KeptFlows).                *)
(***************************************************************************)
EXTENDS RttProbe, NicScheduler, WellFoundedInduction, FiniteSetTheorems, TLAPS

-----------------------------------------------------------------------------
(***************************************************************************)
(* Requests for measurements (RttProbe).                                   *)
(***************************************************************************)
Requests == Len(flight) + (IF asked THEN 1 ELSE 0)
Excused == mishaps["events"] + mishaps["aborts"] + mishaps["nacks"]

Accounts ==
    /\ cur_rate \in {0, 1} /\ rtt_meas_psn \in {0, 1}
    /\ rtt_req_to_rtt_sent \in 0..2
    /\ asked \in BOOLEAN
    /\ flight \in Seq(Nat) /\ Len(flight) <= MaxFlight
    /\ mishaps \in [Mishap -> 0..MaxFlight]
    /\ Requests <= 1 + Excused
    /\ cur_rate = 0 => flight = <<>> /\ ~asked
    /\ cur_rate = 1 /\ rtt_meas_psn = 0 => rtt_req_to_rtt_sent > 0
    /\ cur_rate = 1 /\ rtt_meas_psn = 0 /\ ~asked => Requests <= Excused

LEMMA MinOfTwo ==
    ASSUME NEW a \in Int, NEW b \in Int
    PROVE  Min({a, b}) = IF a <= b THEN a ELSE b
<1> DEFINE m == IF a <= b THEN a ELSE b
<1>1. m \in {a, b} /\ \A y \in {a, b} : m <= y
  OBVIOUS
<1>2. \A x \in {a, b} : (\A y \in {a, b} : x <= y) => x = m
  OBVIOUS
<1> HIDE DEF m
<1>3. Min({a, b}) = m
  BY <1>1, <1>2 DEF Min
<1>4. QED
  BY <1>3 DEF m

\* Where a count stops at its limit, it excuses all the requests there can be.
LEMMA CountEffect ==
    ASSUME mishaps \in [Mishap -> 0..MaxFlight], NEW kind \in Mishap, Count(kind)
    PROVE  /\ mishaps' \in [Mishap -> 0..MaxFlight]
           /\ \A k \in Mishap \ {kind} : mishaps'[k] = mishaps[k]
           /\ mishaps'[kind] >= mishaps[kind]
           /\ mishaps'[kind] = mishaps[kind] + 1 \/ mishaps'[kind] = MaxFlight
<1>1. MaxFlight \in Nat /\ mishaps[kind] \in 0..MaxFlight
  BY ProbeAssumption
<1>2. /\ mishaps' = [mishaps EXCEPT ![kind] = Min({mishaps[kind] + 1, MaxFlight})]
      /\ Min({mishaps[kind] + 1, MaxFlight})
           = IF mishaps[kind] + 1 <= MaxFlight THEN mishaps[kind] + 1 ELSE MaxFlight
  BY <1>1, MinOfTwo DEF Count
<1>3. QED
  BY <1>1, <1>2

LEMMA KindsDiffer ==
    ASSUME mishaps \in [Mishap -> 0..MaxFlight]
    PROVE  /\ {"events", "aborts", "nacks", "packets"} \subseteq Mishap
           /\ mishaps["events"] \in 0..MaxFlight /\ mishaps["aborts"] \in 0..MaxFlight
           /\ mishaps["nacks"] \in 0..MaxFlight /\ Excused \in Nat
           /\ MaxFlight \in Nat
  BY ProbeAssumption DEF Mishap, Excused

\* A counted mishap excuses one request more, or as many as there can be.
LEMMA Excuse ==
    ASSUME mishaps \in [Mishap -> 0..MaxFlight],
           NEW kind \in {"events", "aborts", "nacks"}, Count(kind)
    PROVE  /\ mishaps' \in [Mishap -> 0..MaxFlight] /\ Excused' \in Nat
           /\ Excused' >= Excused + 1 \/ Excused' >= MaxFlight
<1>1. kind \in Mishap
  BY DEF Mishap
<1>2. /\ mishaps' \in [Mishap -> 0..MaxFlight]
      /\ \A k \in Mishap \ {kind} : mishaps'[k] = mishaps[k]
      /\ mishaps'[kind] = mishaps[kind] + 1 \/ mishaps'[kind] = MaxFlight
  BY <1>1, CountEffect
<1>3. \A k \in {"events", "aborts", "nacks"} :
        mishaps'[k] \in 0..MaxFlight /\ mishaps[k] \in 0..MaxFlight
  BY <1>2 DEF Mishap
<1>4. MaxFlight \in Nat /\ Excused' \in Nat
  BY <1>3, ProbeAssumption DEF Excused
<1>5. CASE kind = "events"
  BY <1>2, <1>3, <1>4, <1>5 DEF Excused, Mishap
<1>6. CASE kind = "aborts"
  BY <1>2, <1>3, <1>4, <1>6 DEF Excused, Mishap
<1>7. CASE kind = "nacks"
  BY <1>2, <1>3, <1>4, <1>7 DEF Excused, Mishap
<1>8. QED
  BY <1>2, <1>4, <1>5, <1>6, <1>7

LEMMA RemoveAtLen ==
    ASSUME NEW S, NEW s \in Seq(S), NEW i \in DOMAIN s
    PROVE  RemoveAt(s, i) \in Seq(S) /\ Len(RemoveAt(s, i)) = Len(s) - 1
<1> DEFINE a == SubSeq(s, 1, i - 1)
           b == SubSeq(s, i + 1, Len(s))
<1>1. i \in 1..Len(s) /\ Len(s) \in Nat
  OBVIOUS
<1>2. a \in Seq(S) /\ Len(a) = i - 1 /\ b \in Seq(S) /\ Len(b) = Len(s) - i
  BY <1>1
<1>3. RemoveAt(s, i) = a \o b
  BY DEF RemoveAt
<1> HIDE DEF a, b
<1>4. a \o b \in Seq(S) /\ Len(a \o b) = Len(s) - 1
  BY <1>1, <1>2
<1>5. QED
  BY <1>3, <1>4

-----------------------------------------------------------------------------
LEMMA InitAccounts == Init => Accounts
<1> SUFFICES ASSUME Init PROVE Accounts
  OBVIOUS
<1>1. /\ cur_rate = 0 /\ rtt_meas_psn = 0 /\ rtt_req_to_rtt_sent = 0
      /\ flight = <<>> /\ mishaps = [k \in Mishap |-> 0] /\ MaxFlight \in Nat
  BY ProbeAssumption DEF Init
<1>2. asked \in BOOLEAN /\ ~asked
  BY Zenon DEF Init
<1>3. mishaps \in [Mishap -> 0..MaxFlight]
  BY <1>1
<1>4. Requests = 0 /\ Excused \in Nat
  BY <1>1, <1>2, <1>3, KindsDiffer DEF Requests
<1>5. QED
  BY <1>1, <1>2, <1>3, <1>4 DEF Accounts

\* The handlers that see TX events: what they ask for, they have an excuse for.
LEMMA AskAgainExcused ==
    ASSUME Accounts, cur_rate = 1, AskAgain, CountAbort
    PROVE  /\ rtt_req_to_rtt_sent' = 1 /\ rtt_meas_psn' = rtt_meas_psn /\ cur_rate' = 1
           /\ mishaps' \in [Mishap -> 0..MaxFlight] /\ Excused' \in Nat
           /\ \/ Excused' >= Excused + 1
              \/ Excused' >= MaxFlight
              \/ Excused' = Excused /\ rtt_meas_psn = 0
<1>1. /\ rtt_req_to_rtt_sent' = 1 /\ rtt_meas_psn' = rtt_meas_psn /\ cur_rate' = 1
      /\ mishaps \in [Mishap -> 0..MaxFlight]
  BY DEF AskAgain, Accounts
<1>2. CASE Overdue
  <2>1. Count("aborts")
    BY <1>2 DEF CountAbort
  <2>2. QED
    BY <1>1, <2>1, Excuse
<1>3. CASE ~Overdue
  <2>1. mishaps' = mishaps /\ NotSent
    BY <1>3 DEF CountAbort, AskAgain
  <2>2. rtt_meas_psn = 0
    BY <2>1 DEF NotSent, Accounts
  <2>3. Excused' = Excused /\ Excused \in Nat
    BY <1>1, <2>1, KindsDiffer DEF Excused
  <2>4. QED
    BY <1>1, <2>1, <2>2, <2>3
<1>4. QED
  BY <1>2, <1>3

LEMMA NewFlowAccounts == Accounts /\ NewFlow => Accounts'
<1> SUFFICES ASSUME Accounts, NewFlow PROVE Accounts'
  OBVIOUS
<1>1. /\ cur_rate' = 1 /\ rtt_meas_psn' = 0 /\ rtt_req_to_rtt_sent' = 1 /\ asked'
      /\ flight' = <<>> /\ mishaps' = mishaps /\ MaxFlight \in Nat
      /\ mishaps \in [Mishap -> 0..MaxFlight]
  BY ProbeAssumption DEF NewFlow, Accounts
<1>2. asked' \in BOOLEAN
  BY Zenon DEF NewFlow
<1>3. Requests' = 1 /\ Excused' = Excused /\ Excused \in Nat
  BY <1>1, KindsDiffer DEF Requests, Excused
<1>4. QED
  BY <1>1, <1>2, <1>3 DEF Accounts

LEMMA TxAccounts == Accounts /\ Tx => Accounts'
<1> SUFFICES ASSUME Accounts, Tx PROVE Accounts'
  OBVIOUS
<1>1. /\ cur_rate = 1 /\ flight' = flight /\ flight \in Seq(Nat)
      /\ Len(flight) \in Nat /\ Len(flight) <= MaxFlight /\ MaxFlight \in Nat
      /\ rtt_meas_psn \in {0, 1} /\ rtt_req_to_rtt_sent \in 0..2
      /\ mishaps \in [Mishap -> 0..MaxFlight] /\ Excused \in Nat
      /\ Requests <= 1 + Excused
      /\ rtt_meas_psn = 0 /\ ~asked => Requests <= Excused
  BY ProbeAssumption, KindsDiffer DEF Tx, Accounts
<1>2. CASE AskAgain /\ asked' = TRUE /\ CountAbort
  <2>1. /\ rtt_req_to_rtt_sent' = 1 /\ rtt_meas_psn' = rtt_meas_psn /\ cur_rate' = 1
        /\ mishaps' \in [Mishap -> 0..MaxFlight] /\ Excused' \in Nat
        /\ \/ Excused' >= Excused + 1
           \/ Excused' >= MaxFlight
           \/ Excused' = Excused /\ rtt_meas_psn = 0
    BY <1>1, <1>2, AskAgainExcused
  <2>2. asked' \in BOOLEAN /\ asked'
    BY <1>2, Zenon
  <2>3. Requests' = Len(flight) + 1
    BY <1>1, <2>2 DEF Requests
  <2>4. Requests = Len(flight) + (IF asked THEN 1 ELSE 0)
    BY DEF Requests
  <2>5. Requests' <= 1 + Excused'
    BY <1>1, <2>1, <2>3, <2>4
  <2>6. QED
    BY <1>1, <2>1, <2>2, <2>5 DEF Accounts
<1>3. CASE GoOn /\ UNCHANGED <<asked, mishaps>>
  <2>1. /\ cur_rate' = 1 /\ rtt_meas_psn' = rtt_meas_psn
        /\ rtt_req_to_rtt_sent' = rtt_req_to_rtt_sent + (1 - rtt_meas_psn)
        /\ ~NotSent
    BY <1>1, <1>3 DEF GoOn
  <2>2. rtt_req_to_rtt_sent' \in 0..2 /\ (rtt_meas_psn = 0 => rtt_req_to_rtt_sent' > 0)
    BY <1>1, <2>1 DEF NotSent
  <2>3. Requests' = Requests /\ Excused' = Excused
    BY <1>1, <1>3 DEF Requests, Excused
  <2>4. QED
    BY <1>1, <1>3, <2>1, <2>2, <2>3 DEF Accounts
<1>4. QED
  BY <1>2, <1>3 DEF Tx

LEMMA SendRequestAccounts == Accounts /\ SendRequest => Accounts'
<1> SUFFICES ASSUME Accounts, SendRequest PROVE Accounts'
  OBVIOUS
<1>1. /\ cur_rate = 1 /\ asked /\ Len(flight) < MaxFlight
      /\ flight' = Append(flight, 0) /\ flight \in Seq(Nat)
      /\ Len(flight) \in Nat /\ MaxFlight \in Nat
      /\ rtt_meas_psn \in {0, 1} /\ rtt_req_to_rtt_sent \in 0..2
      /\ mishaps \in [Mishap -> 0..MaxFlight] /\ Excused \in Nat
      /\ Requests <= 1 + Excused
  BY ProbeAssumption, KindsDiffer DEF SendRequest, Accounts
<1>2. flight' \in Seq(Nat) /\ Len(flight') = Len(flight) + 1
  BY <1>1
<1>3. Requests = Len(flight) + 1
  BY <1>1 DEF Requests
<1>4. CASE rtt_meas_psn' = 1 /\ ~asked' /\ mishaps' = mishaps /\ rtt_req_to_rtt_sent' \in 0..2
           /\ cur_rate' = 1 /\ asked' \in BOOLEAN
  <2>1. Requests' = Len(flight) + 1 /\ Excused' = Excused
    BY <1>1, <1>2, <1>4 DEF Requests, Excused
  <2>2. QED
    BY <1>1, <1>2, <1>3, <1>4, <2>1 DEF Accounts
<1>5. CASE rtt_meas_psn = 0
  <2>1. asked' \in BOOLEAN /\ ~asked'
    BY <1>5, Zenon DEF SendRequest
  <2>2. QED
    BY <1>1, <1>4, <1>5, <2>1 DEF SendRequest, RequestReported
<1>6. CASE rtt_meas_psn = 1 /\ GoOn /\ asked' = FALSE /\ UNCHANGED mishaps
  <2>1. asked' \in BOOLEAN /\ ~asked'
    BY <1>6, Zenon
  <2>2. QED
    BY <1>1, <1>4, <1>6, <2>1 DEF GoOn
<1>7. CASE rtt_meas_psn = 1 /\ AskAgain /\ asked' = TRUE /\ CountAbort
  <2>1. /\ rtt_req_to_rtt_sent' = 1 /\ rtt_meas_psn' = rtt_meas_psn /\ cur_rate' = 1
        /\ mishaps' \in [Mishap -> 0..MaxFlight] /\ Excused' \in Nat
        /\ Excused' >= Excused + 1 \/ Excused' >= MaxFlight
    BY <1>1, <1>7, AskAgainExcused
  <2>2. asked' \in BOOLEAN /\ asked'
    BY <1>7, Zenon
  <2>3. Requests' = Len(flight) + 2
    BY <1>1, <1>2, <2>2 DEF Requests
  <2>4. Requests' <= 1 + Excused'
    BY <1>1, <1>3, <2>1, <2>3
  <2>5. QED
    BY <1>1, <1>2, <1>7, <2>1, <2>2, <2>4 DEF Accounts
<1>8. QED
  BY <1>1, <1>5, <1>6, <1>7 DEF SendRequest

LEMMA SendUnreportedAccounts == Accounts /\ SendUnreported => Accounts'
<1> SUFFICES ASSUME Accounts, SendUnreported PROVE Accounts'
  OBVIOUS
<1>1. /\ cur_rate = 1 /\ asked /\ Len(flight) < MaxFlight
      /\ flight' = Append(flight, 0) /\ flight \in Seq(Nat)
      /\ Len(flight) \in Nat /\ MaxFlight \in Nat
      /\ mishaps \in [Mishap -> 0..MaxFlight] /\ Excused \in Nat
      /\ Requests <= 1 + Excused
      /\ UNCHANGED <<cur_rate, rtt_meas_psn, rtt_req_to_rtt_sent>>
      /\ Count("events")
  BY ProbeAssumption, KindsDiffer DEF SendUnreported, Accounts, context
<1>2. asked' \in BOOLEAN /\ ~asked'
  BY Zenon DEF SendUnreported
<1>3. flight' \in Seq(Nat) /\ Len(flight') = Len(flight) + 1
  BY <1>1
<1>4. /\ mishaps' \in [Mishap -> 0..MaxFlight] /\ Excused' \in Nat
      /\ Excused' >= Excused + 1 \/ Excused' >= MaxFlight
  BY <1>1, Excuse
<1>5. Requests' = Len(flight) + 1 /\ Requests = Len(flight) + 1
  BY <1>1, <1>2, <1>3 DEF Requests
<1>6. Requests' <= Excused'
  BY <1>1, <1>4, <1>5
<1>7. /\ cur_rate' \in {0, 1} /\ rtt_meas_psn' \in {0, 1} /\ rtt_req_to_rtt_sent' \in 0..2
      /\ cur_rate' # 0
      /\ cur_rate' = 1 /\ rtt_meas_psn' = 0 => rtt_req_to_rtt_sent' > 0
  BY <1>1 DEF Accounts
<1>8. Len(flight') <= MaxFlight /\ Requests' <= 1 + Excused'
  BY <1>1, <1>3, <1>4, <1>5, <1>6
<1>9. QED
  BY <1>2, <1>3, <1>4, <1>6, <1>7, <1>8, Zenon DEF Accounts

LEMMA RttAccounts ==
    ASSUME Accounts, NEW i \in DOMAIN flight, Rtt(i)
    PROVE  Accounts'
<1>1. /\ cur_rate = 1 /\ flight' = RemoveAt(flight, i) /\ flight \in Seq(Nat)
      /\ Len(flight) \in Nat /\ Len(flight) <= MaxFlight /\ MaxFlight \in Nat
      /\ mishaps \in [Mishap -> 0..MaxFlight] /\ mishaps' = mishaps
      /\ Excused \in Nat /\ Requests <= 1 + Excused
  BY ProbeAssumption, KindsDiffer DEF Rtt, Accounts
<1>2. Expected
  BY <1>1 DEF Expected, Accounts
<1>3. /\ rtt_meas_psn' = 0 /\ rtt_req_to_rtt_sent' = 1 /\ cur_rate' = 1
  BY <1>1, <1>2 DEF Rtt
<1>4. asked' \in BOOLEAN /\ asked'
  BY <1>2, Zenon DEF Rtt
<1>5. flight' \in Seq(Nat) /\ Len(flight') = Len(flight) - 1
  BY <1>1, RemoveAtLen
<1>6. Requests' = Len(flight) /\ Excused' = Excused
  BY <1>1, <1>4, <1>5 DEF Requests, Excused
<1>7. Requests >= Len(flight)
  BY <1>1 DEF Requests
<1>8. Requests' <= 1 + Excused'
  BY <1>1, <1>6, <1>7 DEF Requests
<1>9. QED
  BY <1>1, <1>3, <1>4, <1>5, <1>8 DEF Accounts

LEMMA LoseAccounts ==
    ASSUME Accounts, NEW i \in DOMAIN flight, Lose(i)
    PROVE  Accounts'
<1>1. /\ flight' = RemoveAt(flight, i) /\ flight \in Seq(Nat) /\ flight # <<>>
      /\ Len(flight) \in Nat /\ Len(flight) <= MaxFlight /\ MaxFlight \in Nat
      /\ mishaps \in [Mishap -> 0..MaxFlight]
      /\ UNCHANGED <<cur_rate, rtt_meas_psn, rtt_req_to_rtt_sent, asked>>
      /\ Count("packets")
  BY ProbeAssumption DEF Lose, Accounts, context
<1>2. flight' \in Seq(Nat) /\ Len(flight') = Len(flight) - 1
  BY <1>1, RemoveAtLen
<1>3. "packets" \in Mishap /\ {"events", "aborts", "nacks"} \subseteq Mishap \ {"packets"}
  BY DEF Mishap
<1>4. /\ mishaps' \in [Mishap -> 0..MaxFlight]
      /\ \A k \in Mishap \ {"packets"} : mishaps'[k] = mishaps[k]
  BY <1>1, <1>3, CountEffect
<1>5. Excused' = Excused /\ Excused \in Nat
  BY <1>1, <1>3, <1>4, KindsDiffer DEF Excused
<1>6. Requests' = Requests - 1 /\ Requests \in Nat
  BY <1>1, <1>2 DEF Requests
<1>7. QED
  BY <1>1, <1>2, <1>4, <1>5, <1>6 DEF Accounts

LEMMA NackAccounts == Accounts /\ Nack => Accounts'
<1> SUFFICES ASSUME Accounts, Nack PROVE Accounts'
  OBVIOUS
<1>1. /\ cur_rate = 1 /\ flight' = flight /\ flight \in Seq(Nat)
      /\ Len(flight) \in Nat /\ Len(flight) <= MaxFlight /\ MaxFlight \in Nat
      /\ mishaps \in [Mishap -> 0..MaxFlight] /\ Excused \in Nat
      /\ Requests <= 1 + Excused
      /\ UNCHANGED <<cur_rate, rtt_meas_psn, rtt_req_to_rtt_sent>>
      /\ Count("nacks")
  BY ProbeAssumption, KindsDiffer DEF Nack, Accounts, context
<1>2. asked' \in BOOLEAN
  BY Zenon DEF Nack, Accounts
<1>3. ~asked' => ~asked
  BY Zenon DEF Nack
<1>4. /\ mishaps' \in [Mishap -> 0..MaxFlight] /\ Excused' \in Nat
      /\ Excused' >= Excused + 1 \/ Excused' >= MaxFlight
  BY <1>1, Excuse
<1>5. /\ Requests = Len(flight) + (IF asked THEN 1 ELSE 0)
      /\ Requests' = Len(flight) + (IF asked' THEN 1 ELSE 0)
  BY <1>1 DEF Requests
<1>6. Requests' <= 1 + Excused' /\ (~asked' => Requests' <= Excused')
  BY <1>1, <1>3, <1>4, <1>5
<1>7. QED
  BY <1>1, <1>2, <1>4, <1>6 DEF Accounts

LEMMA TickAccounts == Accounts /\ Tick => Accounts'
<1> SUFFICES ASSUME Accounts, Tick PROVE Accounts'
  OBVIOUS
<1>1. /\ flight \in Seq(Nat) /\ flight' = [i \in DOMAIN flight |-> flight[i] + 1]
      /\ UNCHANGED <<cur_rate, rtt_meas_psn, rtt_req_to_rtt_sent, asked, mishaps>>
  BY DEF Tick, Accounts
<1>2. flight' \in Seq(Nat) /\ Len(flight') = Len(flight) /\ (flight = <<>> => flight' = <<>>)
  <2>1. Len(flight) \in Nat /\ DOMAIN flight = 1..Len(flight)
        /\ \A i \in 1..Len(flight) : flight[i] + 1 \in Nat
    BY <1>1
  <2> DEFINE n == Len(flight)
             older == [i \in 1..n |-> flight[i] + 1]
  <2>2. flight' = older
    BY <1>1, <2>1, Zenon
  <2>3. older \in [1..n -> Nat]
    BY <2>1, Zenon
  <2>4. n \in Nat
    BY <2>1
  <2> HIDE DEF older, n
  <2>5. older \in Seq(Nat)
    BY <2>3, <2>4
  <2>6. Len(older) = n
    BY <2>3, <2>4
  <2>7. flight = <<>> => n = 0
    BY DEF n
  <2>8. n = 0 => older = <<>>
    BY <2>5, <2>6
  <2>9. QED
    BY <2>2, <2>5, <2>6, <2>7, <2>8, Zenon DEF n
<1>3. Requests' = Requests /\ Excused' = Excused
  BY <1>1, <1>2 DEF Requests, Excused
<1>4. QED
  BY <1>1, <1>2, <1>3 DEF Accounts

LEMMA NextAccounts == Accounts /\ [Next]_vars => Accounts'
<1>1. CASE UNCHANGED vars
  BY <1>1 DEF vars, context, Accounts, Requests, Excused
<1>2. QED
  BY <1>1, NewFlowAccounts, TxAccounts, SendRequestAccounts, SendUnreportedAccounts,
     RttAccounts, LoseAccounts, NackAccounts, TickAccounts DEF Next

\* However many requests are lost, given up or answered late, a flow has at most one
\* measurement more than there were mishaps.
THEOREM RequestsStayAccountedFor == Spec => []RequestsAccountedFor
<1>1. Accounts => RequestsAccountedFor
  BY KindsDiffer DEF Accounts, RequestsAccountedFor, Requests, Excused
<1>2. QED
  BY <1>1, InitAccounts, NextAccounts, PTL DEF Spec

\* Line 320 drops answers nobody waits for, but no flow is ever in that state: every answer
\* is taken and asks for the next request, the answer to one given up too early as well,
\* and a flow that does not wait for an answer counts towards asking again.
AlwaysExpected == cur_rate = 1 => Expected

THEOREM EveryAnswerTaken == Spec => []AlwaysExpected
<1>1. Accounts => AlwaysExpected
  BY DEF Accounts, AlwaysExpected, Expected
<1>2. QED
  BY <1>1, InitAccounts, NextAccounts, PTL DEF Spec

-----------------------------------------------------------------------------
(***************************************************************************)
(* Numbers, ranks and sequences.                                           *)
(***************************************************************************)
\* Max of two, as MinOfTwo for Min.
LEMMA GreatestOfTwo ==
  ASSUME NEW a \in Int, NEW b \in Int
  PROVE  Max({a, b}) = IF a >= b THEN a ELSE b
<1> DEFINE m == IF a >= b THEN a ELSE b
<1>1. m \in {a, b} /\ \A y \in {a, b} : m >= y
  OBVIOUS
<1>2. \A x \in {a, b} : (\A y \in {a, b} : x >= y) => x = m
  OBVIOUS
<1> HIDE DEF m
<1>3. Max({a, b}) = m
  BY <1>1, <1>2 DEF Max
<1>4. QED
  BY <1>3 DEF m

\* A set of naturals that is not empty has a least element.
LEMMA HasLeast ==
  ASSUME NEW S \in SUBSET Nat, S # {}
  PROVE  Min(S) \in S /\ \A y \in S : Min(S) <= y
<1> DEFINE less == OpToRel(<, Nat)
<1>1. less = {pair \in Nat \X Nat : pair[1] < pair[2]}
  BY DEF OpToRel
<1>2. IsWellFoundedOn(less, Nat)
  BY NatLessThanWellFounded
<1> HIDE DEF less
<1>3. PICK x \in S : \A y \in S : ~(<<y, x>> \in less)
  BY <1>2, WFMin
<1>4. \A y \in S : x <= y
  <2> SUFFICES ASSUME NEW y \in S, ~(x <= y) PROVE FALSE
    OBVIOUS
  <2>1. y < x /\ x \in Nat /\ y \in Nat
    OBVIOUS
  <2>2. <<y, x>> \in less
    BY <1>1, <2>1
  <2>3. QED
    BY <1>3, <2>2
<1>5. QED
  BY <1>4 DEF Min

\* A remainder is what is left of a number when multiples of the divisor are taken away.
LEMMA RemainderOf ==
  ASSUME NEW n \in Int, NEW d \in Nat \ {0}, NEW p \in Int, NEW i \in 0..(d - 1), n = d * p + i
  PROVE  n % d = i
<1>1. PICK q, r : q = n \div d /\ r = n % d
  OBVIOUS
<1>2. q \in Int /\ r \in 0..(d - 1) /\ n = d * q + r
  <2>1. q \in Int
    BY <1>1
  <2>2. r \in 0..(d - 1)
    BY <1>1
  <2>3. n = d * q + r
    BY <1>1, <2>1, <2>2
  <2>4. QED
    BY <2>1, <2>2, <2>3
<1> DEFINE m == q - p
<1>3. m \in Int /\ d * m = d * q - d * p
  BY <1>2
<1>4. d * m = i - r
  BY <1>2, <1>3
<1> HIDE DEF m
<1>5. CASE m = 0
  BY <1>1, <1>2, <1>4, <1>5
<1>6. CASE m >= 1
  <2>1. d * m >= d
    BY <1>3, <1>6
  <2>2. QED
    BY <1>2, <1>4, <2>1
<1>7. CASE m <= -1
  <2>1. d * m <= -d
    BY <1>3, <1>7
  <2>2. QED
    BY <1>2, <1>4, <2>1
<1>8. QED
  BY <1>3, <1>5, <1>6, <1>7

\* How many numbers of a set are below one of it.
Rank(S, x) == Cardinality({y \in S : y < x})

LEMMA RankBelow ==
  ASSUME NEW S \in SUBSET Nat, IsFiniteSet(S), NEW x \in S
  PROVE  /\ Rank(S, x) \in Nat /\ Rank(S, x) < Cardinality(S)
         /\ \A y \in S : y < x => Rank(S, y) < Rank(S, x)
<1>1. ASSUME NEW T \in SUBSET S, NEW U \in SUBSET T, NEW z \in T, z \notin U
      PROVE  Cardinality(U) \in Nat /\ Cardinality(T) \in Nat /\ Cardinality(U) < Cardinality(T)
  <2>1. IsFiniteSet(T) /\ IsFiniteSet(U)
    BY FS_Subset
  <2>2. Cardinality(T) \in Nat /\ Cardinality(U) \in Nat
    BY <2>1, FS_CardinalityType
  <2>3. Cardinality(U) <= Cardinality(T) /\ (Cardinality(T) = Cardinality(U) => T = U)
    BY <2>1, FS_Subset
  <2>4. QED
    BY <1>1, <2>2, <2>3
<1> DEFINE below(z) == {y \in S : y < z}
<1>2. Rank(S, x) \in Nat /\ Rank(S, x) < Cardinality(S)
  <2>1. below(x) \in SUBSET S /\ x \notin below(x) /\ S \in SUBSET S
    OBVIOUS
  <2>2. Rank(S, x) = Cardinality(below(x))
    BY DEF Rank
  <2> HIDE DEF below
  <2>3. QED
    BY <1>1, <2>1, <2>2
<1>3. ASSUME NEW y \in S, y < x PROVE Rank(S, y) < Rank(S, x)
  <2>1. below(x) \in SUBSET S /\ below(y) \in SUBSET below(x) /\ y \in below(x) /\ y \notin below(y)
    <3>1. x \in Nat /\ y \in Nat /\ \A z \in S : z \in Nat
      OBVIOUS
    <3>2. \A z \in S : z < y => z < x
      BY <1>3, <3>1
    <3>3. below(y) \subseteq below(x)
      BY <3>2
    <3>4. y \in below(x)
      BY <1>3
    <3>5. y \notin below(y)
      BY <3>1
    <3>6. below(x) \in SUBSET S
      OBVIOUS
    <3> HIDE DEF below
    <3>7. QED
      BY <3>3, <3>4, <3>5, <3>6
  <2>2. Rank(S, x) = Cardinality(below(x)) /\ Rank(S, y) = Cardinality(below(y))
    BY DEF Rank
  <2> HIDE DEF below
  <2>3. QED
    BY <1>1, <2>1, <2>2
<1>4. QED
  BY <1>2, <1>3

\* Ascending is a sequence of the numbers of the set, each at the place of its rank.
LEMMA AscendingRanks ==
  ASSUME NEW S \in SUBSET Nat, IsFiniteSet(S)
  PROVE  /\ Ascending(S) \in Seq(S) /\ Len(Ascending(S)) = Cardinality(S)
         /\ Cardinality(S) \in Nat
         /\ \A x \in S : /\ Rank(S, x) + 1 \in 1..Cardinality(S)
                         /\ Ascending(S)[Rank(S, x) + 1] = x
<1> DEFINE C == Cardinality(S)
           at(n) == CHOOSE x \in S : Rank(S, x) = n - 1
           rank == [x \in S |-> Rank(S, x)]
<1>1. C \in Nat
  BY FS_CardinalityType
<1>2. \A x \in S : Rank(S, x) \in 0..(C - 1)
  BY <1>1, RankBelow
<1>3. \A x, y \in S : Rank(S, x) = Rank(S, y) => x = y
  <2> SUFFICES ASSUME NEW x \in S, NEW y \in S, Rank(S, x) = Rank(S, y), x # y PROVE FALSE
    OBVIOUS
  <2>1. Rank(S, x) \in Nat /\ Rank(S, y) \in Nat /\ (x < y \/ y < x)
    BY RankBelow
  <2>2. QED
    BY <2>1, RankBelow
<1>4. rank \in Injection(S, 0..(C - 1))
  BY <1>2, <1>3 DEF Injection, IsInjective
<1>5. IsFiniteSet(0..(C - 1)) /\ Cardinality(0..(C - 1)) = C
  <2> HIDE DEF C
  <2>1. 0 \in Int /\ C - 1 \in Int
    BY <1>1
  <2>2. Cardinality(0..(C - 1)) = IF 0 > C - 1 THEN 0 ELSE (C - 1) - 0 + 1
    BY <2>1, FS_Interval
  <2>3. Cardinality(0..(C - 1)) = C
    BY <1>1, <2>2
  <2>4. IsFiniteSet(0..(C - 1))
    BY <2>1, FS_Interval
  <2>5. QED
    BY <2>3, <2>4
<1>6. rank \in Surjection(S, 0..(C - 1))
  <2> HIDE DEF rank
  <2>1. Cardinality(S) = Cardinality(0..(C - 1))
    BY <1>5
  <2> DEFINE T == 0..(C - 1)
  <2> HIDE DEF T
  <2>2. QED
    BY <1>4, <1>5, <2>1, FS_Injection DEF T
<1>7. \A n \in 1..C : \E x \in S : Rank(S, x) = n - 1
  <2> SUFFICES ASSUME NEW n \in 1..C PROVE \E x \in S : rank[x] = n - 1
    OBVIOUS
  <2>1. n - 1 \in 0..(C - 1)
    BY <1>1
  <2>2. QED
    BY <1>6, <2>1 DEF Surjection
<1>8. \A n \in 1..C : at(n) \in S /\ Rank(S, at(n)) = n - 1
  BY <1>7
<1>9. Ascending(S) = [n \in 1..C |-> at(n)]
  BY DEF Ascending, Rank
<1>10. Ascending(S) \in Seq(S) /\ Len(Ascending(S)) = C
  <2> DEFINE a == Ascending(S)
  <2> HIDE DEF at, C
  <2>1. a = [n \in 1..C |-> at(n)]
    BY <1>9
  <2> HIDE DEF a
  <2>2. a \in [1..C -> S]
    BY <1>8, <2>1
  <2>3. a \in Seq(S) /\ Len(a) = C
    BY <1>1, <2>2
  <2>4. QED
    BY <2>3 DEF a
<1>11. ASSUME NEW x \in S
       PROVE  Rank(S, x) + 1 \in 1..C /\ Ascending(S)[Rank(S, x) + 1] = x
  <2>1. Rank(S, x) + 1 \in 1..C /\ (Rank(S, x) + 1) - 1 = Rank(S, x)
    BY <1>1, <1>2
  <2>2. at(Rank(S, x) + 1) = x
    BY <1>3, <1>8, <2>1
  <2>3. QED
    BY <1>9, <2>1, <2>2
<1>12. QED
  BY <1>1, <1>10, <1>11

-----------------------------------------------------------------------------
(***************************************************************************)
(* The vector of flows (NicScheduler).                                     *)
(***************************************************************************)
NicBook ==
  /\ m_qps \in Seq(Flows) /\ m_rrlast \in Nat /\ reassigned \in Seq(Flows)
  /\ snd_nxt \in [Flows -> Nat] /\ snd_una \in [Flows -> Nat]
  /\ \A f \in Flows : snd_una[f] <= snd_nxt[f]

\* Known flows: those in the vector, and those a link failure has taken out of it.
Known == ToSet(m_qps) \cup ToSet(reassigned)

LEMMA SeqElements ==
  ASSUME NEW S, NEW s \in Seq(S)
  PROVE  /\ Len(s) \in Nat /\ DOMAIN s = 1..Len(s)
         /\ \A i \in 1..Len(s) : s[i] \in S
         /\ ToSet(s) = {s[i] : i \in 1..Len(s)} /\ ToSet(s) \subseteq S
  BY DEF ToSet

LEMMA AppendElements ==
  ASSUME NEW S, NEW s \in Seq(S), NEW x \in S
  PROVE  Append(s, x) \in Seq(S) /\ ToSet(Append(s, x)) = ToSet(s) \cup {x}
<1>1. Append(s, x) \in Seq(S) /\ Len(Append(s, x)) = Len(s) + 1 /\ Len(s) \in Nat
  OBVIOUS
<1>2. \A i \in 1..Len(s) : Append(s, x)[i] = s[i]
  OBVIOUS
<1>3. Append(s, x)[Len(s) + 1] = x
  OBVIOUS
<1>4. ToSet(Append(s, x)) \subseteq ToSet(s) \cup {x}
  <2> SUFFICES ASSUME NEW i \in 1..(Len(s) + 1)
               PROVE  Append(s, x)[i] \in ToSet(s) \cup {x}
    <3>1. ToSet(Append(s, x)) = {Append(s, x)[i] : i \in 1..Len(Append(s, x))}
      BY <1>1, SeqElements
    <3>2. QED
      BY <1>1, <3>1
  <2>1. CASE i = Len(s) + 1
    BY <1>3, <2>1
  <2>2. CASE i # Len(s) + 1
    <3>1. i \in 1..Len(s)
      BY <1>1, <2>2
    <3>2. QED
      BY <1>2, <3>1, SeqElements
  <2>3. QED
    BY <2>1, <2>2
<1>5. ToSet(s) \cup {x} \subseteq ToSet(Append(s, x))
  <2>1. \A i \in 1..Len(s) : i \in 1..(Len(s) + 1)
    BY <1>1
  <2>2. Len(s) + 1 \in 1..(Len(s) + 1)
    BY <1>1
  <2>3. ToSet(Append(s, x)) = {Append(s, x)[i] : i \in 1..(Len(s) + 1)}
    BY <1>1, SeqElements
  <2>4. ASSUME NEW i \in 1..Len(s) PROVE s[i] \in ToSet(Append(s, x))
    BY <1>2, <2>1, <2>3
  <2>5. x \in ToSet(Append(s, x))
    BY <1>3, <2>2, <2>3
  <2>6. QED
    BY <2>4, <2>5, SeqElements
<1>6. QED
  BY <1>1, <1>4, <1>5

LEMMA TailElements ==
  ASSUME NEW S, NEW s \in Seq(S), s # <<>>
  PROVE  /\ Head(s) \in S /\ Tail(s) \in Seq(S)
         /\ ToSet(s) = {Head(s)} \cup ToSet(Tail(s))
<1>1. /\ Head(s) = s[1] /\ Tail(s) \in Seq(S) /\ Len(Tail(s)) = Len(s) - 1
      /\ Len(s) \in Nat /\ Len(s) >= 1
      /\ \A i \in 1..(Len(s) - 1) : Tail(s)[i] = s[i + 1]
  OBVIOUS
<1>2. Head(s) \in S
  BY <1>1
<1>3. ToSet(s) \subseteq {Head(s)} \cup ToSet(Tail(s))
  <2> SUFFICES ASSUME NEW i \in 1..Len(s) PROVE s[i] \in {Head(s)} \cup ToSet(Tail(s))
    BY SeqElements
  <2>1. CASE i = 1
    BY <1>1, <2>1
  <2>2. CASE i # 1
    <3>1. i - 1 \in 1..(Len(s) - 1) /\ (i - 1) + 1 = i
      BY <1>1, <2>2
    <3>2. Tail(s)[i - 1] = s[i]
      BY <1>1, <3>1
    <3>3. ToSet(Tail(s)) = {Tail(s)[j] : j \in 1..(Len(s) - 1)}
      BY <1>1, SeqElements
    <3>4. QED
      BY <3>1, <3>2, <3>3
  <2>3. QED
    BY <2>1, <2>2
<1>4. {Head(s)} \cup ToSet(Tail(s)) \subseteq ToSet(s)
  <2>1. 1 \in 1..Len(s) /\ \A i \in 1..(Len(s) - 1) : i + 1 \in 1..Len(s)
    BY <1>1
  <2>2. ToSet(Tail(s)) = {Tail(s)[i] : i \in 1..(Len(s) - 1)}
    BY <1>1, SeqElements
  <2>3. ToSet(s) = {s[i] : i \in 1..Len(s)}
    BY SeqElements
  <2>4. QED
    BY <1>1, <2>1, <2>2, <2>3
<1>5. QED
  BY <1>1, <1>2, <1>3, <1>4

\* Clearing the finished flows leaves every other flow in the vector, and the flow at a kept
\* index at the place Renumbered gives.
LEMMA KeptFlows ==
  ASSUME NicBook
  PROVE  /\ Kept \in Seq(Flows)
         /\ \A i \in 0..(Len(m_qps) - 1) : IsKept(i) =>
              /\ Renumbered(i) \in Nat
              /\ Renumbered(i) + 1 \in 1..Len(Kept)
              /\ Kept[Renumbered(i) + 1] = m_qps[i + 1]
         /\ ToSet(Kept) \subseteq ToSet(m_qps)
<1> DEFINE L == Len(m_qps)
           K == {i \in 0..(L - 1) : IsKept(i)}
           kept == Ascending(K)
<1>1. L \in Nat /\ m_qps \in Seq(Flows) /\ DOMAIN m_qps = 1..L
  BY SeqElements DEF NicBook
<1>2. K \in SUBSET Nat /\ IsFiniteSet(K)
  <2>1. IsFiniteSet(0..(L - 1))
    BY <1>1, FS_Interval
  <2>2. K \in SUBSET (0..(L - 1))
    OBVIOUS
  <2>3. IsFiniteSet(K)
    BY <2>1, <2>2, FS_Subset
  <2>4. QED
    BY <1>1, <2>2, <2>3
<1> HIDE DEF K
<1>3. /\ kept \in Seq(K) /\ Len(kept) = Cardinality(K) /\ Cardinality(K) \in Nat
      /\ \A x \in K : /\ Rank(K, x) + 1 \in 1..Cardinality(K)
                      /\ kept[Rank(K, x) + 1] = x
  BY <1>2, AscendingRanks
<1>4. Kept = [n \in DOMAIN kept |-> GetQp(m_qps, kept[n])]
  BY DEF Kept, K
<1> HIDE DEF kept
<1> DEFINE C == Cardinality(K)
<1> HIDE DEF C
<1>5. C \in Nat /\ DOMAIN kept = 1..C /\ \A n \in 1..C : kept[n] \in K
  BY <1>3, SeqElements DEF C
<1>6. \A i \in K : i \in 0..(L - 1) /\ GetQp(m_qps, i) = m_qps[i + 1] /\ i + 1 \in 1..L
  BY <1>1 DEF GetQp, K
<1>7. \A i \in K : GetQp(m_qps, i) \in ToSet(m_qps) /\ GetQp(m_qps, i) \in Flows
  BY <1>1, <1>6, SeqElements
<1>8. Kept \in [1..C -> Flows]
  BY <1>4, <1>5, <1>7
<1>9. Kept \in Seq(Flows) /\ Len(Kept) = C /\ DOMAIN Kept = 1..C
  BY <1>5, <1>8
<1>10. ASSUME NEW i \in K
       PROVE  /\ Renumbered(i) \in Nat
              /\ Renumbered(i) + 1 \in 1..Len(Kept)
              /\ Kept[Renumbered(i) + 1] = m_qps[i + 1]
  <2>1. Renumbered(i) = Rank(K, i)
    <3>1. {j \in 0..(i - 1) : IsKept(j)} = {j \in K : j < i}
      <4>1. \A j : j \in 0..(i - 1) <=> j \in 0..(L - 1) /\ j < i
        BY <1>1, <1>6
      <4>2. QED
        BY <4>1 DEF K
    <3>2. QED
      BY <3>1 DEF Renumbered, Rank
  <2>2. Rank(K, i) + 1 \in 1..C /\ kept[Rank(K, i) + 1] = i /\ Rank(K, i) \in Nat
    BY <1>2, <1>3, RankBelow DEF C
  <2>3. Kept[Rank(K, i) + 1] = GetQp(m_qps, i)
    BY <1>4, <1>5, <2>2
  <2>4. QED
    BY <1>6, <1>9, <2>1, <2>2, <2>3
<1>11. ToSet(Kept) \subseteq ToSet(m_qps)
  <2>1. \A n \in 1..C : Kept[n] \in ToSet(m_qps)
    BY <1>4, <1>5, <1>7
  <2>2. QED
    BY <1>9, <2>1 DEF ToSet
<1>12. QED
  BY <1>9, <1>10, <1>11 DEF K

\* The scan meets every index of the vector, wherever it begins.
LEMMA ScanMeetsAll ==
  ASSUME NicBook
  PROVE  /\ \A k \in 1..Len(m_qps) : Scanned(k) \in 0..(Len(m_qps) - 1)
         /\ \A i \in 0..(Len(m_qps) - 1) : \E k \in 1..Len(m_qps) : Scanned(k) = i
<1> DEFINE L == Len(m_qps)
           r == m_rrlast
<1>1. L \in Nat /\ r \in Nat
  BY SeqElements DEF NicBook
<1> HIDE DEF L, r
<1>2. ASSUME NEW k \in 1..L PROVE (k + r) % L \in 0..(L - 1)
  BY <1>1
<1>3. ASSUME NEW i \in 0..(L - 1) PROVE \E k \in 1..L : (k + r) % L = i
  <2>1. L \in Nat \ {0}
    BY <1>1
  <2> DEFINE d == (i - r) % L
             q == (i - r) \div L
  <2>2. d \in 0..(L - 1) /\ q \in Int /\ i - r = L * q + d
    BY <1>1, <2>1
  <2> HIDE DEF d, q
  <2>3. CASE d # 0
    <3>1. d \in 1..L /\ d + r \in Int /\ -q \in Int
      BY <1>1, <2>2, <2>3
    <3>2. L * (-q) = -(L * q)
      BY <2>1, <2>2
    <3>3. L * q \in Int
      BY <2>1, <2>2
    <3>4. d + r = L * (-q) + i
      BY <1>1, <2>2, <3>2, <3>3
    <3>5. QED
      BY <2>1, <3>1, <3>4, RemainderOf
  <2>4. CASE d = 0
    <3>1. L \in 1..L /\ L + r \in Int /\ 1 - q \in Int
      BY <1>1, <2>1, <2>2
    <3>2. L * (1 - q) = L - L * q
      BY <2>1, <2>2
    <3>3. L * q \in Int
      BY <2>1, <2>2
    <3>4. L + r = L * (1 - q) + i
      BY <1>1, <2>2, <2>4, <3>2, <3>3
    <3>5. QED
      BY <2>1, <3>1, <3>4, RemainderOf
  <2>5. QED
    BY <2>3, <2>4
<1>4. QED
  BY <1>2, <1>3 DEF Scanned, L, r

\* A flow that may send has something left to send and is not finished.
LEMMA ReadyUnfinished ==
  ASSUME NicBook, NEW f \in Flows, Ready(f)
  PROVE  /\ snd_nxt[f] \in Nat /\ Size[f] \in Nat
         /\ snd_nxt[f] < Size[f] /\ ~IsFinished(f)
<1>1. snd_nxt[f] \in Nat /\ snd_una[f] \in Nat /\ Size[f] \in Nat /\ snd_una[f] <= snd_nxt[f]
  BY NicAssumption DEF NicBook
<1>2. BytesLeft(f) > 0
  BY DEF Ready, CanSend
<1>3. BytesLeft(f) = IF Size[f] - snd_nxt[f] >= 0 THEN Size[f] - snd_nxt[f] ELSE 0
  BY <1>1, GreatestOfTwo DEF BytesLeft
<1>4. QED
  BY <1>1, <1>2, <1>3 DEF IsFinished

\* The choice of the scan, and where the flow chosen is after the clearing.
LEMMA FlowChosen ==
  ASSUME NicBook
  PROVE  /\ ReadyAt = {} <=> {f \in ToSet(m_qps) : Ready(f)} = {}
         /\ ReadyAt # {} =>
              LET res == Renumbered(Scanned(Min(ReadyAt)))
                  f == GetQp(Kept, res)
              IN  /\ res \in Nat /\ f \in ToSet(m_qps) /\ f \in ToSet(Kept)
                  /\ f \in Flows /\ Ready(f)
<1> DEFINE L == Len(m_qps)
<1>1. /\ L \in Nat /\ m_qps \in Seq(Flows)
      /\ ToSet(m_qps) = {m_qps[i] : i \in 1..L} /\ ToSet(m_qps) \subseteq Flows
  BY SeqElements DEF NicBook
<1>2. /\ \A k \in 1..L : Scanned(k) \in 0..(L - 1)
      /\ \A i \in 0..(L - 1) : \E k \in 1..L : Scanned(k) = i
  BY ScanMeetsAll
<1>3. \A i \in 0..(L - 1) : GetQp(m_qps, i) = m_qps[i + 1] /\ i + 1 \in 1..L
  BY <1>1 DEF GetQp
<1>4. ASSUME ReadyAt # {}
      PROVE  LET res == Renumbered(Scanned(Min(ReadyAt)))
                 f == GetQp(Kept, res)
             IN  /\ res \in Nat /\ f \in ToSet(m_qps) /\ f \in ToSet(Kept)
                 /\ f \in Flows /\ Ready(f)
  <2> DEFINE i == Scanned(Min(ReadyAt))
  <2>1. ReadyAt \in SUBSET Nat
    BY <1>1 DEF ReadyAt
  <2>2. Min(ReadyAt) \in ReadyAt
    BY <1>4, <2>1, HasLeast
  <2>3. i \in 0..(L - 1) /\ Ready(GetQp(m_qps, i))
    BY <1>2, <2>2 DEF ReadyAt
  <2> HIDE DEF i
  <2>4. m_qps[i + 1] \in ToSet(m_qps) /\ m_qps[i + 1] \in Flows /\ Ready(m_qps[i + 1])
    BY <1>1, <1>3, <2>3
  <2>5. IsKept(i)
    BY <1>3, <2>3, <2>4, ReadyUnfinished DEF IsKept
  <2>6. /\ Renumbered(i) \in Nat /\ Renumbered(i) + 1 \in 1..Len(Kept)
        /\ Kept[Renumbered(i) + 1] = m_qps[i + 1] /\ Kept \in Seq(Flows)
    BY <2>3, <2>5, KeptFlows
  <2>7. Renumbered(i) < Len(Kept)
    BY <2>6, SeqElements
  <2>8. GetQp(Kept, Renumbered(i)) = m_qps[i + 1]
    BY <2>6, <2>7 DEF GetQp
  <2>9. m_qps[i + 1] \in ToSet(Kept)
    BY <2>6, SeqElements
  <2>10. QED
    BY <2>4, <2>6, <2>8, <2>9 DEF i
<1>5. ASSUME NEW f \in ToSet(m_qps), Ready(f) PROVE ReadyAt # {}
  <2>1. PICK n \in 1..L : f = m_qps[n]
    BY <1>1
  <2>2. n - 1 \in 0..(L - 1) /\ (n - 1) + 1 = n
    BY <1>1
  <2>3. PICK k \in 1..L : Scanned(k) = n - 1
    BY <1>2, <2>2
  <2>4. k \in ReadyAt
    BY <1>3, <1>5, <2>1, <2>2, <2>3 DEF ReadyAt
  <2>5. QED
    BY <2>4
<1>6. QED
  BY <1>4, <1>5

\* A flow leaves the NIC only when it is finished.
StaysUntilFinished == \A f \in Known : IsFinished(f) \/ f \in Known'

\* What the sending of a flow makes of the sequence numbers.
LEMMA OneMoreSent ==
  ASSUME NicBook, NEW f \in Flows, Ready(f),
         snd_nxt' = [g \in Flows |->
           IF g = f THEN Min({snd_nxt[f] + 1, Size[f]}) ELSE snd_nxt[g]]
  PROVE  /\ snd_nxt' = [snd_nxt EXCEPT ![f] = @ + 1]
         /\ snd_nxt' \in [Flows -> Nat]
         /\ \A g \in Flows : snd_nxt[g] <= snd_nxt'[g]
<1>1. snd_nxt[f] \in Nat /\ Size[f] \in Nat /\ snd_nxt[f] < Size[f]
  BY ReadyUnfinished
<1>2. Min({snd_nxt[f] + 1, Size[f]}) = snd_nxt[f] + 1
  BY <1>1, MinOfTwo
<1>3. snd_nxt \in [Flows -> Nat]
  BY DEF NicBook
<1>4. snd_nxt' = [snd_nxt EXCEPT ![f] = @ + 1]
  BY <1>2, <1>3
<1>5. ASSUME NEW g \in Flows
      PROVE  snd_nxt'[g] = (IF g = f THEN snd_nxt[f] + 1 ELSE snd_nxt[g])
             /\ snd_nxt'[g] \in Nat /\ snd_nxt[g] <= snd_nxt'[g]
  <2>1. snd_nxt'[g] = IF g = f THEN snd_nxt[f] + 1 ELSE snd_nxt[g]
    BY <1>3, <1>4
  <2>2. snd_nxt[g] \in Nat
    BY <1>3
  <2>3. QED
    BY <1>1, <2>1, <2>2
<1>6. snd_nxt' \in [Flows -> Nat]
  <2>1. snd_nxt' = [g \in Flows |-> snd_nxt'[g]]
    BY <1>3, <1>4
  <2>2. QED
    BY <1>5, <2>1
<1>7. QED
  BY <1>4, <1>5, <1>6

LEMMA DequeueStep ==
  ASSUME NicBook, DequeueAndTransmit
  PROVE  /\ NicBook' /\ StaysUntilFinished
         /\ txLeft = None /\ (AckPg \in m_paused \/ m_ackQ = 0) =>
              LET ready == {f \in ToSet(m_qps) : Ready(f)}
              IN  IF ready = {} THEN wire' = wire
                  ELSE \E f \in ready : snd_nxt' = [snd_nxt EXCEPT ![f] = @ + 1]
<1>1. reassigned' = reassigned /\ snd_una' = snd_una
  BY DEF DequeueAndTransmit, SendAck, SendFlow, Sleep, wire, rates
<1>2. ASSUME m_qps' = Kept PROVE StaysUntilFinished
  <2> SUFFICES ASSUME NEW f \in ToSet(m_qps), ~IsFinished(f) PROVE f \in ToSet(Kept)
    BY <1>1, <1>2 DEF StaysUntilFinished, Known
  <2>1. m_qps \in Seq(Flows)
    BY DEF NicBook
  <2>2. PICK n \in 1..Len(m_qps) : f = m_qps[n]
    BY <2>1, SeqElements
  <2>3. n - 1 \in 0..(Len(m_qps) - 1) /\ (n - 1) + 1 = n /\ n - 1 < Len(m_qps)
    BY <2>1, SeqElements
  <2>4. GetQp(m_qps, n - 1) = f
    BY <2>2, <2>3 DEF GetQp
  <2>5. IsKept(n - 1)
    BY <2>4 DEF IsKept
  <2>6. /\ Renumbered(n - 1) + 1 \in 1..Len(Kept)
        /\ Kept[Renumbered(n - 1) + 1] = f /\ Kept \in Seq(Flows)
    BY <2>2, <2>3, <2>5, KeptFlows
  <2>7. QED
    BY <2>6, SeqElements
<1>3. ASSUME m_qps' = m_qps PROVE StaysUntilFinished
  BY <1>1, <1>3 DEF StaysUntilFinished, Known
<1>4. CASE txLeft # None \/ (txLeft = None /\ AckPg \notin m_paused /\ m_ackQ > 0)
  <2>1. m_qps' = m_qps /\ m_rrlast' = m_rrlast /\ wire' = wire
    BY <1>4 DEF DequeueAndTransmit, SendAck
  <2>2. NicBook'
    BY <1>1, <2>1 DEF NicBook, wire
  <2>3. ~(txLeft = None /\ (AckPg \in m_paused \/ m_ackQ = 0))
    BY <1>4
  <2>4. QED
    BY <1>3, <2>1, <2>2, <2>3
<1>5. CASE txLeft = None /\ (AckPg \in m_paused \/ m_ackQ = 0)
  <2> DEFINE ready == {f \in ToSet(m_qps) : Ready(f)}
  <2>1. IF ReadyAt # {} THEN SendFlow ELSE Sleep
    BY <1>5 DEF DequeueAndTransmit
  <2>2. m_qps' = Kept
    BY <2>1 DEF SendFlow, Sleep
  <2>3. CASE ReadyAt # {}
    <3> DEFINE res == Renumbered(Scanned(Min(ReadyAt)))
               f == GetQp(Kept, res)
    <3>1. res \in Nat /\ f \in ready /\ f \in Flows /\ Ready(f) /\ ready # {}
      BY <2>3, FlowChosen
    <3>2. /\ m_rrlast' = res
          /\ snd_nxt' = [g \in Flows |->
               IF g = f THEN Min({snd_nxt[f] + 1, Size[f]}) ELSE snd_nxt[g]]
      BY <2>1, <2>3 DEF SendFlow
    <3> HIDE DEF res, f, ready
    <3>3. /\ snd_nxt' = [snd_nxt EXCEPT ![f] = @ + 1]
          /\ snd_nxt' \in [Flows -> Nat] /\ \A g \in Flows : snd_nxt[g] <= snd_nxt'[g]
      BY <3>1, <3>2, OneMoreSent
    <3>4. NicBook'
      <4>1. \A g \in Flows : snd_una'[g] <= snd_nxt'[g]
        <5>1. \A g \in Flows : snd_una[g] \in Nat /\ snd_nxt[g] \in Nat /\ snd_nxt'[g] \in Nat
          BY <3>3 DEF NicBook
        <5>2. QED
          BY <1>1, <3>3, <5>1 DEF NicBook
      <4>2. Kept \in Seq(Flows)
        BY KeptFlows
      <4>3. QED
        BY <1>1, <2>2, <3>1, <3>2, <3>3, <4>1, <4>2 DEF NicBook
    <3>5. \E g \in ready : snd_nxt' = [snd_nxt EXCEPT ![g] = @ + 1]
      BY <3>1, <3>3
    <3>6. QED
      BY <1>2, <2>2, <3>1, <3>4, <3>5 DEF ready
  <2>4. CASE ReadyAt = {}
    <3>1. m_rrlast' = m_rrlast /\ wire' = wire
      BY <2>1, <2>4 DEF Sleep
    <3>2. NicBook'
      BY <1>1, <2>2, <3>1, KeptFlows DEF NicBook, wire
    <3>3. ready = {}
      BY <2>4, FlowChosen
    <3>4. QED
      BY <1>2, <2>2, <3>1, <3>2, <3>3
  <2>5. QED
    BY <2>3, <2>4
<1>6. QED
  BY <1>4, <1>5 DEF DequeueAndTransmit

LEMMA AckStep ==
  ASSUME NicBook, NEW f \in Flows, Ack(f) \/ ReceiveNack(f)
  PROVE  NicBook' /\ StaysUntilFinished /\ ~trigger
<1>1. PICK seq \in Nat, isNack \in BOOLEAN :
        /\ ReceiveAck(f, seq, isNack)
        /\ IF isNack THEN TRUE ELSE seq <= snd_nxt[f]
  <2>1. snd_una[f] \in Nat /\ snd_nxt[f] \in Nat
    BY DEF NicBook
  <2>2. CASE Ack(f)
    <3>1. PICK seq \in (snd_una[f] + 1)..snd_nxt[f] : ReceiveAck(f, seq, FALSE)
      BY <2>2 DEF Ack
    <3>2. seq \in Nat /\ seq <= snd_nxt[f]
      BY <2>1
    <3>3. QED
      BY <3>1, <3>2
  <2>3. CASE ReceiveNack(f)
    <3>1. PICK seq \in snd_una[f]..(snd_nxt[f] - 1) : ReceiveAck(f, seq, TRUE)
      BY <2>3 DEF ReceiveNack
    <3>2. seq \in Nat
      BY <2>1
    <3>3. QED
      BY <3>1, <3>2
  <2>4. QED
    BY <2>2, <2>3
<1>2. /\ Settled /\ snd_una' = [snd_una EXCEPT ![f] = seq]
      /\ snd_nxt' = IF isNack THEN [snd_nxt EXCEPT ![f] = seq] ELSE snd_nxt
      /\ m_qps' = m_qps /\ m_rrlast' = m_rrlast /\ reassigned' = reassigned
  BY <1>1 DEF ReceiveAck
<1>3. NicBook'
  BY <1>1, <1>2 DEF NicBook
<1>4. QED
  BY <1>2, <1>3 DEF Settled, StaysUntilFinished, Known

LEMMA NicStep ==
  ASSUME NicBook, [NicNext]_nicVars
  PROVE  /\ NicBook' /\ StaysUntilFinished
         /\ trigger => DequeueAndTransmit \/ UNCHANGED nicVars
<1>1. ASSUME UNCHANGED <<m_qps, m_rrlast, wire, reassigned>>
      PROVE  NicBook' /\ StaysUntilFinished
  BY <1>1 DEF NicBook, StaysUntilFinished, Known, wire
<1>2. CASE DequeueAndTransmit
  BY <1>2, DequeueStep
<1>3. CASE TransmitComplete
  BY <1>1, <1>3 DEF TransmitComplete, Settled
<1>4. CASE TimerExpires
  BY <1>1, <1>4 DEF TimerExpires, Settled
<1>5. CASE TimePasses
  BY <1>1, <1>5 DEF TimePasses, Settled
<1>6. ASSUME NEW f \in Flows, NewQp(f)
      PROVE  NicBook' /\ StaysUntilFinished /\ ~trigger
  <2>1. /\ Settled /\ m_qps' = Append(m_qps, f) /\ m_rrlast' = m_rrlast
        /\ wire' = wire /\ reassigned' = reassigned
    BY <1>6 DEF NewQp
  <2>2. m_qps' \in Seq(Flows) /\ ToSet(m_qps') = ToSet(m_qps) \cup {f}
    BY <2>1, AppendElements DEF NicBook
  <2>3. QED
    BY <2>1, <2>2 DEF NicBook, StaysUntilFinished, Known, wire, Settled
<1>7. ASSUME NEW f \in Flows, Ack(f) \/ ReceiveNack(f)
      PROVE  NicBook' /\ StaysUntilFinished /\ ~trigger
  BY <1>7, AckStep
<1>8. ASSUME NEW f \in Flows, SetRate(f)
      PROVE  NicBook' /\ StaysUntilFinished /\ ~trigger
  BY <1>1, <1>8 DEF SetRate, Settled
<1>9. CASE RdmaEnqueueHighPrioQ
  BY <1>1, <1>9 DEF RdmaEnqueueHighPrioQ, Settled
<1>10. ASSUME NEW pg \in Groups, Pause(pg) \/ Resume(pg)
       PROVE  NicBook' /\ StaysUntilFinished /\ ~trigger
  BY <1>1, <1>10 DEF Pause, Resume, Settled
<1>11. CASE RedistributeQp
  <2> DEFINE rest == {f \in ToSet(m_qps) : ~IsFinished(f)}
  <2>1. /\ ~trigger /\ m_qps' = <<>> /\ reassigned' = Ascending(rest) /\ m_rrlast' = m_rrlast
        /\ reassigned = <<>> /\ wire' = wire
    BY <1>11 DEF RedistributeQp, Settled
  <2>2. m_qps \in Seq(Flows) /\ ToSet(m_qps) \subseteq Flows /\ Len(m_qps) \in Nat
        /\ ToSet(m_qps) = {m_qps[i] : i \in 1..Len(m_qps)}
    BY SeqElements DEF NicBook
  <2>3. rest \in SUBSET Nat /\ rest \in SUBSET Flows
    BY <2>2, NicAssumption
  <2>4. IsFiniteSet(rest)
    <3>1. IsFiniteSet(1..Len(m_qps))
      BY <2>2, FS_Interval
    <3> DEFINE at == [i \in 1..Len(m_qps) |-> m_qps[i]]
    <3>2. at \in Surjection(1..Len(m_qps), ToSet(m_qps))
      BY <2>2 DEF Surjection
    <3> HIDE DEF at
    <3>3. IsFiniteSet(ToSet(m_qps))
      BY <3>1, <3>2, FS_Surjection
    <3>4. QED
      BY <3>3, FS_Subset
  <2> HIDE DEF rest
  <2>5. /\ Ascending(rest) \in Seq(rest) /\ Len(Ascending(rest)) = Cardinality(rest)
        /\ \A f \in rest : /\ Rank(rest, f) + 1 \in 1..Cardinality(rest)
                           /\ Ascending(rest)[Rank(rest, f) + 1] = f
    BY <2>3, <2>4, AscendingRanks
  <2>6. rest \subseteq ToSet(Ascending(rest))
    BY <2>5, SeqElements
  <2>7. Ascending(rest) \in Seq(Flows)
    <3> DEFINE a == Ascending(rest)
    <3> HIDE DEF a
    <3>1. a \in Seq(rest)
      BY <2>5 DEF a
    <3>2. Len(a) \in Nat /\ a = [i \in 1..Len(a) |-> a[i]] /\ \A i \in 1..Len(a) : a[i] \in Flows
      BY <2>3, <3>1
    <3>3. a \in Seq(Flows)
      BY <3>2
    <3>4. QED
      BY <3>3 DEF a
  <2>8. NicBook'
    BY <2>1, <2>7 DEF NicBook, wire
  <2>9. StaysUntilFinished
    <3>1. ToSet(<<>>) = {}
      BY DEF ToSet
    <3>2. QED
      BY <2>1, <2>6, <3>1 DEF StaysUntilFinished, Known, rest
  <2>10. QED
    BY <2>1, <2>8, <2>9
<1>12. CASE ReassignedQp
  <2>1. /\ ~trigger /\ reassigned # <<>> /\ m_qps' = Append(m_qps, Head(reassigned))
        /\ reassigned' = Tail(reassigned) /\ m_rrlast' = m_rrlast /\ wire' = wire
    BY <1>12 DEF ReassignedQp
  <2>2. /\ Head(reassigned) \in Flows /\ Tail(reassigned) \in Seq(Flows)
        /\ ToSet(reassigned) = {Head(reassigned)} \cup ToSet(Tail(reassigned))
    BY <2>1, TailElements DEF NicBook
  <2>3. m_qps' \in Seq(Flows) /\ ToSet(m_qps') = ToSet(m_qps) \cup {Head(reassigned)}
    BY <2>1, <2>2, AppendElements DEF NicBook
  <2>4. NicBook'
    BY <2>1, <2>2, <2>3 DEF NicBook, wire
  <2>5. Known' = Known
    BY <2>1, <2>2, <2>3 DEF Known
  <2>6. QED
    BY <2>1, <2>4, <2>5 DEF StaysUntilFinished
<1>13. CASE UNCHANGED nicVars
  BY <1>1, <1>13 DEF nicVars
<1>14. QED
  BY <1>2, <1>3, <1>4, <1>5, <1>6, <1>7, <1>8, <1>9, <1>10, <1>11, <1>12, <1>13
     DEF NicNext, TransmitComplete, TimerExpires, TimePasses, RdmaEnqueueHighPrioQ, Settled

LEMMA NicBegins == NicInit => NicBook
  BY DEF NicInit, NicBook

\* The book of the NIC: its vectors hold flows, and nothing is acknowledged that was not sent.
THEOREM NicKept == NicSpec => []NicBook
<1>1. NicBook /\ [NicNext]_nicVars => NicBook'
  BY NicStep
<1>2. QED
  BY <1>1, NicBegins, PTL DEF NicSpec

THEOREM NicSends == NicSpec => SendsWhenPossible
<1> DEFINE Sends ==
      trigger /\ txLeft = None /\ (AckPg \in m_paused \/ m_ackQ = 0) =>
        LET ready == {f \in ToSet(m_qps) : Ready(f)}
        IN  IF ready = {} THEN wire' = wire
            ELSE \E f \in ready : snd_nxt' = [snd_nxt EXCEPT ![f] = @ + 1]
<1>1. NicBook /\ [NicNext]_nicVars => [Sends]_nicVars
  BY NicStep, DequeueStep
<1>2. QED
  BY <1>1, NicKept, PTL DEF NicSpec, SendsWhenPossible

\* A flow leaves the NIC, through the clearing of finished flows or a link failure, only
\* when all of it is acknowledged.
THEOREM FlowsStay == NicSpec => [][StaysUntilFinished]_nicVars
<1>1. NicBook /\ [NicNext]_nicVars => StaysUntilFinished
  BY NicStep
<1>2. QED
  BY <1>1, NicKept, PTL DEF NicSpec
==============================================================================
