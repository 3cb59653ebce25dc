-------------------------- MODULE TelemetryGraph --------------------------
(***************************************************************************)
(* The script graph.py, which turns the flow entries of one port and epoch *)
(* into the weights of the provenance graph.  It does not know when the    *)
(* packets of the flows arrived: it lays them out evenly over the epoch    *)
(* (sim_pkt_queue, lines 20-26), lets every packet wait for as many of its *)
(* predecessors as its flow found in the queue on average, and calls the   *)
(* difference between being waited for and waiting the degree of a flow.   *)
(* The layout is built packet by packet; everything else is a function of  *)
(* it.  Ratios are compared by cross-multiplication, and the floats        *)
(* rounded to one decimal are counted in tenths.                           *)
(***************************************************************************)
EXTENDS Integers, Sequences, FiniteSets, FiniteSetsExt, Functions

CONSTANTS N,        \* the most flow entries printed for the port
          Entries,  \* entries a switch may print: packetNum, enqQdepth, pfcPausedPacketNum
          Names     \* what line 119 makes of a tuple: source and destination only

(***************************************************************************)
(* A flow is printed only with packets, of which some may be paused; from  *)
(* 20 packets on, the rounding of a tie depends on the binary fraction.    *)
(***************************************************************************)
ASSUME GraphAssumption ==
    /\ N \in Nat \ {0}
    /\ \A e \in Entries : /\ e.packetNum \in 1..19
                          /\ e.enqQdepth \in Nat
                          /\ e.pfcPausedPacketNum \in 0..e.packetNum

VARIABLES entries,   \* the entries read, in the order of the report
          flows,     \* their names
          ptrs,      \* packets laid out so far, by flow
          pkt_list   \* the flow of every packet laid out

graphVars == <<entries, flows, ptrs, pkt_list>>

Flow == DOMAIN entries

GraphTypeOK ==
    /\ \E n \in 1..N : /\ entries \in [1..n -> Entries]
                      /\ flows \in [1..n -> Names]
                      /\ ptrs \in [1..n -> Nat]
    /\ pkt_list \in Seq(Flow)

pktnum(f) == entries[f].packetNum

\* Lines 125-128: enqQdepth was added up over the packets that were not paused.
queuedepth(f) ==
    LET unpaused == pktnum(f) - entries[f].pfcPausedPacketNum
    IN  IF unpaused = 0 THEN 0 ELSE entries[f].enqQdepth \div unpaused

(***************************************************************************)
(* The layout.                                                             *)
(***************************************************************************)
Behind(f, g) == ptrs[f] * pktnum(g) < ptrs[g] * pktnum(f)

Done == \A f \in Flow : ptrs[f] >= pktnum(f)

\* Mutant of IsNext: the flow with the fewest packets so far.
FewestFirst(f) ==
    /\ \A g \in Flow : ptrs[f] <= ptrs[g]
    /\ \A g \in 1..(f - 1) : ptrs[f] < ptrs[g]
\* The first flow of those least advanced (line 24).
IsNext(f) ==
    /\ \A g \in Flow : ~Behind(g, f)
    /\ \A g \in 1..(f - 1) : Behind(f, g)

GraphInit ==
    /\ \E n \in 1..N : /\ entries \in [1..n -> Entries]
                      /\ flows \in [1..n -> Names]
                      /\ ptrs = [f \in 1..n |-> 0]
    /\ pkt_list = <<>>

Lay(f) ==
    /\ ~Done
    /\ IsNext(f)
    /\ ptrs' = [ptrs EXCEPT ![f] = @ + 1]
    /\ pkt_list' = Append(pkt_list, f)
    /\ UNCHANGED <<entries, flows>>

GraphNext == \E f \in Flow : Lay(f)

GraphSpec == GraphInit /\ [][GraphNext]_graphVars

(***************************************************************************)
(* Waiting, and the degree of a flow.                                      *)
(***************************************************************************)
\* Lines 28-33: how often a packet of f has one of g among its predecessors in the queue;
\* a look is a place in the layout and a distance back from it.
Waits(f, g) ==
    Cardinality({look \in (DOMAIN pkt_list) \X (1..queuedepth(f)) :
                    /\ pkt_list[look[1]] = f
                    /\ look[1] - look[2] >= 1
                    /\ pkt_list[look[1] - look[2]] = g})

\* round(w / p, 1), a tie to the even digit.
RoundedTenths(w, p) ==
    LET digit == (10 * w) \div p
        rest  == (10 * w) % p
    IN  IF 2 * rest > p \/ (2 * rest = p /\ digit % 2 = 1) THEN digit + 1 ELSE digit

\* Mutant of PerPacket: the average over the packets waited for.
PerPacketOfOther(f, g) == RoundedTenths(Waits(f, g), pktnum(g))
PerPacket(f, g) == RoundedTenths(Waits(f, g), pktnum(f))

\* dict(zip(...)): of the entries with one name, the last.
RowOf(name) == Max({f \in Flow : flows[f] = name})

pkt_waitfor(name, name1) == PerPacket(RowOf(name), RowOf(name1))

\* Lines 41-44 go through the entries: a name that occurs twice counts twice.
Occurrences(name) == Cardinality({f \in Flow : flows[f] = name})

\* In tenths: how much others wait for the flow, less how much it waits for others.
degree(name) ==
    LET exchange(g) == pkt_waitfor(flows[g], name) - pkt_waitfor(name, flows[g])
    IN  Occurrences(name) * MapThenSumSet(exchange, Flow)

-----------------------------------------------------------------------------
(***************************************************************************)
(* Properties.                                                             *)
(***************************************************************************)
\* Packets of f laid out after the first i.
After(i, f) == Cardinality({at \in (i + 1)..Len(pkt_list) : pkt_list[at] = f})

\* Whatever stretch of the layout a queue is taken to be, no flow has more packets in it
\* than its share of those of any other flow, but for one packet of each: the queues
\* behind a packet that lines 28-33 look at hold the flows as they sent.
QueuesInProportion ==
    \A i \in 0..Len(pkt_list), f, g \in Flow :
        (After(i, f) - 1) * pktnum(g) <= (After(i, g) + 1) * pktnum(f)

\* Of two flows that shared a queue and saw it equally long, the one that sent more is
\* never blamed less, if it is printed first.  (Printed second it may be: the layout
\* starts with the first of the report.  With a third flow in the queue it may be, too.)
HeavierFlowBlamed ==
    (/\ Done /\ Cardinality(Flow) = 2 /\ IsInjective(flows)
     /\ pktnum(1) >= pktnum(2) /\ queuedepth(1) = queuedepth(2))
    => degree(flows[1]) >= degree(flows[2])
=============================================================================
